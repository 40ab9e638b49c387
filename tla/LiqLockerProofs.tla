----------------------------- MODULE LiqLockerProofs -----------------------------
(***************************************************************************)
(* The theorems about LiqLocker, for every number of accounts, tokens and   *)
(* delegatees, every lock length of at least two weeks and every value of   *)
(* the limits.  The inductive invariant IInv (types and backing) is split   *)
(* by the groups of variables that handlers leave alone together.  On it    *)
(* rest four more, one for each record that is kept of the same stake:      *)
(*   SolvencyOK  the debt of every reward stream is covered                 *)
(*   DatesOK     an account's locks are in order, no two of one week        *)
(*   VotesMatch  the checkpoints stand for the locks that are delegated,    *)
(*               and OrderOK, they are in order                             *)
(*   HistoryOK   the epochs stand for the locks of all accounts             *)
(* and the action properties, the views of the past and the refinement to   *)
(* EpochShares follow from them.  That no lock is empty (LocksWorthwhile)   *)
(* is added for what is paid to an account that leaves.                     *)
(***************************************************************************)
EXTENDS LiqLockerViews, SharedProofs, SequenceTheorems

----------------------------------------------------------------------------------
(* Weeks *)

\* The weeks are the multiples of RewardsDuration up to the bound.
LEMMA WeeksAreMultiples ==
  ASSUME NEW w
  PROVE  w \in Weeks <=> \E k \in Nat : w = k * RewardsDuration
                                        /\ w <= MaxTime + LockDuration + RewardsDuration
<1> USE RewardsDurationAssumption, LockAssumption, TimeAssumption
<1> DEFINE B == MaxTime + LockDuration + RewardsDuration
<1>1. LockDuration \in Nat /\ B \in Nat
  BY DEF LockDuration
<1> HIDE DEF B
<1>2. ASSUME w \in Weeks PROVE \E k \in Nat : w = k * RewardsDuration /\ w <= B
  <2>1. PICK t \in 0..B : w = WeekStart(t)
    BY <1>2 DEF Weeks, B
  <2>2. t \div RewardsDuration \in Nat /\ (t \div RewardsDuration) * RewardsDuration <= t
    BY <1>1
  <2>3. w <= B
    BY <2>1, <2>2, <1>1 DEF WeekStart
  <2> QED BY <2>1, <2>2, <2>3 DEF WeekStart
<1>3. ASSUME NEW k \in Nat, w = k * RewardsDuration, w <= B PROVE w \in Weeks
  <2>1. w \in 0..B
    BY <1>3, <1>1
  <2>2. w \div RewardsDuration = k
    BY <1>3
  <2>3. WeekStart(w) = w
    BY <2>2, <1>3 DEF WeekStart
  <2> QED BY <2>1, <2>3 DEF Weeks, B
<1> QED BY <1>2, <1>3 DEF B

\* Weeks are natural numbers.
LEMMA WeekIsNat ==
  ASSUME NEW w \in Weeks
  PROVE  w \in Nat
<1>1. PICK k \in Nat : w = k * RewardsDuration
  BY WeeksAreMultiples
<1> QED BY <1>1, RewardsDurationAssumption

\* Between two weeks there is a whole number of weeks.
LEMMA WeekSteps ==
  ASSUME NEW v \in Weeks, NEW w \in Weeks, v <= w
  PROVE  LET n == (w - v) \div RewardsDuration
         IN  /\ n \in Nat
             /\ v + n * RewardsDuration = w
             /\ \A k \in 1..n : v + k * RewardsDuration \in Weeks
<1> USE RewardsDurationAssumption
<1>1. PICK a \in Nat : v = a * RewardsDuration
  BY WeeksAreMultiples
<1>2. PICK b \in Nat : w = b * RewardsDuration /\ w <= MaxTime + LockDuration + RewardsDuration
  BY WeeksAreMultiples
<1>3. a <= b
  BY <1>1, <1>2
<1>4. w - v = (b - a) * RewardsDuration
  BY <1>1, <1>2
<1>5. (w - v) \div RewardsDuration = b - a
  BY <1>3, <1>4
<1>6. ASSUME NEW k \in 1..(b - a) PROVE v + k * RewardsDuration \in Weeks
  <2>1. v + k * RewardsDuration = (a + k) * RewardsDuration
    BY <1>1
  <2>2. (a + k) * RewardsDuration <= b * RewardsDuration
    BY <1>3
  <2>3. a + k \in Nat /\ v + k * RewardsDuration <= MaxTime + LockDuration + RewardsDuration
    BY <2>1, <2>2, <1>2, TimeAssumption, LockAssumption DEF LockDuration
  <2> QED BY <2>1, <2>3, WeeksAreMultiples
<1>7. v + (b - a) * RewardsDuration = w
  BY <1>1, <1>2
<1> QED BY <1>3, <1>5, <1>6, <1>7

\* A week that has begun by t began no later than the week of t.
LEMMA WeekStartIsLatest ==
  ASSUME NEW t \in Nat, NEW w \in Weeks, w <= t
  PROVE  w <= WeekStart(t)
<1> USE RewardsDurationAssumption
<1> DEFINE q == t \div RewardsDuration
<1>1. PICK k \in Nat : w = k * RewardsDuration
  BY WeeksAreMultiples
<1>2. q \in Nat /\ t < q * RewardsDuration + RewardsDuration /\ WeekStart(t) = q * RewardsDuration
  BY DEF WeekStart
<1> HIDE DEF q
<1>3. k * RewardsDuration < (q + 1) * RewardsDuration
  BY <1>1, <1>2
<1>4. k <= q
  BY <1>2, <1>3
<1> QED BY <1>1, <1>2, <1>4

\* Where the clock stands in its week, and that the dates the handlers write are
\* weeks.
LEMMA Calendar ==
  ASSUME now \in StartTime..MaxTime
  PROVE  /\ CurrentEpoch \in Weeks /\ UpcomingEpoch \in Weeks /\ UnlockTime \in Weeks
         /\ CurrentEpoch <= now /\ now < CurrentEpoch + RewardsDuration
         /\ UpcomingEpoch = CurrentEpoch + RewardsDuration
         /\ CurrentEpoch + 2 * RewardsDuration <= UnlockTime
         /\ \A w \in Weeks : w <= now => w <= CurrentEpoch
<1> USE RewardsDurationAssumption, LockAssumption, TimeAssumption
<1> DEFINE q == now \div RewardsDuration
<1>1. now \in Nat /\ q \in Nat /\ LockDuration \in Nat /\ MaxTime \in Nat /\ now <= MaxTime
  BY DEF LockDuration
<1>2. CurrentEpoch = q * RewardsDuration
  BY DEF CurrentEpoch, WeekStart
<1>3. q * RewardsDuration <= now /\ now < q * RewardsDuration + RewardsDuration
  BY <1>1
<1>4. (now + RewardsDuration) \div RewardsDuration = q + 1
  BY <1>1
<1>5. UpcomingEpoch = (q + 1) * RewardsDuration
  BY <1>4 DEF UpcomingEpoch, WeekStart
<1>6. UnlockTime = (q + LockEpochs) * RewardsDuration
  BY <1>1, <1>2 DEF UnlockTime, LockDuration
<1>7. 2 * RewardsDuration <= LockDuration
  BY DEF LockDuration
<1>8. q + 1 \in Nat /\ q + LockEpochs \in Nat
  BY <1>1
<1> HIDE DEF q
<1>9. CurrentEpoch \in Weeks
  BY <1>1, <1>2, <1>3, WeeksAreMultiples
<1>10. UpcomingEpoch = CurrentEpoch + RewardsDuration
  BY <1>1, <1>2, <1>5
<1>11. UpcomingEpoch \in Weeks
  <2>1. UpcomingEpoch <= MaxTime + LockDuration + RewardsDuration
    BY <1>1, <1>2, <1>3, <1>10
  <2> QED BY <2>1, <1>5, <1>8, WeeksAreMultiples
<1>12. UnlockTime = CurrentEpoch + LockDuration
  BY DEF UnlockTime
<1>13. UnlockTime \in Weeks
  BY <1>1, <1>2, <1>3, <1>6, <1>8, <1>12, WeeksAreMultiples
<1>14. ASSUME NEW w \in Weeks, w <= now PROVE w <= CurrentEpoch
  <2>1. PICK k \in Nat : w = k * RewardsDuration
    BY WeeksAreMultiples
  <2>2. k * RewardsDuration < (q + 1) * RewardsDuration
    BY <2>1, <1>1, <1>3, <1>14
  <2>3. k <= q
    BY <2>2, <1>1
  <2> QED BY <2>1, <2>3, <1>1, <1>2
<1> QED BY <1>1, <1>2, <1>3, <1>7, <1>9, <1>10, <1>11, <1>12, <1>13, <1>14

----------------------------------------------------------------------------------
(* The parts of the inductive invariant *)

\* The clock, the settings of the owner and the permissions.
AdminOK ==
  /\ now \in StartTime..MaxTime
  /\ isShutdown \in BOOLEAN
  /\ kickRewardPerEpoch \in Nat
  /\ kickRewardEpochDelay \in Nat \ {0}
  /\ blacklist \in SUBSET Contracts
  /\ permitted \in SUBSET (Accounts \X Operators)

\* No epoch is dated ahead of the clock.
EpochsOK ==
  /\ epochs \in Seq(Epoch) /\ epochs # <<>>
  /\ epochs[Len(epochs)].date <= now

\* An account's balance is the sum of its live locks.  Once the newest lock of an
\* account is processed, it had ended, or was about to when it was relocked: a new
\* lock is never added to a processed one.
BalancesMatch(bals) ==
  /\ bals \in [Accounts -> Balances]
  /\ \A u \in Accounts :
       /\ bals[u].nextUnlockIndex <= Len(userLocks[u])
       /\ bals[u].locked = LockSum(userLocks[u], bals[u].nextUnlockIndex, Len(userLocks[u]))
       /\ bals[u].nextUnlockIndex = Len(userLocks[u]) /\ userLocks[u] # <<>> /\ ~isShutdown
            => userLocks[u][Len(userLocks[u])].unlockTime <= now + RewardsDuration

LocksOK ==
  /\ userLocks \in [Accounts -> Seq(LockedBalance)]
  /\ BalancesMatch(balances)

SupplyMatches(supply, bals) == supply = SumTo([u \in Accounts |-> bals[u].locked], NumAccounts)

SupplyOK ==
  /\ SupplyMatches(lockedSupply, balances)
  /\ lockedSupply <= held[StakingToken]

\* No checkpoint lies beyond the upcoming epoch.
CheckpointsOK(ckpts) ==
  /\ ckpts \in [Delegatees -> Seq(DelegateeCheckpoint)]
  /\ \A d \in Delegatees :
       ckpts[d] # <<>> => ckpts[d][Len(ckpts[d])].epochStart <= UpcomingEpoch

VotesOK ==
  /\ delegates \in [Accounts -> Delegatees \cup {NoOne}]
  /\ CheckpointsOK(checkpointedVotes)
  /\ delegateeUnlocks \in [Delegatees -> [Weeks -> Nat]]

\* A stream is updated in the past and before it ends, and nobody has been paid
\* beyond its accumulator.
RewardsOK ==
  /\ rewardTokens \in SUBSET Tokens
  /\ rewardData \in [Tokens -> RewardDataType]
  /\ queuedRewards \in [Tokens -> Nat]
  /\ rewardDistributors \in [Tokens -> SUBSET Distributors]
  /\ userData \in [Accounts -> [Tokens -> UserDataType]]
  /\ \A t \in Tokens :
       /\ rewardData[t].lastUpdateTime <= now
       /\ rewardData[t].lastUpdateTime <= rewardData[t].periodFinish
       /\ \A u \in Accounts : userData[u][t].rewardPerTokenPaid <= rewardData[t].rewardPerTokenStored

TokensOK ==
  /\ held \in [AllTokens -> Nat]
  /\ wallet \in [Accounts -> Nat]
  /\ treasury \in [AllTokens -> Nat]
  /\ received \in [Accounts -> [Tokens -> Nat]]

IInv == AdminOK /\ EpochsOK /\ LocksOK /\ SupplyOK /\ VotesOK /\ RewardsOK /\ TokensOK

----------------------------------------------------------------------------------
(* Rewards *)

\* The streams after updateReward.
LEMMA RefreshedRewardsType ==
  ASSUME RewardsOK, now \in Nat, lockedSupply \in Nat
  PROVE  /\ RefreshedRewards \in [Tokens -> RewardDataType]
         /\ \A t \in Tokens :
              /\ RefreshedRewards[t].lastUpdateTime <= now
              /\ RefreshedRewards[t].lastUpdateTime <= RefreshedRewards[t].periodFinish
              /\ rewardData[t].rewardPerTokenStored <= RefreshedRewards[t].rewardPerTokenStored
<1>1. ASSUME NEW t \in Tokens
      PROVE  /\ RefreshedRewards[t] \in RewardDataType
             /\ RefreshedRewards[t].lastUpdateTime <= now
             /\ RefreshedRewards[t].lastUpdateTime <= RefreshedRewards[t].periodFinish
             /\ rewardData[t].rewardPerTokenStored <= RefreshedRewards[t].rewardPerTokenStored
  <2>1. /\ rewardData[t] \in RewardDataType
        /\ rewardData[t].lastUpdateTime <= now
        /\ rewardData[t].lastUpdateTime <= rewardData[t].periodFinish
    BY DEF RewardsOK
  <2>2. CASE t \in rewardTokens
    <3>1. RefreshedRewards[t] = Refreshed(rewardData[t], lockedSupply, now)
      BY <2>2 DEF RefreshedRewards
    <3> QED BY <3>1, <2>1, RefreshedType
  <2>3. CASE t \notin rewardTokens
    <3>1. RefreshedRewards[t] = rewardData[t]
      BY <2>3 DEF RefreshedRewards
    <3>2. rewardData[t].rewardPerTokenStored \in Nat
      BY <2>1 DEF RewardDataType
    <3> QED BY <3>1, <3>2, <2>1
  <2> QED BY <2>2, <2>3
<1>2. RefreshedRewards \in [Tokens -> RewardDataType]
  BY <1>1 DEF RefreshedRewards
<1> QED BY <1>1, <1>2

\* What updateReward writes.
LEMMA UpdateType ==
  ASSUME RewardsOK, now \in Nat, lockedSupply \in Nat, balances \in [Accounts -> Balances],
         NEW u \in Accounts
  PROVE  /\ RefreshedRewards \in [Tokens -> RewardDataType]
         /\ \A t \in Tokens :
              /\ RefreshedRewards[t].lastUpdateTime <= now
              /\ RefreshedRewards[t].lastUpdateTime <= RefreshedRewards[t].periodFinish
              /\ rewardData[t].rewardPerTokenStored <= RefreshedRewards[t].rewardPerTokenStored
              /\ SettledRewards(u)[t].rewardPerTokenPaid <= RefreshedRewards[t].rewardPerTokenStored
         /\ SettledRewards(u) \in [Tokens -> UserDataType]
<1>1. /\ RefreshedRewards \in [Tokens -> RewardDataType]
      /\ \A t \in Tokens :
           /\ RefreshedRewards[t].lastUpdateTime <= now
           /\ RefreshedRewards[t].lastUpdateTime <= RefreshedRewards[t].periodFinish
           /\ rewardData[t].rewardPerTokenStored <= RefreshedRewards[t].rewardPerTokenStored
  BY RefreshedRewardsType
<1>2. ASSUME NEW t \in Tokens
      PROVE  /\ SettledRewards(u)[t] \in UserDataType
             /\ SettledRewards(u)[t].rewardPerTokenPaid <= RefreshedRewards[t].rewardPerTokenStored
  <2> DEFINE perToken == RefreshedRewards[t].rewardPerTokenStored
  <2>1. /\ userData[u][t] \in UserDataType
        /\ userData[u][t].rewardPerTokenPaid <= rewardData[t].rewardPerTokenStored
        /\ rewardData[t] \in RewardDataType
    BY DEF RewardsOK
  <2>2. /\ perToken \in Nat
        /\ userData[u][t].rewardPerTokenPaid <= perToken
        /\ balances[u].locked \in Nat
    BY <2>1, <1>1 DEF RewardDataType, UserDataType, Balances
  <2> HIDE DEF perToken
  <2>3. CASE t \in rewardTokens
    <3>1. SettledRewards(u)[t] = Settled(userData[u][t], balances[u].locked, perToken)
      BY <2>3 DEF SettledRewards, perToken
    <3> QED BY <3>1, <2>1, <2>2, SettledType DEF perToken
  <2>4. CASE t \notin rewardTokens
    <3>1. SettledRewards(u)[t] = userData[u][t]
      BY <2>4 DEF SettledRewards
    <3> QED BY <3>1, <2>1, <2>2 DEF perToken
  <2> QED BY <2>3, <2>4
<1>3. SettledRewards(u) \in [Tokens -> UserDataType]
  BY <1>2 DEF SettledRewards
<1> QED BY <1>1, <1>2, <1>3

\* A handler that only runs updateReward on the rewards keeps them in order.
LEMMA UpdateRewardKeeps ==
  ASSUME IInv, NEW u \in Accounts, lockedSupply \in Nat, UpdateReward(u),
         UNCHANGED <<now, rewardTokens, queuedRewards, rewardDistributors>>
  PROVE  RewardsOK'
<1>1. now \in Nat /\ balances \in [Accounts -> Balances] /\ RewardsOK
  BY TimeAssumption DEF IInv, AdminOK, LocksOK, BalancesMatch
<1>2. /\ rewardData' \in [Tokens -> RewardDataType]
      /\ userData' \in [Accounts -> [Tokens -> UserDataType]]
  BY <1>1, UpdateType DEF UpdateReward, RewardsOK
<1>3. ASSUME NEW t \in Tokens
      PROVE  /\ rewardData'[t].lastUpdateTime <= now'
             /\ rewardData'[t].lastUpdateTime <= rewardData'[t].periodFinish
  BY <1>1, UpdateType DEF UpdateReward
<1>4. ASSUME NEW t \in Tokens, NEW a \in Accounts
      PROVE  userData'[a][t].rewardPerTokenPaid <= rewardData'[t].rewardPerTokenStored
  <2>1. rewardData' = RefreshedRewards
    BY DEF UpdateReward
  <2>2. CASE a = u
    <3>1. userData'[a][t] = SettledRewards(u)[t]
      BY <2>2, <1>1 DEF UpdateReward, RewardsOK
    <3> QED BY <3>1, <2>1, <1>1, UpdateType
  <2>3. CASE a # u
    <3>1. userData'[a][t] = userData[a][t]
      BY <2>3, <1>1 DEF UpdateReward, RewardsOK
    <3>2. /\ userData[a][t].rewardPerTokenPaid <= rewardData[t].rewardPerTokenStored
          /\ userData[a][t] \in UserDataType /\ rewardData[t] \in RewardDataType
      BY <1>1 DEF RewardsOK
    <3>3. /\ rewardData[t].rewardPerTokenStored <= RefreshedRewards[t].rewardPerTokenStored
          /\ RefreshedRewards[t] \in RewardDataType
      BY <1>1, UpdateType
    <3> QED BY <3>1, <3>2, <3>3, <2>1 DEF UserDataType, RewardDataType
  <2> QED BY <2>2, <2>3
<1> QED BY <1>1, <1>2, <1>3, <1>4 DEF RewardsOK

----------------------------------------------------------------------------------
(* Sums of locks *)

Amounts(locks) == [i \in 1..Len(locks) |-> locks[i].amount]

\* The amounts of a sequence of locks can be summed.
LEMMA AmountsType ==
  ASSUME NEW locks \in Seq(LockedBalance)
  PROVE  /\ Len(locks) \in Nat
         /\ \A i \in 1..Len(locks) : Amounts(locks)[i] = locks[i].amount /\ Amounts(locks)[i] \in Nat
         /\ \A k \in 0..Len(locks) : SumTo(Amounts(locks), k) \in Nat
                                     /\ SumTo(Amounts(locks), k) <= SumTo(Amounts(locks), Len(locks))
<1>1. Len(locks) \in Nat
  OBVIOUS
<1>2. \A i \in 1..Len(locks) : Amounts(locks)[i] = locks[i].amount /\ Amounts(locks)[i] \in Nat
  <2>1. ASSUME NEW i \in 1..Len(locks) PROVE locks[i].amount \in Nat
    <3>1. locks[i] \in LockedBalance
      OBVIOUS
    <3> QED BY <3>1 DEF LockedBalance
  <2> QED BY <2>1 DEF Amounts
<1> QED BY <1>1, <1>2, SumToNat

\* A sum of locks is a natural number, is 0 for none, and splits at any index.
LEMMA LockSumSplit ==
  ASSUME NEW locks \in Seq(LockedBalance), NEW m \in 0..Len(locks), NEW n \in 0..Len(locks)
  PROVE  /\ LockSum(locks, m, n) \in Int
         /\ LockSum(locks, m, m) = 0
         /\ LockSum(locks, m, Len(locks)) \in Nat
         /\ LockSum(locks, m, n) + LockSum(locks, n, Len(locks)) = LockSum(locks, m, Len(locks))
         /\ LockSum(locks, m, n) <= LockSum(locks, m, Len(locks))
<1>1. \A j, k : LockSum(locks, j, k) = SumTo(Amounts(locks), k) - SumTo(Amounts(locks), j)
  BY DEF LockSum, SumBetween, Amounts
<1>2. /\ SumTo(Amounts(locks), m) \in Nat /\ SumTo(Amounts(locks), n) \in Nat
      /\ SumTo(Amounts(locks), Len(locks)) \in Nat
      /\ SumTo(Amounts(locks), m) <= SumTo(Amounts(locks), Len(locks))
      /\ SumTo(Amounts(locks), n) <= SumTo(Amounts(locks), Len(locks))
  BY AmountsType
<1> QED BY <1>1, <1>2

\* Adding a lock, or adding to the newest one, adds to the sum of the locks that
\* are live, provided the newest one is live where it is added to.
LEMMA WithLockSum ==
  ASSUME NEW locks \in Seq(LockedBalance), NEW m \in 0..Len(locks), NEW amount \in Nat,
         UnlockTime \in Weeks,
         m = Len(locks) /\ locks # <<>> => locks[Len(locks)].unlockTime < UnlockTime
  PROVE  /\ WithLock(locks, amount) \in Seq(LockedBalance)
         /\ Len(locks) <= Len(WithLock(locks, amount))
         /\ \A i \in 1..Len(locks) : WithLock(locks, amount)[i].unlockTime = locks[i].unlockTime
         /\ LockSum(WithLock(locks, amount), m, Len(WithLock(locks, amount)))
              = LockSum(locks, m, Len(locks)) + amount
<1> DEFINE n == Len(locks)
           new == WithLock(locks, amount)
<1>1. /\ n \in Nat /\ SumTo(Amounts(locks), n) \in Nat /\ SumTo(Amounts(locks), m) \in Nat
      /\ \A i \in 1..n : Amounts(locks)[i] \in Nat /\ Amounts(locks)[i] = locks[i].amount
  BY AmountsType
<1>2. \A l, j, k : LockSum(l, j, k) = SumTo(Amounts(l), k) - SumTo(Amounts(l), j)
  BY DEF LockSum, SumBetween, Amounts
<1>3. CASE locks = <<>> \/ locks[n].unlockTime < UnlockTime
  <2> DEFINE lock == [amount |-> amount, unlockTime |-> UnlockTime]
  <2>1. new = Append(locks, lock)
    BY <1>3 DEF WithLock
  <2>2. lock \in LockedBalance
    BY DEF LockedBalance
  <2>3. /\ new \in Seq(LockedBalance) /\ Len(new) = n + 1
        /\ \A i \in 1..n : new[i] = locks[i]
        /\ new[n + 1] = lock
    BY <2>1, <2>2
  <2> HIDE DEF new, lock
  <2>4. \A i \in 1..(n + 1) : Amounts(new)[i] \in Nat
    BY <2>3, AmountsType
  <2>5. Amounts(new)[n + 1] = amount
    <3>1. new[n + 1].amount = amount
      BY <2>3 DEF lock
    <3>2. n + 1 \in 1..Len(new)
      BY <2>3, <1>1
    <3> QED BY <3>1, <3>2, <2>3, AmountsType
  <2>6. SumTo(Amounts(new), n + 1) = SumTo(Amounts(new), n) + amount
    <3>1. n + 1 \in Nat /\ n \in 0..(n + 1) /\ n < n + 1
      BY <1>1
    <3>2. \A i \in 1..(n + 1) : Amounts(new)[i] \in Int
      BY <2>4
    <3> QED BY <3>1, <3>2, <2>5, SumToStep
  <2>7. \A i \in 1..n : Amounts(new)[i] = Amounts(locks)[i]
    <3>1. ASSUME NEW i \in 1..n PROVE Amounts(new)[i] = Amounts(locks)[i]
      <4>1. i \in 1..Len(new) /\ new[i] = locks[i]
        BY <2>3, <1>1
      <4>2. Amounts(new)[i] = new[i].amount
        BY <4>1, <2>3, AmountsType
      <4> QED BY <4>1, <4>2, <1>1
    <3> QED BY <3>1
  <2>8. SumTo(Amounts(new), n) = SumTo(Amounts(locks), n)
    BY <2>7, <1>1, SumToCongruence
  <2>9. SumTo(Amounts(new), m) = SumTo(Amounts(locks), m)
    <3>1. m \in Nat /\ \A i \in 1..m : Amounts(locks)[i] \in Int /\ Amounts(new)[i] = Amounts(locks)[i]
      BY <2>7, <1>1
    <3> QED BY <3>1, SumToCongruence
  <2>10. LockSum(new, m, Len(new)) = LockSum(locks, m, n) + amount
    BY <1>1, <1>2, <2>3, <2>6, <2>8, <2>9
  <2> QED BY <2>3, <2>10, <1>1 DEF new
<1>4. CASE ~(locks = <<>> \/ locks[n].unlockTime < UnlockTime)
  <2>1. new = [locks EXCEPT ![n].amount = @ + amount]
    BY <1>4 DEF WithLock
  <2>2. n \in 1..n /\ m < n
    BY <1>4, <1>1
  <2>3. locks[n] \in LockedBalance /\ [locks[n] EXCEPT !.amount = @ + amount] \in LockedBalance
    <3>1. locks[n] \in LockedBalance
      BY <2>2
    <3> QED BY <3>1 DEF LockedBalance
  <2>4. /\ new \in Seq(LockedBalance) /\ Len(new) = n
        /\ \A i \in 1..n : i # n => new[i] = locks[i]
        /\ new[n] = [locks[n] EXCEPT !.amount = @ + amount]
    BY <2>1, <2>2, <2>3
  <2>5. new[n].amount = locks[n].amount + amount /\ new[n].unlockTime = locks[n].unlockTime
    BY <2>3, <2>4 DEF LockedBalance
  <2> HIDE DEF new
  <2>6. \A i \in 1..n : Amounts(new)[i] \in Nat /\ Amounts(new)[i] = new[i].amount
    BY <2>4, AmountsType
  <2>7. SumTo(Amounts(new), n) = SumTo(Amounts(locks), n) + Amounts(new)[n] - Amounts(locks)[n]
    <3>1. \A i \in 1..n : Amounts(locks)[i] \in Int /\ Amounts(new)[i] \in Int
      BY <1>1, <2>6
    <3>2. \A i \in 1..n : i # n => Amounts(new)[i] = Amounts(locks)[i]
      BY <1>1, <2>4, <2>6
    <3>3. n \in Nat /\ n \in 1..n
      BY <1>1, <2>2
    <3> QED BY ONLY <3>1, <3>2, <3>3, SumToUpdate
  <2>8. Amounts(new)[n] = Amounts(locks)[n] + amount
    BY <2>2, <2>5, <2>6, <1>1
  <2>9. SumTo(Amounts(new), m) = SumTo(Amounts(locks), m)
    <3>1. m \in Nat /\ \A i \in 1..m : Amounts(locks)[i] \in Int /\ Amounts(new)[i] = Amounts(locks)[i]
      BY <1>1, <2>2, <2>4, <2>6
    <3> QED BY <3>1, SumToCongruence
  <2>10. Amounts(locks)[n] \in Nat
    BY <1>1, <2>2
  <2>11. LockSum(new, m, n) = LockSum(locks, m, n) + amount
    BY <1>1, <1>2, <2>7, <2>8, <2>9, <2>10
  <2>12. \A i \in 1..n : new[i].unlockTime = locks[i].unlockTime
    BY <2>4, <2>5
  <2> QED BY <2>4, <2>11, <2>12, <1>1 DEF new
<1> QED BY <1>3, <1>4

----------------------------------------------------------------------------------
(* Balances and supply *)

\* A matching supply is a natural number and no balance exceeds it.
LEMMA SupplyType ==
  ASSUME NEW bals \in [Accounts -> Balances], NEW supply, SupplyMatches(supply, bals)
  PROVE  supply \in Nat /\ \A u \in Accounts : bals[u].locked \in Nat /\ bals[u].locked <= supply
<1> DEFINE f == [u \in Accounts |-> bals[u].locked]
<1>1. NumAccounts \in Nat /\ Accounts = 1..NumAccounts
  BY AccountsAssumption DEF Accounts
<1>2. \A u \in Accounts : f[u] = bals[u].locked /\ f[u] \in Nat
  BY DEF Balances
<1>3. supply = SumTo(f, NumAccounts)
  BY DEF SupplyMatches
<1> HIDE DEF f
<1>4. supply \in Nat
  <2>1. NumAccounts \in 0..NumAccounts
    BY <1>1
  <2> QED BY <2>1, <1>1, <1>2, <1>3, SumToNat
<1>5. \A u \in Accounts : f[u] <= supply
  BY <1>1, <1>2, <1>3, SumToMember
<1> QED BY <1>2, <1>4, <1>5

\* So the locked supply is a natural number.
LEMMA SupplyIsNat ==
  ASSUME IInv
  PROVE  lockedSupply \in Nat /\ \A u \in Accounts : balances[u].locked <= lockedSupply
BY SupplyType DEF IInv, LocksOK, BalancesMatch, SupplyOK

\* Changing the balance of one account changes the supply by as much.
LEMMA SupplyUpdate ==
  ASSUME NEW bals \in [Accounts -> Balances], NEW supply, SupplyMatches(supply, bals),
         NEW news \in [Accounts -> Balances], NEW u \in Accounts,
         \A a \in Accounts : a # u => news[a] = bals[a]
  PROVE  SupplyMatches(supply + news[u].locked - bals[u].locked, news)
<1> DEFINE f == [a \in Accounts |-> bals[a].locked]
           g == [a \in Accounts |-> news[a].locked]
<1>1. NumAccounts \in Nat /\ Accounts = 1..NumAccounts
  BY AccountsAssumption DEF Accounts
<1>2. \A a \in Accounts : f[a] = bals[a].locked /\ f[a] \in Nat
  BY DEF Balances
<1>3. \A a \in Accounts : g[a] = news[a].locked /\ g[a] \in Nat
  BY DEF Balances
<1>4. supply = SumTo(f, NumAccounts)
  BY DEF SupplyMatches
<1>5. SupplyMatches(SumTo(g, NumAccounts), news)
  BY DEF SupplyMatches
<1> HIDE DEF f, g
<1>6. SumTo(g, NumAccounts) = SumTo(f, NumAccounts) + g[u] - f[u]
  <2>1. \A a \in 1..NumAccounts : f[a] \in Int /\ g[a] \in Int
    BY <1>1, <1>2, <1>3
  <2>2. \A a \in 1..NumAccounts : a # u => g[a] = f[a]
    BY <1>1, <1>2, <1>3
  <2> QED BY <2>1, <2>2, <1>1, SumToUpdate
<1> QED BY <1>2, <1>3, <1>4, <1>5, <1>6

\* Locking tokens for an account on matching balances keeps them matching.
LEMMA LockTokensKeeps ==
  ASSUME IInv, NEW sender, NEW u \in Accounts, NEW amount \in Nat, NEW bals, NEW supply, NEW ckpts,
         BalancesMatch(bals), SupplyMatches(supply, bals),
         LockTokens(sender, u, amount, bals, supply, ckpts),
         UNCHANGED <<now, isShutdown>>
  PROVE  LocksOK' /\ SupplyMatches(lockedSupply, balances)' /\ lockedSupply' = supply + amount
<1> DEFINE locks == userLocks[u]
           m == bals[u].nextUnlockIndex
           news == [bals EXCEPT ![u].locked = @ + amount]
<1>1. /\ userLocks \in [Accounts -> Seq(LockedBalance)]
      /\ bals \in [Accounts -> Balances]
      /\ now \in StartTime..MaxTime
  BY DEF IInv, LocksOK, BalancesMatch, AdminOK
<1>2. /\ ~isShutdown
      /\ balances' = news
      /\ lockedSupply' = supply + amount
      /\ userLocks' = [userLocks EXCEPT ![u] = WithLock(@, amount)]
  BY DEF LockTokens
<1>3. /\ UnlockTime \in Weeks /\ UnlockTime \in Nat
      /\ now + RewardsDuration < UnlockTime /\ now \in Nat
  BY <1>1, Calendar, WeekIsNat, RewardsDurationAssumption, TimeAssumption
<1>4. /\ m \in 0..Len(locks) /\ bals[u].locked \in Nat
      /\ bals[u].locked = LockSum(locks, m, Len(locks))
  BY <1>1 DEF BalancesMatch, Balances
<1>5. m = Len(locks) /\ locks # <<>> => locks[Len(locks)].unlockTime < UnlockTime
  <2> SUFFICES ASSUME m = Len(locks), locks # <<>> PROVE locks[Len(locks)].unlockTime < UnlockTime
    OBVIOUS
  <2>1. locks[Len(locks)].unlockTime <= now + RewardsDuration
    BY <1>2 DEF BalancesMatch
  <2>2. locks[Len(locks)].unlockTime \in Nat
    <3>1. locks \in Seq(LockedBalance) /\ Len(locks) \in 1..Len(locks)
      BY <1>1
    <3>2. locks[Len(locks)] \in LockedBalance
      BY <3>1
    <3> QED BY <3>2, WeekIsNat DEF LockedBalance
  <2> QED BY <2>1, <2>2, <1>3, RewardsDurationAssumption
<1>6. /\ WithLock(locks, amount) \in Seq(LockedBalance)
      /\ Len(locks) <= Len(WithLock(locks, amount))
      /\ \A i \in 1..Len(locks) : WithLock(locks, amount)[i].unlockTime = locks[i].unlockTime
      /\ LockSum(WithLock(locks, amount), m, Len(WithLock(locks, amount)))
           = LockSum(locks, m, Len(locks)) + amount
  BY <1>1, <1>3, <1>4, <1>5, WithLockSum
<1>7. /\ news \in [Accounts -> Balances]
      /\ \A a \in Accounts : a # u => news[a] = bals[a]
      /\ news[u].nextUnlockIndex = m /\ news[u].locked = bals[u].locked + amount
  BY <1>1 DEF Balances
<1>8. /\ userLocks' \in [Accounts -> Seq(LockedBalance)]
      /\ userLocks'[u] = WithLock(locks, amount)
      /\ \A a \in Accounts : a # u => userLocks'[a] = userLocks[a]
  BY <1>1, <1>2, <1>6
<1> HIDE DEF news
<1>9. SupplyMatches(lockedSupply, balances)'
  <2>1. SupplyMatches(supply + news[u].locked - bals[u].locked, news)
    BY <1>1, <1>7, SupplyUpdate
  <2>2. supply \in Nat
    BY <1>1, SupplyType
  <2>3. supply + news[u].locked - bals[u].locked = supply + amount
    BY <2>2, <1>4, <1>7
  <2> QED BY <2>1, <2>3, <1>2 DEF SupplyMatches
<1>10. BalancesMatch(balances)'
  <2>1. ASSUME NEW a \in Accounts
        PROVE  /\ news[a].nextUnlockIndex <= Len(userLocks'[a])
               /\ news[a].locked = LockSum(userLocks'[a], news[a].nextUnlockIndex, Len(userLocks'[a]))
               /\ news[a].nextUnlockIndex = Len(userLocks'[a]) /\ userLocks'[a] # <<>> /\ ~isShutdown
                    => userLocks'[a][Len(userLocks'[a])].unlockTime <= now + RewardsDuration
    <3>1. CASE a # u
      BY <3>1, <1>7, <1>8 DEF BalancesMatch
    <3>2. CASE a = u
      <4>1. m <= Len(userLocks'[u])
        BY <1>4, <1>6, <1>8
      <4>2. news[u].locked = LockSum(userLocks'[u], m, Len(userLocks'[u]))
        BY <1>4, <1>6, <1>7, <1>8
      <4>3. m = Len(userLocks'[u]) => m = Len(locks)
        BY <1>4, <1>6, <1>8, <1>1
      <4>4. ASSUME m = Len(userLocks'[u]), userLocks'[u] # <<>>
            PROVE userLocks'[u][Len(userLocks'[u])].unlockTime <= now + RewardsDuration
        <5>1. Len(WithLock(locks, amount)) = Len(locks) /\ m = Len(locks)
          BY <4>3, <4>4, <1>8
        <5>2. locks # <<>>
          <6>1. WithLock(locks, amount) # <<>> /\ WithLock(locks, amount) \in Seq(LockedBalance)
            BY <4>4, <1>6, <1>8
          <6>2. Len(WithLock(locks, amount)) # 0
            BY <6>1, EmptySeq
          <6> QED BY <6>2, <5>1, EmptySeq
        <5>3. Len(locks) \in 1..Len(locks)
          BY <5>2, <1>1
        <5>4. userLocks'[u][Len(userLocks'[u])].unlockTime = locks[Len(locks)].unlockTime
          BY <5>1, <5>3, <1>6, <1>8
        <5>5. locks[Len(locks)].unlockTime <= now + RewardsDuration
          BY <5>1, <5>2, <1>2 DEF BalancesMatch
        <5> QED BY <5>4, <5>5
      <4> QED BY <3>2, <4>1, <4>2, <4>4, <1>7
    <3> QED BY <3>1, <3>2
  <2> QED BY <2>1, <1>2, <1>7 DEF BalancesMatch
<1> QED BY <1>2, <1>8, <1>9, <1>10 DEF LocksOK

----------------------------------------------------------------------------------
(* Epochs *)

\* Checkpointing the epochs fills in weeks up to the current one.
LEMMA CheckpointedEpochsType ==
  ASSUME EpochsOK, now \in StartTime..MaxTime
  PROVE  /\ CheckpointedEpochs \in Seq(Epoch) /\ CheckpointedEpochs # <<>>
         /\ CheckpointedEpochs[Len(CheckpointedEpochs)].date <= now
<1> DEFINE last == epochs[Len(epochs)].date
           n == (CurrentEpoch - last) \div RewardsDuration
           missing == [i \in 1..n |-> [supply |-> 0, date |-> last + i * RewardsDuration]]
<1>1. epochs \in Seq(Epoch) /\ epochs # <<>> /\ last <= now
  BY DEF EpochsOK
<1>2. Len(epochs) \in Nat /\ Len(epochs) \in 1..Len(epochs)
  BY <1>1
<1>3. last \in Weeks
  <2>1. epochs[Len(epochs)] \in Epoch
    BY <1>1, <1>2
  <2> QED BY <2>1 DEF Epoch
<1>4. /\ n \in Nat
      /\ last + n * RewardsDuration = CurrentEpoch
      /\ \A k \in 1..n : last + k * RewardsDuration \in Weeks
      /\ CurrentEpoch <= now
  BY <1>1, <1>3, Calendar, WeekSteps
<1>5. CheckpointedEpochs = epochs \o missing
  BY DEF CheckpointedEpochs
<1> HIDE DEF last, n
<1>6. missing \in Seq(Epoch) /\ Len(missing) = n
  <2>1. \A i \in 1..n : [supply |-> 0, date |-> last + i * RewardsDuration] \in Epoch
    BY <1>4 DEF Epoch
  <2> QED BY <2>1, <1>4
<1>7. n > 0 => missing[n].date = CurrentEpoch
  BY <1>4
<1> HIDE DEF missing
<1>8. /\ epochs \o missing \in Seq(Epoch)
      /\ Len(epochs \o missing) = Len(epochs) + n
      /\ \A i \in 1..(Len(epochs) + n) :
           (epochs \o missing)[i] = IF i <= Len(epochs) THEN epochs[i] ELSE missing[i - Len(epochs)]
  BY <1>1, <1>6, ConcatProperties
<1>9. epochs \o missing # <<>>
  BY <1>2, <1>4, <1>8, EmptySeq
<1>10. (epochs \o missing)[Len(epochs) + n].date <= now
  <2>1. CASE n = 0
    <3>1. (epochs \o missing)[Len(epochs) + n] = epochs[Len(epochs)]
      BY <2>1, <1>2, <1>8
    <3> QED BY <3>1, <1>1 DEF last
  <2>2. CASE n > 0
    <3>1. (epochs \o missing)[Len(epochs) + n] = missing[n]
      BY <2>2, <1>2, <1>4, <1>8
    <3> QED BY <3>1, <2>2, <1>4, <1>7
  <2>3. n = 0 \/ n > 0
    BY <1>4
  <2> QED BY <2>1, <2>2, <2>3
<1> QED BY <1>5, <1>8, <1>9, <1>10

\* Adding to the newest epoch keeps them in order.
LEMMA WithEpochSupplyType ==
  ASSUME EpochsOK, now \in StartTime..MaxTime, NEW amount \in Nat
  PROVE  /\ WithEpochSupply(amount) \in Seq(Epoch) /\ WithEpochSupply(amount) # <<>>
         /\ WithEpochSupply(amount)[Len(WithEpochSupply(amount))].date <= now
<1> DEFINE es == CheckpointedEpochs
           e == [es[Len(es)] EXCEPT !.supply = @ + amount]
<1>1. es \in Seq(Epoch) /\ es # <<>> /\ es[Len(es)].date <= now
  BY CheckpointedEpochsType
<1>2. WithEpochSupply(amount) = [es EXCEPT ![Len(es)] = e]
  BY DEF WithEpochSupply
<1> HIDE DEF es
<1>3. Len(es) \in 1..Len(es) /\ Len(es) \in Nat
  BY <1>1
<1>4. es[Len(es)] \in Epoch
  BY <1>1, <1>3
<1>5. e \in Epoch /\ e.date = es[Len(es)].date
  BY <1>4 DEF Epoch
<1> HIDE DEF e
<1>6. /\ [es EXCEPT ![Len(es)] = e] \in Seq(Epoch)
      /\ Len([es EXCEPT ![Len(es)] = e]) = Len(es)
      /\ [es EXCEPT ![Len(es)] = e][Len(es)] = e
  BY <1>1, <1>3, <1>5, ExceptSeq
<1>7. [es EXCEPT ![Len(es)] = e] # <<>>
  BY <1>3, <1>6, EmptySeq
<1> QED BY <1>1, <1>2, <1>5, <1>6, <1>7

----------------------------------------------------------------------------------
(* Votes *)

\* The unlocks between two weeks are a sum over weeks.
LEMMA UnlocksBetweenType ==
  ASSUME NEW unlocks \in [Weeks -> Nat], NEW v \in Weeks, NEW w \in Weeks, v <= w
  PROVE  UnlocksBetween(unlocks, v, w) \in Nat
<1> DEFINE n == (w - v) \div RewardsDuration
           f == [k \in 1..n |-> unlocks[v + k * RewardsDuration]]
<1>1. n \in Nat /\ \A k \in 1..n : v + k * RewardsDuration \in Weeks
  BY WeekSteps
<1>2. UnlocksBetween(unlocks, v, w) = SumTo(f, n)
  BY DEF UnlocksBetween
<1> HIDE DEF n
<1>3. \A k \in 1..n : f[k] \in Nat
  BY <1>1
<1> HIDE DEF f
<1>4. n \in 0..n
  BY <1>1
<1> QED BY <1>1, <1>2, <1>3, <1>4, SumToNat

\* A checkpoint that does not underflow is one of the upcoming epoch.
LEMMA CheckpointDelegateType ==
  ASSUME now \in StartTime..MaxTime,
         NEW ckpts \in Seq(DelegateeCheckpoint), NEW unlocks \in [Weeks -> Nat],
         ckpts # <<>> => ckpts[Len(ckpts)].epochStart <= UpcomingEpoch,
         NEW addition \in Nat, NEW deduction \in Nat,
         CanCheckpoint(ckpts, unlocks, addition, deduction)
  PROVE  LET new == CheckpointDelegate(ckpts, unlocks, addition, deduction)
         IN  /\ new \in Seq(DelegateeCheckpoint)
             /\ new # <<>> => new[Len(new)].epochStart <= UpcomingEpoch
<1> DEFINE carried == CarriedVotes(ckpts, unlocks, UpcomingEpoch)
           ckpt == [votes |-> carried + addition - deduction, epochStart |-> UpcomingEpoch]
           n == Len(ckpts)
<1>1. UpcomingEpoch \in Weeks /\ UpcomingEpoch \in Nat
  BY Calendar, WeekIsNat
<1>2. carried \in Int
  <2>1. CASE ckpts = <<>> \/ AllExpired(ckpts[Len(ckpts)], UpcomingEpoch)
    BY <2>1 DEF CarriedVotes
  <2>2. CASE ~(ckpts = <<>> \/ AllExpired(ckpts[Len(ckpts)], UpcomingEpoch))
    <3>1. n \in 1..n
      BY <2>2
    <3>2. ckpts[n] \in DelegateeCheckpoint
      BY <3>1
    <3>3. ckpts[n].votes \in Nat /\ ckpts[n].epochStart \in Weeks
      BY <3>2 DEF DelegateeCheckpoint
    <3>4. UnlocksBetween(unlocks, ckpts[n].epochStart, UpcomingEpoch) \in Nat
      BY <2>2, <3>3, <1>1, UnlocksBetweenType
    <3> QED BY <2>2, <3>3, <3>4 DEF CarriedVotes
  <2> QED BY <2>1, <2>2
<1>3. ckpt \in DelegateeCheckpoint
  <2>1. carried >= 0 /\ carried + addition >= deduction
    BY DEF CanCheckpoint
  <2> QED BY <2>1, <1>1, <1>2 DEF DelegateeCheckpoint
<1>4. ckpt.epochStart = UpcomingEpoch
  OBVIOUS
<1>5. CheckpointDelegate(ckpts, unlocks, addition, deduction)
        = IF ckpts # <<>> /\ ckpts[n].epochStart = UpcomingEpoch
          THEN [ckpts EXCEPT ![n] = ckpt] ELSE Append(ckpts, ckpt)
  BY DEF CheckpointDelegate
<1> HIDE DEF ckpt
<1>6. CASE ckpts # <<>> /\ ckpts[n].epochStart = UpcomingEpoch
  <2>1. n \in 1..n
    BY <1>6
  <2>2. /\ [ckpts EXCEPT ![n] = ckpt] \in Seq(DelegateeCheckpoint)
        /\ Len([ckpts EXCEPT ![n] = ckpt]) = n
        /\ [ckpts EXCEPT ![n] = ckpt][n] = ckpt
    BY <2>1, <1>3, ExceptSeq
  <2> QED BY <2>2, <1>1, <1>4, <1>5, <1>6
<1>7. CASE ~(ckpts # <<>> /\ ckpts[n].epochStart = UpcomingEpoch)
  <2>1. /\ Append(ckpts, ckpt) \in Seq(DelegateeCheckpoint)
        /\ Len(Append(ckpts, ckpt)) = n + 1
        /\ Append(ckpts, ckpt)[n + 1] = ckpt
    BY <1>3, AppendProperties
  <2> QED BY <2>1, <1>1, <1>4, <1>5, <1>7
<1> QED BY <1>6, <1>7


\* A checkpoint of one delegatee keeps all of them in order.
LEMMA CheckpointKeeps ==
  ASSUME now \in StartTime..MaxTime,
         NEW ckpts, CheckpointsOK(ckpts), NEW d \in Delegatees, NEW unlocks \in [Weeks -> Nat],
         NEW addition \in Nat, NEW deduction \in Nat,
         CanCheckpoint(ckpts[d], unlocks, addition, deduction)
  PROVE  CheckpointsOK([ckpts EXCEPT ![d] = CheckpointDelegate(@, unlocks, addition, deduction)])
<1> DEFINE new == CheckpointDelegate(ckpts[d], unlocks, addition, deduction)
<1>1. /\ ckpts \in [Delegatees -> Seq(DelegateeCheckpoint)]
      /\ ckpts[d] \in Seq(DelegateeCheckpoint)
      /\ ckpts[d] # <<>> => ckpts[d][Len(ckpts[d])].epochStart <= UpcomingEpoch
  BY DEF CheckpointsOK
<1>2. /\ new \in Seq(DelegateeCheckpoint)
      /\ new # <<>> => new[Len(new)].epochStart <= UpcomingEpoch
  BY <1>1, CheckpointDelegateType
<1> HIDE DEF new
<1>3. CheckpointsOK([ckpts EXCEPT ![d] = new])
  BY <1>1, <1>2 DEF CheckpointsOK
<1> QED BY <1>3 DEF new

\* So does locking tokens, which adds to the unlocks of the delegatee.
LEMMA LockTokensVotes ==
  ASSUME now \in StartTime..MaxTime, VotesOK, UNCHANGED <<now, delegates>>,
         NEW sender, NEW u \in Accounts, NEW amount \in Nat, NEW bals, NEW supply,
         NEW ckpts, CheckpointsOK(ckpts),
         LockTokens(sender, u, amount, bals, supply, ckpts)
  PROVE  VotesOK'
<1> DEFINE d == delegates[u]
           unlocks == [delegateeUnlocks[d] EXCEPT ![UnlockTime] = @ + amount]
<1>1. /\ delegates' = delegates /\ delegates \in [Accounts -> Delegatees \cup {NoOne}]
      /\ delegateeUnlocks \in [Delegatees -> [Weeks -> Nat]]
      /\ d \in Delegatees \cup {NoOne}
  BY DEF VotesOK
<1>2. UpcomingEpoch' = UpcomingEpoch
  BY DEF UpcomingEpoch, WeekStart
<1>3. CASE d = NoOne
  <2>1. checkpointedVotes' = ckpts /\ delegateeUnlocks' = delegateeUnlocks
    BY <1>3 DEF LockTokens
  <2> QED BY <2>1, <1>1, <1>2 DEF VotesOK, CheckpointsOK
<1>4. CASE d # NoOne
  <2>1. d \in Delegatees
    BY <1>1, <1>4
  <2>2. /\ delegateeUnlocks' = [delegateeUnlocks EXCEPT ![d][UnlockTime] = @ + amount]
        /\ CanCheckpoint(ckpts[d], delegateeUnlocks'[d], amount, 0)
        /\ checkpointedVotes' =
             [ckpts EXCEPT ![d] = CheckpointDelegate(@, delegateeUnlocks'[d], amount, 0)]
    BY <1>4 DEF LockTokens
  <2>3. UnlockTime \in Weeks
    BY Calendar
  <2>4. delegateeUnlocks' \in [Delegatees -> [Weeks -> Nat]]
    BY <2>1, <2>2, <2>3, <1>1
  <2>5. CheckpointsOK(checkpointedVotes')
    <3>1. delegateeUnlocks'[d] \in [Weeks -> Nat]
      BY <2>1, <2>4
    <3> QED BY <3>1, <2>1, <2>2, CheckpointKeeps
  <2> QED BY <2>4, <2>5, <1>1, <1>2 DEF VotesOK, CheckpointsOK
<1> QED BY <1>3, <1>4


----------------------------------------------------------------------------------
(* Kick rewards *)

\* The kicker's share of a lock that is due is a natural number.
LEMMA KickRewardType ==
  ASSUME AdminOK, NEW delay \in 0..now, NEW w \in Weeks, w <= WeekStart(now - delay),
         NEW amount \in Nat
  PROVE  KickReward(amount, w, delay) \in Nat
<1>1. w \in Nat /\ now \in Nat /\ kickRewardPerEpoch \in Nat
  BY WeekIsNat, TimeAssumption DEF AdminOK
<1>2. WeekStart(now - delay) \in Nat
  <2>1. now - delay \in Nat
    BY <1>1
  <2> QED BY <2>1, RewardsDurationAssumption DEF WeekStart
<1> DEFINE late == WeekStart(now - delay) - w
           rate == kickRewardPerEpoch * (late \div RewardsDuration + 1)
<1>3. late \in Nat
  BY <1>1, <1>2
<1> HIDE DEF late
<1>4. late \div RewardsDuration + 1 \in Nat
  BY <1>3, RewardsDurationAssumption
<1>5. rate \in Nat
  BY <1>1, <1>4
<1> HIDE DEF rate
<1>6. KickRate(w, delay) \in Nat
  <2>1. KickRate(w, delay) = AtMost(rate, Denominator)
    BY DEF KickRate, rate, late
  <2> QED BY <2>1, <1>5, KickAssumption DEF AtMost
<1> DEFINE share == amount * KickRate(w, delay)
<1>7. share \in Nat
  BY <1>6
<1>8. KickReward(amount, w, delay) = share \div Denominator
  BY DEF KickReward
<1> HIDE DEF share
<1> QED BY <1>7, <1>8, KickAssumption

\* So is the sum over a run of due locks.
LEMMA KickRewardsType ==
  ASSUME AdminOK, NEW delay \in 0..now, NEW locks \in Seq(LockedBalance),
         NEW m \in 0..Len(locks), NEW n \in m..Len(locks),
         \A i \in (m + 1)..n : locks[i].unlockTime <= now - delay
  PROVE  KickRewards(locks, m, n, delay) \in Nat
<1> DEFINE f == [i \in 1..Len(locks) |-> IF i <= m THEN 0
                    ELSE KickReward(locks[i].amount, locks[i].unlockTime, delay)]
<1>1. KickRewards(locks, m, n, delay) = SumTo(f, n) - SumTo(f, m)
  BY DEF KickRewards, SumBetween
<1>2. now \in Nat /\ m \in 0..n /\ n \in 0..n /\ n \in Nat
  BY TimeAssumption DEF AdminOK
<1>3. ASSUME NEW i \in 1..n PROVE f[i] \in Nat
  <2>1. i \in 1..Len(locks)
    BY <1>2
  <2>2. CASE i <= m
    BY <2>1, <2>2
  <2>3. CASE ~(i <= m)
    <3>1. i \in (m + 1)..n
      BY <2>3, <1>2
    <3>2. locks[i] \in LockedBalance
      BY <2>1
    <3>3. locks[i].amount \in Nat /\ locks[i].unlockTime \in Weeks
      BY <3>2 DEF LockedBalance
    <3>4. locks[i].unlockTime <= WeekStart(now - delay)
      <4>1. locks[i].unlockTime <= now - delay
        BY <3>1
      <4>2. now - delay \in 0..now
        BY <1>2
      <4> QED BY <4>1, <4>2, <3>3, WeekStartIsLatest
    <3>5. f[i] = KickReward(locks[i].amount, locks[i].unlockTime, delay)
      BY <2>1, <2>3
    <3> QED BY <3>3, <3>4, <3>5, KickRewardType
  <2> QED BY <2>2, <2>3
<1> HIDE DEF f
<1>4. SumTo(f, n) \in Nat /\ SumTo(f, m) \in Nat /\ SumTo(f, m) <= SumTo(f, n)
  BY <1>2, <1>3, SumToNat
<1> QED BY <1>1, <1>4


----------------------------------------------------------------------------------
(* Processing expired locks *)

\* The run of expired locks starts at nextUnlockIndex and every lock in it expired.
LEMMA LastExpiredRun ==
  ASSUME LocksOK, NEW u \in Accounts, NEW expiry
  PROVE  LET first == balances[u].nextUnlockIndex
         IN  /\ first \in Nat
             /\ LastExpired(u, expiry) \in first..Len(userLocks[u])
             /\ \A i \in (first + 1)..LastExpired(u, expiry) : userLocks[u][i].unlockTime <= expiry
<1> DEFINE first == balances[u].nextUnlockIndex
           len == Len(userLocks[u])
           T == {j \in first..len : \A i \in (first + 1)..j : userLocks[u][i].unlockTime <= expiry}
<1>1. first \in Nat /\ len \in Nat /\ first <= len
  <2>1. balances[u] \in Balances /\ userLocks[u] \in Seq(LockedBalance) /\ first <= len
    BY DEF LocksOK, BalancesMatch
  <2> QED BY <2>1 DEF Balances
<1>2. LastExpired(u, expiry) = Max(T)
  BY DEF LastExpired
<1> HIDE DEF first, len
<1>3. T \in SUBSET (0..len) /\ first \in T
  BY <1>1
<1>4. \E j \in T : \A k \in T : k <= j
  BY <1>1, <1>3, GreatestElement
<1>5. \A k \in T : k \in Int
  BY <1>3
<1> HIDE DEF T
<1>6. Max(T) \in T
  BY <1>4, <1>5 DEF Max
<1> QED BY <1>1, <1>2, <1>6 DEF T, first, len

\* What a run over the expired locks of u takes out, and the kick reward in it.
\* `bundled` is the branch that takes everything; `amount` and `reward` are the
\* run's.
LEMMA ProcessedRun ==
  ASSUME IInv, NEW u \in Accounts, NEW relock \in BOOLEAN, NEW delay \in 0..now,
         NEW expiry \in Int, delay = 0 /\ relock => expiry = now + RewardsDuration,
         ~(delay = 0 /\ relock) => expiry = now - delay,
         NEW bundled,
         bundled <=> isShutdown \/ userLocks[u][Len(userLocks[u])].unlockTime <= expiry,
         NEW next, next = IF bundled THEN Len(userLocks[u]) ELSE LastExpired(u, expiry),
         NEW amount,
         amount = IF bundled THEN balances[u].locked
                  ELSE LockSum(userLocks[u], balances[u].nextUnlockIndex, next),
         amount > 0, amount <= balances[u].locked, userLocks[u] # <<>>
  PROVE  LET bals == [balances EXCEPT ![u] = [locked |-> @.locked - amount, nextUnlockIndex |-> next]]
         IN  /\ amount \in Nat
             /\ BalancesMatch(bals)
             /\ SupplyMatches(lockedSupply - amount, bals)
             /\ lockedSupply - amount \in Nat
<1> DEFINE locks == userLocks[u]
           len == Len(locks)
           first == balances[u].nextUnlockIndex
           bals == [balances EXCEPT ![u] = [locked |-> @.locked - amount, nextUnlockIndex |-> next]]
<1>1. /\ LocksOK /\ AdminOK /\ BalancesMatch(balances) /\ SupplyMatches(lockedSupply, balances)
      /\ locks \in Seq(LockedBalance)
      /\ balances \in [Accounts -> Balances]
      /\ now \in Nat /\ RewardsDuration \in Nat
  BY TimeAssumption, RewardsDurationAssumption DEF IInv, LocksOK, BalancesMatch, SupplyOK, AdminOK
<1>2. /\ balances[u].locked \in Nat /\ first \in 0..len /\ len \in Nat /\ len \in 1..len
      /\ balances[u].locked = LockSum(locks, first, len)
  <2>1. /\ balances[u] \in Balances /\ first <= len
        /\ balances[u].locked = LockSum(locks, first, len)
    BY <1>1 DEF BalancesMatch
  <2>2. len \in Nat /\ len # 0
    BY <1>1, EmptySeq
  <2> QED BY <2>1, <2>2 DEF Balances
<1>3. expiry <= now + RewardsDuration
  BY <1>1
<1>4. ~bundled => /\ next \in first..len
                  /\ \A i \in (first + 1)..next : locks[i].unlockTime <= expiry
  BY <1>1, LastExpiredRun
<1>5. next \in 0..len /\ amount \in Nat /\ balances[u].locked - amount = LockSum(locks, next, len)
  <2>1. CASE bundled
    <3>1. locks \in Seq(LockedBalance) /\ len \in 0..len
      BY <1>1, <1>2
    <3>2. LockSum(locks, len, len) = 0
      <4> HIDE DEF locks, len
      <4> QED BY <3>1, LockSumSplit DEF len
    <3> QED BY <2>1, <3>2, <1>2
  <2>2. CASE ~bundled
    <3>1. next \in 0..len
      BY <2>2, <1>2, <1>4
    <3>2. locks \in Seq(LockedBalance) /\ first \in 0..len /\ len \in 0..len
      BY <1>1, <1>2
    <3>3. /\ LockSum(locks, first, next) + LockSum(locks, next, len) = LockSum(locks, first, len)
          /\ LockSum(locks, first, next) \in Int /\ LockSum(locks, next, len) \in Int
      <4> HIDE DEF locks, len, first
      <4>1. LockSum(locks, next, len) \in Int
        BY <3>1, <3>2, LockSumSplit DEF len
      <4> QED BY <4>1, <3>1, <3>2, LockSumSplit DEF len
    <3> QED BY <2>2, <3>1, <3>3, <1>2
  <2> QED BY <2>1, <2>2
<1>6. next = len /\ ~isShutdown => locks[len].unlockTime <= now + RewardsDuration
  <2> SUFFICES ASSUME next = len, ~isShutdown PROVE locks[len].unlockTime <= now + RewardsDuration
    OBVIOUS
  <2>1. locks[len].unlockTime <= expiry
    <3>1. CASE bundled
      BY <3>1
    <3>2. CASE ~bundled
      <4>1. first # next
        <5>1. locks \in Seq(LockedBalance) /\ first \in 0..len
          BY <1>1, <1>2
        <5>2. LockSum(locks, first, first) = 0
          <6> HIDE DEF locks, len, first
          <6> QED BY <5>1, LockSumSplit DEF len
        <5> QED BY <5>2, <3>2
      <4>2. len \in (first + 1)..next
        BY <4>1, <3>2, <1>2, <1>4
      <4> QED BY <4>2, <3>2, <1>4
    <3> QED BY <3>1, <3>2
  <2>2. locks[len].unlockTime \in Nat
    <3>1. locks[len] \in LockedBalance
      BY <1>1, <1>2
    <3> QED BY <3>1, WeekIsNat DEF LockedBalance
  <2> QED BY <2>1, <2>2, <1>1, <1>3
<1>7. /\ bals \in [Accounts -> Balances]
      /\ bals[u].locked = balances[u].locked - amount
      /\ bals[u].nextUnlockIndex = next
      /\ \A a \in Accounts : a # u => bals[a] = balances[a]
  BY <1>1, <1>2, <1>5 DEF Balances
<1> HIDE DEF bals
<1>8. BalancesMatch(bals)
  <2>1. ASSUME NEW a \in Accounts
        PROVE  /\ bals[a].nextUnlockIndex <= Len(userLocks[a])
               /\ bals[a].locked = LockSum(userLocks[a], bals[a].nextUnlockIndex, Len(userLocks[a]))
               /\ bals[a].nextUnlockIndex = Len(userLocks[a]) /\ userLocks[a] # <<>> /\ ~isShutdown
                    => userLocks[a][Len(userLocks[a])].unlockTime <= now + RewardsDuration
    <3>1. CASE a = u
      BY <3>1, <1>2, <1>5, <1>6, <1>7
    <3>2. CASE a # u
      BY <3>2, <1>1, <1>7 DEF BalancesMatch
    <3> QED BY <3>1, <3>2
  <2> QED BY <2>1, <1>7 DEF BalancesMatch
<1>9. lockedSupply \in Nat /\ balances[u].locked <= lockedSupply
  BY <1>1, SupplyType
<1>10. SupplyMatches(lockedSupply - amount, bals)
  <2>1. SupplyMatches(lockedSupply + bals[u].locked - balances[u].locked, bals)
    BY <1>1, <1>7, SupplyUpdate
  <2>2. lockedSupply + bals[u].locked - balances[u].locked = lockedSupply - amount
    BY <1>2, <1>5, <1>7, <1>9
  <2> QED BY <2>1, <2>2
<1> QED BY <1>2, <1>5, <1>8, <1>9, <1>10 DEF bals


\* Withdrawing, relocking and kicking keep the invariant.
LEMMA ProcessLocksKeeps ==
  ASSUME IInv, NEW u \in Accounts, NEW relock \in BOOLEAN, NEW rewardAddress \in Accounts,
         NEW delay \in Nat, relock => delay = 0,
         ProcessLocks(u, relock, rewardAddress, delay)
  PROVE  IInv'
<1> DEFINE locks    == userLocks[u]
           len      == Len(locks)
           first    == balances[u].nextUnlockIndex
           expiry   == IF delay = 0 /\ relock THEN now + RewardsDuration ELSE now - delay
           bundled  == isShutdown \/ locks[len].unlockTime <= expiry
           next     == IF bundled THEN len ELSE LastExpired(u, expiry)
           amount   == IF bundled THEN balances[u].locked ELSE LockSum(locks, first, next)
           reward   == IF delay = 0 THEN 0
                       ELSE IF bundled THEN KickReward(amount, locks[len].unlockTime, delay)
                       ELSE KickRewards(locks, first, next, delay)
           bals     == [balances EXCEPT ![u] = [locked |-> @.locked - amount, nextUnlockIndex |-> next]]
           d        == delegates[u]
           ckpts    == IF d = NoOne THEN checkpointedVotes
                       ELSE [checkpointedVotes EXCEPT
                               ![d] = CheckpointDelegate(@, delegateeUnlocks[d], 0, 0)]
           returned == IF relock THEN 0 ELSE amount - reward
<1>1. /\ UpdateReward(u)
      /\ delay <= now
      /\ len > 0
      /\ bundled /\ delay > 0 => locks[len].unlockTime <= WeekStart(now - delay)
      /\ amount > 0
      /\ amount <= balances[u].locked /\ amount <= lockedSupply
      /\ d # NoOne => CanCheckpoint(checkpointedVotes[d], delegateeUnlocks[d], 0, 0)
      /\ reward <= amount
      /\ reward + returned <= held[StakingToken]
      /\ held' = [held EXCEPT ![StakingToken] = @ - reward - returned]
      /\ wallet' = [a \in Accounts |-> wallet[a] + (IF a = rewardAddress THEN reward ELSE 0)
                                                + (IF a = u THEN returned ELSE 0)]
      /\ UNCHANGED <<now, delegates, rewardTokens, queuedRewards, rewardDistributors, adminVars,
                     treasury, received>>
  BY DEF ProcessLocks
<1>2. \/ /\ relock
         /\ LockTokens(rewardAddress, u, amount, bals, lockedSupply - amount, ckpts)
      \/ /\ ~relock
         /\ balances' = bals
         /\ lockedSupply' = lockedSupply - amount
         /\ checkpointedVotes' = ckpts
         /\ UNCHANGED <<epochs, userLocks, delegateeUnlocks>>
  BY DEF ProcessLocks
<1>3. /\ now \in Nat /\ now \in StartTime..MaxTime /\ delay \in 0..now
      /\ RewardsDuration \in Nat /\ AdminOK /\ LocksOK /\ VotesOK /\ TokensOK /\ EpochsOK
      /\ locks \in Seq(LockedBalance) /\ locks # <<>>
      /\ held \in [AllTokens -> Nat] /\ StakingToken \in AllTokens
      /\ now' = now /\ isShutdown' = isShutdown /\ UpcomingEpoch' = UpcomingEpoch
  BY <1>1, TimeAssumption, RewardsDurationAssumption
     DEF IInv, AdminOK, LocksOK, BalancesMatch, TokensOK, AllTokens, adminVars, UpcomingEpoch, WeekStart
<1>4. expiry \in Int
  BY <1>3
<1> HIDE DEF expiry
<1>5. /\ amount \in Nat
      /\ BalancesMatch(bals)
      /\ SupplyMatches(lockedSupply - amount, bals)
      /\ lockedSupply - amount \in Nat
  <2>1. /\ delay = 0 /\ relock => expiry = now + RewardsDuration
        /\ ~(delay = 0 /\ relock) => expiry = now - delay
    BY DEF expiry
  <2>2. amount > 0 /\ amount <= balances[u].locked
    BY <1>1
  <2> HIDE DEF bundled, next, amount, bals
  <2> QED BY <1>3, <1>4, <2>1, <2>2, ProcessedRun DEF bundled, next, amount, bals
<1>6. reward \in Nat
  <2>1. CASE delay = 0
    BY <2>1
  <2>2. CASE delay # 0 /\ bundled
    <3>1. len \in 1..len
      BY <1>1, <1>3
    <3>2. locks[len] \in LockedBalance
      BY <1>3, <3>1
    <3>3. locks[len].unlockTime \in Weeks
      BY <3>2 DEF LockedBalance
    <3>4. locks[len].unlockTime <= WeekStart(now - delay)
      BY <1>1, <1>3, <2>2
    <3>5. KickReward(amount, locks[len].unlockTime, delay) \in Nat
      <4> HIDE DEF amount
      <4> QED BY <1>3, <1>5, <3>3, <3>4, KickRewardType
    <3> QED BY <2>2, <3>5
  <2>3. CASE delay # 0 /\ ~bundled
    <3>1. next = LastExpired(u, expiry)
      BY <2>3
    <3>2. expiry = now - delay
      BY <2>3 DEF expiry
    <3>3. /\ first \in 0..len /\ next \in first..len
          /\ \A i \in (first + 1)..next : locks[i].unlockTime <= now - delay
      <4>1. /\ first \in Nat
            /\ LastExpired(u, expiry) \in first..len
            /\ \A i \in (first + 1)..LastExpired(u, expiry) : locks[i].unlockTime <= expiry
        BY <1>3, LastExpiredRun
      <4> QED BY <4>1, <3>1, <3>2, <1>3
    <3>4. KickRewards(locks, first, next, delay) \in Nat
      <4> HIDE DEF locks, first, next
      <4> QED BY <1>3, <3>3, KickRewardsType
    <3> QED BY <2>3, <3>4
  <2> QED BY <2>1, <2>2, <2>3
<1>7. returned \in Nat /\ (relock => reward = 0 /\ returned = 0)
                       /\ (~relock => reward + returned = amount)
  <2>1. amount \in Nat /\ reward \in Nat /\ reward <= amount /\ reward + returned <= held[StakingToken]
    BY <1>1, <1>5, <1>6
  <2>2. relock => reward = 0
    BY <1>1, <1>6
  <2>3. (relock => returned = 0) /\ (~relock => returned = amount - reward)
    OBVIOUS
  <2> HIDE DEF amount, reward, returned
  <2> QED BY <2>1, <2>2, <2>3
<1>8. CheckpointsOK(ckpts)
  <2>1. CASE d = NoOne
    BY <2>1, <1>3 DEF VotesOK
  <2>2. CASE d # NoOne
    <3>1. d \in Delegatees /\ delegateeUnlocks[d] \in [Weeks -> Nat] /\ CheckpointsOK(checkpointedVotes)
      BY <2>2, <1>3 DEF VotesOK
    <3>2. CanCheckpoint(checkpointedVotes[d], delegateeUnlocks[d], 0, 0)
      BY <2>2, <1>1
    <3>3. CheckpointsOK([checkpointedVotes EXCEPT
                           ![d] = CheckpointDelegate(@, delegateeUnlocks[d], 0, 0)])
      BY <3>1, <3>2, <1>3, CheckpointKeeps
    <3> QED BY <2>2, <3>3
  <2> QED BY <2>1, <2>2
<1>9. AdminOK'
  BY <1>1, <1>3 DEF AdminOK, adminVars
<1>10. TokensOK'
  <2>1. held[StakingToken] - reward - returned \in Nat
    <3>1. reward + returned <= held[StakingToken] /\ held[StakingToken] \in Nat
      BY <1>1, <1>3
    <3>2. reward \in Nat /\ returned \in Nat
      BY <1>6, <1>7
    <3> HIDE DEF reward, returned
    <3> QED BY ONLY <3>1, <3>2
  <2>2. held' \in [AllTokens -> Nat]
    <3> HIDE DEF reward, returned
    <3> QED BY <1>1, <1>3, <2>1
  <2>3. wallet' \in [Accounts -> Nat]
    <3>1. ASSUME NEW a \in Accounts
          PROVE  wallet[a] + (IF a = rewardAddress THEN reward ELSE 0) + (IF a = u THEN returned ELSE 0) \in Nat
      <4>1. wallet[a] \in Nat
        BY <1>3 DEF TokensOK
      <4> HIDE DEF reward, returned
      <4> QED BY <4>1, <1>6, <1>7
    <3> HIDE DEF reward, returned
    <3> QED BY <3>1, <1>1
  <2> QED BY <2>2, <2>3, <1>1, <1>3 DEF TokensOK
<1>11. RewardsOK'
  BY <1>1, <1>3, SupplyIsNat, UpdateRewardKeeps
<1> HIDE DEF bals, ckpts, d
<1>12. LocksOK' /\ SupplyMatches(lockedSupply, balances)'
  <2>1. CASE relock
    <3>1. LockTokens(rewardAddress, u, amount, bals, lockedSupply - amount, ckpts)
      BY <2>1, <1>2
    <3>2. now' = now /\ isShutdown' = isShutdown
      BY <1>3
    <3> HIDE DEF amount
    <3> QED BY <3>1, <3>2, <1>5, LockTokensKeeps
  <2>2. CASE ~relock
    <3>1. balances' = bals /\ lockedSupply' = lockedSupply - amount /\ userLocks' = userLocks
      BY <2>2, <1>2
    <3> HIDE DEF amount
    <3> QED BY <3>1, <1>3, <1>5 DEF LocksOK, BalancesMatch, SupplyMatches
  <2> QED BY <2>1, <2>2
<1>13. lockedSupply' <= held'[StakingToken]
  <2>1. held'[StakingToken] = held[StakingToken] - reward - returned
    <3> HIDE DEF reward, returned
    <3> QED BY <1>1, <1>3
  <2>2. held[StakingToken] \in Nat /\ lockedSupply <= held[StakingToken] /\ lockedSupply \in Nat
    BY <1>3, SupplyIsNat DEF IInv, SupplyOK
  <2>3. CASE relock
    <3>1. LockTokens(rewardAddress, u, amount, bals, lockedSupply - amount, ckpts)
      BY <2>3, <1>2
    <3>2. lockedSupply' = lockedSupply - amount + amount
      BY <3>1 DEF LockTokens
    <3>3. reward = 0 /\ returned = 0
      BY <2>3, <1>7
    <3> HIDE DEF reward, returned, amount
    <3> QED BY <3>2, <3>3, <2>1, <2>2, <1>5
  <2>4. CASE ~relock
    <3>1. lockedSupply' = lockedSupply - amount /\ reward + returned = amount
      BY <2>4, <1>2, <1>7
    <3> HIDE DEF reward, returned, amount
    <3> QED BY <3>1, <2>1, <2>2, <1>5, <1>6, <1>7
  <2> QED BY <2>3, <2>4
<1>14. EpochsOK'
  <2>1. CASE relock
    <3>1. epochs' = WithEpochSupply(amount)
      BY <2>1, <1>2 DEF LockTokens
    <3> HIDE DEF amount
    <3> QED BY <3>1, <1>3, <1>5, WithEpochSupplyType DEF EpochsOK
  <2>2. CASE ~relock
    BY <2>2, <1>2, <1>3 DEF EpochsOK
  <2> QED BY <2>1, <2>2
<1>15. VotesOK'
  <2>1. CASE relock
    <3>1. LockTokens(rewardAddress, u, amount, bals, lockedSupply - amount, ckpts)
      BY <2>1, <1>2
    <3>2. now' = now /\ delegates' = delegates
      BY <1>1
    <3> HIDE DEF amount
    <3> QED BY <3>1, <3>2, <1>3, <1>5, <1>8, LockTokensVotes
  <2>2. CASE ~relock
    <3>1. checkpointedVotes' = ckpts /\ delegateeUnlocks' = delegateeUnlocks /\ delegates' = delegates
      BY <2>2, <1>1, <1>2
    <3> QED BY <3>1, <1>3, <1>8 DEF VotesOK, CheckpointsOK
  <2> QED BY <2>1, <2>2
<1> QED BY <1>9, <1>10, <1>11, <1>12, <1>13, <1>14, <1>15 DEF IInv, SupplyOK, SupplyMatches


----------------------------------------------------------------------------------
(* Locking, withdrawing after a shutdown, delegating *)

\* A lock keeps the invariant.
LEMMA LockKeeps ==
  ASSUME IInv, NEW sender \in Accounts, NEW u \in Accounts, NEW amount \in Nat,
         Lock(sender, u, amount)
  PROVE  IInv'
<1>1. /\ amount <= wallet[sender]
      /\ UpdateReward(u)
      /\ LockTokens(sender, u, amount, balances, lockedSupply, checkpointedVotes)
      /\ wallet' = [wallet EXCEPT ![sender] = @ - amount]
      /\ held' = [held EXCEPT ![StakingToken] = @ + amount]
      /\ UNCHANGED <<now, delegates, rewardTokens, queuedRewards, rewardDistributors, adminVars,
                     treasury, received>>
  BY DEF Lock
<1>2. /\ now \in StartTime..MaxTime /\ AdminOK /\ LocksOK /\ VotesOK /\ TokensOK /\ EpochsOK
      /\ BalancesMatch(balances) /\ SupplyMatches(lockedSupply, balances)
      /\ CheckpointsOK(checkpointedVotes)
      /\ held \in [AllTokens -> Nat] /\ StakingToken \in AllTokens
      /\ lockedSupply \in Nat /\ lockedSupply <= held[StakingToken]
      /\ now' = now /\ isShutdown' = isShutdown /\ delegates' = delegates
  BY <1>1, SupplyIsNat DEF IInv, AdminOK, LocksOK, VotesOK, SupplyOK, TokensOK, AllTokens, adminVars
<1>3. AdminOK'
  BY <1>1, <1>2 DEF AdminOK, adminVars
<1>4. EpochsOK'
  <2>1. epochs' = WithEpochSupply(amount)
    BY <1>1 DEF LockTokens
  <2> QED BY <2>1, <1>2, WithEpochSupplyType DEF EpochsOK
<1>5. LocksOK' /\ SupplyMatches(lockedSupply, balances)' /\ lockedSupply' = lockedSupply + amount
  BY <1>1, <1>2, LockTokensKeeps
<1>6. VotesOK'
  BY <1>1, <1>2, LockTokensVotes
<1>7. RewardsOK'
  BY <1>1, <1>2, UpdateRewardKeeps
<1>8. held'[StakingToken] = held[StakingToken] + amount
  BY <1>1, <1>2
<1>9. TokensOK'
  <2>1. wallet \in [Accounts -> Nat]
    BY <1>2 DEF TokensOK
  <2>2. wallet' \in [Accounts -> Nat] /\ held' \in [AllTokens -> Nat]
    BY <1>1, <1>2, <2>1
  <2> QED BY <2>2, <1>1, <1>2 DEF TokensOK
<1>10. lockedSupply' <= held'[StakingToken]
  BY <1>2, <1>5, <1>8
<1> QED BY <1>3, <1>4, <1>5, <1>6, <1>7, <1>9, <1>10 DEF IInv, SupplyOK, SupplyMatches

\* An emergency withdrawal does.
LEMMA EmergencyWithdrawKeeps ==
  ASSUME IInv, NEW u \in Accounts, EmergencyWithdraw(u)
  PROVE  IInv'
<1> DEFINE amount == balances[u].locked
           len == Len(userLocks[u])
           bals == [balances EXCEPT ![u] = [locked |-> 0, nextUnlockIndex |-> len]]
<1>1. /\ isShutdown
      /\ amount <= lockedSupply /\ amount <= held[StakingToken]
      /\ balances' = bals
      /\ lockedSupply' = lockedSupply - amount
      /\ held' = [held EXCEPT ![StakingToken] = @ - amount]
      /\ wallet' = [wallet EXCEPT ![u] = @ + amount]
      /\ UNCHANGED <<now, epochs, userLocks, voteVars, rewardVars, adminVars, treasury, received>>
  BY DEF EmergencyWithdraw
<1>2. /\ AdminOK /\ LocksOK /\ VotesOK /\ TokensOK /\ EpochsOK /\ RewardsOK
      /\ SupplyMatches(lockedSupply, balances)
      /\ balances \in [Accounts -> Balances] /\ userLocks[u] \in Seq(LockedBalance)
      /\ held \in [AllTokens -> Nat] /\ StakingToken \in AllTokens
      /\ wallet \in [Accounts -> Nat]
      /\ lockedSupply \in Nat /\ lockedSupply <= held[StakingToken] /\ amount \in Nat
  BY SupplyIsNat
     DEF IInv, LocksOK, BalancesMatch, SupplyOK, TokensOK, AllTokens, Balances
<1>3. /\ bals \in [Accounts -> Balances]
      /\ bals[u].locked = 0 /\ bals[u].nextUnlockIndex = len
      /\ \A a \in Accounts : a # u => bals[a] = balances[a]
  BY <1>2 DEF Balances
<1>4. LockSum(userLocks[u], len, len) = 0
  <2>1. len \in 0..len
    BY <1>2
  <2> QED BY <2>1, <1>2, LockSumSplit
<1> HIDE DEF bals
<1>5. LocksOK'
  <2>1. ASSUME NEW a \in Accounts
        PROVE  /\ bals[a].nextUnlockIndex <= Len(userLocks[a])
               /\ bals[a].locked = LockSum(userLocks[a], bals[a].nextUnlockIndex, Len(userLocks[a]))
    <3>1. CASE a = u
      BY <3>1, <1>2, <1>3, <1>4
    <3>2. CASE a # u
      BY <3>2, <1>2, <1>3 DEF LocksOK, BalancesMatch
    <3> QED BY <3>1, <3>2
  <2> QED BY <2>1, <1>1, <1>2, <1>3 DEF LocksOK, BalancesMatch, adminVars
<1>6. SupplyMatches(lockedSupply', balances')
  <2>1. SupplyMatches(lockedSupply + bals[u].locked - balances[u].locked, bals)
    BY <1>2, <1>3, SupplyUpdate
  <2>2. lockedSupply + bals[u].locked - balances[u].locked = lockedSupply - amount
    BY <1>2, <1>3
  <2> QED BY <2>1, <2>2, <1>1
<1>7. TokensOK' /\ lockedSupply' <= held'[StakingToken]
  <2> HIDE DEF amount
  <2>1. wallet' \in [Accounts -> Nat] /\ held' \in [AllTokens -> Nat]
    BY <1>1, <1>2
  <2>2. held'[StakingToken] = held[StakingToken] - amount
    BY <1>1, <1>2
  <2> QED BY <2>1, <2>2, <1>1, <1>2 DEF TokensOK
<1>8. AdminOK' /\ EpochsOK'
  BY <1>1, <1>2 DEF AdminOK, EpochsOK, adminVars
<1>9. VotesOK' /\ RewardsOK'
  BY <1>1, <1>2 DEF VotesOK, CheckpointsOK, RewardsOK, voteVars, rewardVars, UpcomingEpoch, WeekStart
<1> QED BY <1>5, <1>6, <1>7, <1>8, <1>9 DEF IInv, SupplyOK, SupplyMatches

\* The locks that a delegation moves are some of the newest ones.
LEMMA MovedType ==
  ASSUME NEW locks \in Seq(LockedBalance)
  PROVE  /\ FirstMoved(locks) \in 1..(Len(locks) + 1)
         /\ LockSum(locks, FirstMoved(locks) - 1, Len(locks)) \in Nat
         /\ \A w \in Weeks : MovedAt(locks, w) \in Nat
<1> DEFINE n == Len(locks)
           T == {i \in 1..(n + 1) : \A k \in i..n : locks[k].unlockTime > UpcomingEpoch}
<1>1. n \in Nat
  OBVIOUS
<1>2. FirstMoved(locks) = Min(T)
  BY DEF FirstMoved
<1> HIDE DEF n
<1>3. T \in SUBSET (0..(n + 1)) /\ n + 1 \in T /\ n + 1 \in Nat
  BY <1>1
<1>4. \E i \in T : \A k \in T : i <= k
  BY <1>3, LeastElement
<1>5. T \in SUBSET (1..(n + 1))
  OBVIOUS
<1> HIDE DEF T
<1>6. FirstMoved(locks) \in 1..(n + 1)
  <2>1. Min(T) \in T
    BY <1>4, <1>5 DEF Min
  <2> QED BY <2>1, <1>2, <1>5
<1>7. LockSum(locks, FirstMoved(locks) - 1, n) \in Nat
  <2>1. FirstMoved(locks) - 1 \in 0..n
    BY <1>1, <1>6
  <2> QED BY <2>1, LockSumSplit DEF n
<1>8. ASSUME NEW w \in Weeks PROVE MovedAt(locks, w) \in Nat
  <2> DEFINE atWeek == [i \in 1..n |->
                          IF i >= FirstMoved(locks) /\ locks[i].unlockTime = w THEN locks[i]
                          ELSE [amount |-> 0, unlockTime |-> w]]
  <2>1. MovedAt(locks, w) = LockSum(atWeek, 0, n)
    BY DEF MovedAt, n
  <2>2. ASSUME NEW i \in 1..n PROVE atWeek[i] \in LockedBalance
    <3>1. locks[i] \in LockedBalance
      BY DEF n
    <3>2. [amount |-> 0, unlockTime |-> w] \in LockedBalance
      BY DEF LockedBalance
    <3> QED BY <3>1, <3>2
  <2>3. atWeek \in Seq(LockedBalance) /\ Len(atWeek) = n
    BY <1>1, <2>2
  <2> HIDE DEF atWeek
  <2>4. 0 \in 0..n
    BY <1>1
  <2>5. LockSum(atWeek, 0, Len(atWeek)) \in Nat
    BY <2>3, <2>4, LockSumSplit
  <2> QED BY <2>1, <2>3, <2>5
<1> QED BY <1>6, <1>7, <1>8 DEF n

\* A delegation keeps the invariant: only the votes move.
LEMMA DelegateKeeps ==
  ASSUME IInv, NEW u \in Accounts, NEW newDelegatee \in Delegatees, Delegate(u, newDelegatee)
  PROVE  IInv'
<1> DEFINE locks   == userLocks[u]
           old     == delegates[u]
           moved   == LockSum(locks, FirstMoved(locks) - 1, Len(locks))
           unlocks == [d \in Delegatees |-> [w \in Weeks |->
                         delegateeUnlocks[d][w] + (CASE d = newDelegatee -> MovedAt(locks, w)
                                                     [] d = old -> - MovedAt(locks, w)
                                                     [] OTHER -> 0)]]
           given   == IF old = NoOne THEN checkpointedVotes
                      ELSE [checkpointedVotes EXCEPT
                              ![old] = CheckpointDelegate(@, unlocks[old], 0, moved)]
<1>1. /\ newDelegatee # old
      /\ old # NoOne => /\ \A w \in Weeks : unlocks[old][w] >= 0
                        /\ CanCheckpoint(checkpointedVotes[old], unlocks[old], 0, moved)
      /\ CanCheckpoint(checkpointedVotes[newDelegatee], unlocks[newDelegatee], moved, 0)
      /\ delegates' = [delegates EXCEPT ![u] = newDelegatee]
      /\ delegateeUnlocks' = unlocks
      /\ checkpointedVotes' =
           [given EXCEPT ![newDelegatee] = CheckpointDelegate(@, unlocks[newDelegatee], moved, 0)]
      /\ UNCHANGED <<now, lockVars, rewardVars, adminVars, tokenVars>>
  BY DEF Delegate
<1>2. /\ delegates \in [Accounts -> Delegatees \cup {NoOne}]
      /\ CheckpointsOK(checkpointedVotes)
      /\ delegateeUnlocks \in [Delegatees -> [Weeks -> Nat]]
      /\ now \in StartTime..MaxTime
      /\ locks \in Seq(LockedBalance)
      /\ old \in Delegatees \cup {NoOne}
  BY DEF IInv, VotesOK, AdminOK, LocksOK
<1>3. moved \in Nat /\ \A w \in Weeks : MovedAt(locks, w) \in Nat
  BY <1>2, MovedType
<1>4. unlocks \in [Delegatees -> [Weeks -> Nat]]
  <2>1. ASSUME NEW d \in Delegatees, NEW w \in Weeks PROVE unlocks[d][w] \in Nat
    <3>1. delegateeUnlocks[d][w] \in Nat /\ MovedAt(locks, w) \in Nat
      BY <1>2, <1>3
    <3>2. CASE d = newDelegatee
      <4>1. unlocks[d][w] = delegateeUnlocks[d][w] + MovedAt(locks, w)
        BY <3>2, <1>1
      <4> HIDE DEF unlocks
      <4> QED BY <4>1, <3>1
    <3>3. CASE d # newDelegatee /\ d = old
      <4>1. old # NoOne
        BY <3>3, AccountsAssumption
      <4>2. unlocks[d][w] >= 0
        BY <4>1, <3>3, <1>1
      <4>3. unlocks[d][w] \in Int
        BY <3>1, <3>3
      <4> QED BY <4>2, <4>3
    <3>4. CASE d # newDelegatee /\ d # old
      BY <3>1, <3>4
    <3> QED BY <3>2, <3>3, <3>4
  <2> QED BY <2>1
<1> HIDE DEF unlocks, moved
<1>5. CheckpointsOK(given)
  <2>1. CASE old = NoOne
    BY <2>1, <1>2
  <2>2. CASE old # NoOne
    <3>1. old \in Delegatees /\ unlocks[old] \in [Weeks -> Nat]
      BY <2>2, <1>2, <1>4
    <3>2. CanCheckpoint(checkpointedVotes[old], unlocks[old], 0, moved)
      BY <2>2, <1>1
    <3>3. CheckpointsOK([checkpointedVotes EXCEPT
                           ![old] = CheckpointDelegate(@, unlocks[old], 0, moved)])
      BY <3>1, <3>2, <1>2, <1>3, CheckpointKeeps
    <3> QED BY <2>2, <3>3
  <2> QED BY <2>1, <2>2
<1>6. given[newDelegatee] = checkpointedVotes[newDelegatee]
  BY <1>1, <1>2 DEF CheckpointsOK
<1> HIDE DEF given
<1>7. CheckpointsOK(checkpointedVotes')
  <2>1. CanCheckpoint(given[newDelegatee], unlocks[newDelegatee], moved, 0)
    BY <1>1, <1>6
  <2>2. unlocks[newDelegatee] \in [Weeks -> Nat]
    BY <1>4
  <2>3. CheckpointsOK([given EXCEPT
                         ![newDelegatee] = CheckpointDelegate(@, unlocks[newDelegatee], moved, 0)])
    BY <2>1, <2>2, <1>2, <1>3, <1>5, CheckpointKeeps
  <2> QED BY <2>3, <1>1
<1>8. VotesOK'
  BY <1>1, <1>2, <1>4, <1>7 DEF VotesOK, CheckpointsOK, UpcomingEpoch, WeekStart
<1>9. AdminOK' /\ EpochsOK' /\ LocksOK' /\ SupplyOK'
  BY <1>1 DEF IInv, AdminOK, EpochsOK, LocksOK, SupplyOK, BalancesMatch, SupplyMatches,
              lockVars, adminVars, tokenVars
<1>10. RewardsOK' /\ TokensOK'
  BY <1>1 DEF IInv, RewardsOK, TokensOK, rewardVars, tokenVars
<1> QED BY <1>8, <1>9, <1>10 DEF IInv


----------------------------------------------------------------------------------
(* Rewards and the owner *)

\* A claim keeps the invariant.
LEMMA ClaimRewardsKeeps ==
  ASSUME IInv, NEW u \in Accounts, NEW claimed \in SUBSET Tokens, NEW olitTo,
         ClaimRewards(u, claimed, olitTo)
  PROVE  IInv'
<1> DEFINE reward(t) == IF t \in claimed THEN SettledRewards(u)[t].rewards ELSE 0
           payee(t)  == IF t = Olit THEN olitTo ELSE u
           paid      == [t \in Tokens |-> IF t \in claimed
                                          THEN [SettledRewards(u)[t] EXCEPT !.rewards = 0]
                                          ELSE SettledRewards(u)[t]]
<1>1. /\ \A t \in claimed : reward(t) <= held[t]
      /\ rewardData' = RefreshedRewards
      /\ userData' = [userData EXCEPT ![u] = paid]
      /\ held' = [t \in AllTokens |-> held[t] - (IF t \in claimed THEN reward(t) ELSE 0)]
      /\ received' = [a \in Accounts |-> [t \in Tokens |->
                        received[a][t] + (IF a = payee(t) THEN reward(t) ELSE 0)]]
      /\ UNCHANGED <<now, lockVars, voteVars, rewardTokens, queuedRewards, rewardDistributors,
                     adminVars, wallet, treasury>>
  BY DEF ClaimRewards
<1>2. /\ now \in Nat /\ lockedSupply \in Nat /\ balances \in [Accounts -> Balances] /\ RewardsOK
      /\ userData \in [Accounts -> [Tokens -> UserDataType]]
      /\ held \in [AllTokens -> Nat] /\ received \in [Accounts -> [Tokens -> Nat]]
      /\ StakingToken \in AllTokens /\ StakingToken \notin Tokens /\ Tokens \subseteq AllTokens
  BY SupplyIsNat, TimeAssumption, TokenAssumption
     DEF IInv, AdminOK, LocksOK, BalancesMatch, RewardsOK, TokensOK, AllTokens
<1>3. ASSUME NEW t \in Tokens
      PROVE  /\ SettledRewards(u)[t] \in UserDataType
             /\ SettledRewards(u)[t].rewardPerTokenPaid <= RefreshedRewards[t].rewardPerTokenStored
             /\ RefreshedRewards[t].lastUpdateTime <= now
             /\ RefreshedRewards[t].lastUpdateTime <= RefreshedRewards[t].periodFinish
             /\ RefreshedRewards[t] \in RewardDataType
             /\ rewardData[t].rewardPerTokenStored <= RefreshedRewards[t].rewardPerTokenStored
             /\ rewardData[t] \in RewardDataType
  BY <1>2, UpdateType DEF RewardsOK
<1>4. RefreshedRewards \in [Tokens -> RewardDataType]
  BY <1>2, UpdateType
<1>5. ASSUME NEW t \in Tokens
      PROVE  /\ paid[t] \in UserDataType
             /\ paid[t].rewardPerTokenPaid = SettledRewards(u)[t].rewardPerTokenPaid
             /\ reward(t) \in Nat
  <2>1. SettledRewards(u)[t] \in UserDataType
    BY <1>3
  <2> QED BY <2>1 DEF UserDataType
<1>6. paid \in [Tokens -> UserDataType]
  BY <1>5
<1> HIDE DEF paid, reward, payee
<1>7. userData' \in [Accounts -> [Tokens -> UserDataType]]
  BY <1>1, <1>2, <1>6
<1>8. ASSUME NEW a \in Accounts, NEW t \in Tokens
      PROVE  userData'[a][t].rewardPerTokenPaid <= rewardData'[t].rewardPerTokenStored
  <2>1. CASE a = u
    BY <2>1, <1>1, <1>2, <1>3, <1>5
  <2>2. CASE a # u
    <3>1. /\ userData'[a][t] = userData[a][t]
          /\ userData[a][t].rewardPerTokenPaid <= rewardData[t].rewardPerTokenStored
          /\ userData[a][t] \in UserDataType
      BY <2>2, <1>1, <1>2 DEF RewardsOK
    <3>2. /\ userData[a][t].rewardPerTokenPaid \in Nat
          /\ rewardData[t].rewardPerTokenStored \in Nat
          /\ RefreshedRewards[t].rewardPerTokenStored \in Nat
      BY <1>3, <3>1 DEF UserDataType, RewardDataType
    <3> QED BY <3>1, <3>2, <1>1, <1>3
  <2> QED BY <2>1, <2>2
<1>9. RewardsOK'
  BY <1>1, <1>2, <1>3, <1>4, <1>7, <1>8 DEF RewardsOK
<1>10. held' \in [AllTokens -> Nat] /\ held'[StakingToken] = held[StakingToken]
  <2>1. ASSUME NEW t \in AllTokens
        PROVE  held[t] - (IF t \in claimed THEN reward(t) ELSE 0) \in Nat
    <3>1. CASE t \in claimed
      BY <3>1, <1>1, <1>2, <1>5
    <3>2. CASE t \notin claimed
      BY <3>2, <1>2
    <3> QED BY <3>1, <3>2
  <2>2. StakingToken \notin claimed
    BY <1>2
  <2> QED BY <2>1, <2>2, <1>1, <1>2
<1>11. received' \in [Accounts -> [Tokens -> Nat]]
  <2>1. ASSUME NEW a \in Accounts, NEW t \in Tokens
        PROVE  received[a][t] + (IF a = payee(t) THEN reward(t) ELSE 0) \in Nat
    <3>1. received[a][t] \in Nat /\ reward(t) \in Nat
      BY <1>2, <1>5
    <3> QED BY <3>1
  <2> QED BY <2>1, <1>1
<1>12. TokensOK'
  BY <1>1, <1>10, <1>11 DEF IInv, TokensOK
<1>13. SupplyOK' /\ AdminOK' /\ EpochsOK' /\ LocksOK'
  BY <1>1, <1>10 DEF IInv, SupplyOK, AdminOK, EpochsOK, LocksOK, BalancesMatch, SupplyMatches,
                      lockVars, adminVars
<1>14. VotesOK'
  BY <1>1 DEF IInv, VotesOK, CheckpointsOK, voteVars, UpcomingEpoch, WeekStart
<1> QED BY <1>9, <1>12, <1>13, <1>14 DEF IInv

\* Queueing rewards keeps the invariant.
LEMMA QueueNewRewardsKeeps ==
  ASSUME IInv, NEW distributor, NEW t \in Tokens, NEW amount,
         QueueNewRewards(distributor, t, amount)
  PROVE  IInv'
<1> DEFINE total == amount + queuedRewards[t]
<1>1. /\ amount \in 1..treasury[t]
      /\ \/ /\ NotifyReward(t, total)
            /\ queuedRewards' = [queuedRewards EXCEPT ![t] = 0]
         \/ /\ queuedRewards' = [queuedRewards EXCEPT ![t] = total]
            /\ UNCHANGED rewardData
      /\ treasury' = [treasury EXCEPT ![t] = @ - amount]
      /\ held' = [held EXCEPT ![t] = @ + amount]
      /\ UNCHANGED <<now, lockVars, voteVars, rewardTokens, rewardDistributors, userData, adminVars,
                     wallet, received>>
  BY DEF QueueNewRewards
<1>2. /\ now \in Nat /\ lockedSupply \in Nat /\ balances \in [Accounts -> Balances] /\ RewardsOK
      /\ userData \in [Accounts -> [Tokens -> UserDataType]]
      /\ rewardData \in [Tokens -> RewardDataType] /\ queuedRewards \in [Tokens -> Nat]
      /\ held \in [AllTokens -> Nat] /\ treasury \in [AllTokens -> Nat]
      /\ t \in AllTokens /\ t # StakingToken /\ StakingToken \in AllTokens
  BY SupplyIsNat, TimeAssumption, TokenAssumption
     DEF IInv, AdminOK, LocksOK, BalancesMatch, RewardsOK, TokensOK, AllTokens
<1>3. amount \in Nat /\ amount <= treasury[t] /\ total \in Nat
  BY <1>1, <1>2
<1> HIDE DEF total
<1>4. RewardsOK'
  <2>1. CASE NotifyReward(t, total) /\ queuedRewards' = [queuedRewards EXCEPT ![t] = 0]
    <3> DEFINE started == Notified(RefreshedRewards[t], total, now)
    <3>1. rewardData' = [RefreshedRewards EXCEPT ![t] = started]
      BY <2>1 DEF NotifyReward
    <3>2. /\ RefreshedRewards \in [Tokens -> RewardDataType]
          /\ \A s \in Tokens :
               /\ RefreshedRewards[s].lastUpdateTime <= now
               /\ RefreshedRewards[s].lastUpdateTime <= RefreshedRewards[s].periodFinish
               /\ rewardData[s].rewardPerTokenStored <= RefreshedRewards[s].rewardPerTokenStored
      BY <1>2, RefreshedRewardsType
    <3>3. /\ started \in RewardDataType
          /\ started.lastUpdateTime = now /\ now <= started.periodFinish
          /\ started.rewardPerTokenStored = RefreshedRewards[t].rewardPerTokenStored
      BY <3>2, <1>2, <1>3, NotifiedType
    <3> HIDE DEF started
    <3>4. rewardData' \in [Tokens -> RewardDataType]
      BY <3>1, <3>2, <3>3
    <3>5. ASSUME NEW s \in Tokens
          PROVE  /\ rewardData'[s].lastUpdateTime <= now
                 /\ rewardData'[s].lastUpdateTime <= rewardData'[s].periodFinish
                 /\ rewardData[s].rewardPerTokenStored <= rewardData'[s].rewardPerTokenStored
      BY <3>1, <3>2, <3>3, <1>2
    <3>6. ASSUME NEW s \in Tokens, NEW a \in Accounts
          PROVE  userData[a][s].rewardPerTokenPaid <= rewardData'[s].rewardPerTokenStored
      <4>1. /\ userData[a][s].rewardPerTokenPaid <= rewardData[s].rewardPerTokenStored
            /\ userData[a][s] \in UserDataType /\ rewardData[s] \in RewardDataType
            /\ rewardData'[s] \in RewardDataType
        BY <1>2, <3>4 DEF RewardsOK
      <4>2. /\ userData[a][s].rewardPerTokenPaid \in Nat
            /\ rewardData[s].rewardPerTokenStored \in Nat
            /\ rewardData'[s].rewardPerTokenStored \in Nat
        BY <4>1 DEF UserDataType, RewardDataType
      <4> QED BY <4>1, <4>2, <3>5
    <3>7. queuedRewards' \in [Tokens -> Nat]
      BY <2>1, <1>2
    <3> QED BY <3>4, <3>5, <3>6, <3>7, <1>1, <1>2 DEF RewardsOK
  <2>2. CASE queuedRewards' = [queuedRewards EXCEPT ![t] = total] /\ UNCHANGED rewardData
    BY <2>2, <1>1, <1>2, <1>3 DEF RewardsOK
  <2> QED BY <2>1, <2>2, <1>1 DEF total
<1>5. TokensOK' /\ held'[StakingToken] = held[StakingToken]
  BY <1>1, <1>2, <1>3 DEF IInv, TokensOK
<1>6. SupplyOK' /\ AdminOK' /\ EpochsOK' /\ LocksOK'
  BY <1>1, <1>5 DEF IInv, SupplyOK, AdminOK, EpochsOK, LocksOK, BalancesMatch, SupplyMatches,
                     lockVars, adminVars
<1>7. VotesOK'
  BY <1>1 DEF IInv, VotesOK, CheckpointsOK, voteVars, UpcomingEpoch, WeekStart
<1> QED BY <1>4, <1>5, <1>6, <1>7 DEF IInv


\* What leaves the locks, the votes and the rewards alone keeps their parts.
LEMMA OthersKept ==
  ASSUME IInv
  PROVE  /\ UNCHANGED <<now, isShutdown, lockVars>> => EpochsOK' /\ LocksOK'
         /\ UNCHANGED <<lockedSupply, balances>> /\ held'[StakingToken] >= held[StakingToken]
              /\ held'[StakingToken] \in Nat => SupplyOK'
         /\ UNCHANGED <<now, voteVars>> => VotesOK'
         /\ UNCHANGED <<now, rewardVars>> => RewardsOK'
         /\ UNCHANGED <<now, adminVars>> => AdminOK'
         /\ UNCHANGED tokenVars => TokensOK' /\ held'[StakingToken] \in Nat /\ held' = held
<1>1. ASSUME UNCHANGED <<now, isShutdown, lockVars>> PROVE EpochsOK' /\ LocksOK'
  BY <1>1 DEF IInv, EpochsOK, LocksOK, BalancesMatch, lockVars
<1>2. ASSUME UNCHANGED <<lockedSupply, balances>>, held'[StakingToken] >= held[StakingToken],
             held'[StakingToken] \in Nat
      PROVE  SupplyOK'
  <2>1. held[StakingToken] \in Nat /\ lockedSupply \in Nat /\ lockedSupply <= held[StakingToken]
    BY SupplyIsNat DEF IInv, SupplyOK, TokensOK, AllTokens
  <2>2. lockedSupply' <= held'[StakingToken]
    BY <1>2, <2>1
  <2> QED BY <1>2, <2>2 DEF IInv, SupplyOK, SupplyMatches
<1>3. ASSUME UNCHANGED <<now, voteVars>> PROVE VotesOK'
  BY <1>3 DEF IInv, VotesOK, CheckpointsOK, voteVars, UpcomingEpoch, WeekStart
<1>4. ASSUME UNCHANGED <<now, rewardVars>> PROVE RewardsOK'
  BY <1>4 DEF IInv, RewardsOK, rewardVars
<1>5. ASSUME UNCHANGED <<now, adminVars>> PROVE AdminOK'
  BY <1>5 DEF IInv, AdminOK, adminVars
<1>6. ASSUME UNCHANGED tokenVars PROVE TokensOK' /\ held'[StakingToken] \in Nat /\ held' = held
  <2>1. held[StakingToken] \in Nat
    BY DEF IInv, TokensOK, AllTokens
  <2> QED BY <2>1, <1>6 DEF IInv, TokensOK, tokenVars
<1> QED BY <1>1, <1>2, <1>3, <1>4, <1>5, <1>6

\* The clock only moves forward: what lies in the past stays there.
LEMMA TickKeeps ==
  ASSUME IInv, Tick
  PROVE  IInv'
<1>1. /\ now \in StartTime..MaxTime /\ now \in Nat /\ now' = now + 1 /\ now' \in StartTime..MaxTime
      /\ UNCHANGED <<lockVars, voteVars, rewardVars, adminVars, tokenVars>>
  BY TimeAssumption DEF IInv, AdminOK, Tick
<1>2. AdminOK'
  BY <1>1 DEF IInv, AdminOK, adminVars
<1>3. EpochsOK'
  <2>1. epochs[Len(epochs)] \in Epoch /\ epochs[Len(epochs)].date <= now
    BY DEF IInv, EpochsOK
  <2>2. epochs[Len(epochs)].date \in Nat
    BY <2>1, WeekIsNat DEF Epoch
  <2>3. epochs[Len(epochs)].date <= now'
    BY <2>1, <2>2, <1>1
  <2> QED BY <2>3, <1>1 DEF IInv, EpochsOK, lockVars
<1>4. LocksOK'
  <2>1. ASSUME NEW u \in Accounts, userLocks[u] # <<>>,
               userLocks[u][Len(userLocks[u])].unlockTime <= now + RewardsDuration
        PROVE  userLocks[u][Len(userLocks[u])].unlockTime <= now' + RewardsDuration
    <3>1. userLocks[u] \in Seq(LockedBalance)
      BY DEF IInv, LocksOK
    <3>2. userLocks[u][Len(userLocks[u])] \in LockedBalance
      BY <2>1, <3>1
    <3>3. userLocks[u][Len(userLocks[u])].unlockTime \in Nat
      BY <3>2, WeekIsNat DEF LockedBalance
    <3> QED BY <2>1, <3>3, <1>1, RewardsDurationAssumption
  <2> QED BY <2>1, <1>1 DEF IInv, LocksOK, BalancesMatch, lockVars, adminVars
<1>5. VotesOK'
  <2>1. UpcomingEpoch \in Nat /\ UpcomingEpoch <= UpcomingEpoch'
    <3> USE RewardsDurationAssumption
    <3> DEFINE p == (now + RewardsDuration) \div RewardsDuration
               q == (now + 1 + RewardsDuration) \div RewardsDuration
    <3>1. p \in Nat /\ q \in Nat /\ p <= q
      BY <1>1
    <3>2. UpcomingEpoch = p * RewardsDuration /\ UpcomingEpoch' = q * RewardsDuration
      BY <1>1 DEF UpcomingEpoch, WeekStart
    <3> HIDE DEF p, q
    <3>3. p * RewardsDuration \in Nat /\ p * RewardsDuration <= q * RewardsDuration
      BY <3>1
    <3> QED BY <3>2, <3>3
  <2>2. ASSUME NEW d \in Delegatees, checkpointedVotes[d] # <<>>
        PROVE  checkpointedVotes[d][Len(checkpointedVotes[d])].epochStart <= UpcomingEpoch'
    <3>1. /\ checkpointedVotes[d] \in Seq(DelegateeCheckpoint)
          /\ checkpointedVotes[d][Len(checkpointedVotes[d])].epochStart <= UpcomingEpoch
      BY <2>2 DEF IInv, VotesOK, CheckpointsOK
    <3>2. checkpointedVotes[d][Len(checkpointedVotes[d])] \in DelegateeCheckpoint
      BY <2>2, <3>1
    <3>3. checkpointedVotes[d][Len(checkpointedVotes[d])].epochStart \in Nat
      BY <3>2, WeekIsNat DEF DelegateeCheckpoint
    <3>4. UpcomingEpoch' \in Int
      BY <1>1, RewardsDurationAssumption DEF UpcomingEpoch, WeekStart
    <3> QED BY <2>1, <3>1, <3>3, <3>4
  <2> QED BY <2>2, <1>1 DEF IInv, VotesOK, CheckpointsOK, voteVars
<1>6. RewardsOK'
  <2>1. ASSUME NEW t \in Tokens PROVE rewardData[t].lastUpdateTime <= now'
    <3>1. rewardData[t] \in RewardDataType /\ rewardData[t].lastUpdateTime <= now
      BY DEF IInv, RewardsOK
    <3>2. rewardData[t].lastUpdateTime \in Nat
      BY <3>1 DEF RewardDataType
    <3> QED BY <3>1, <3>2, <1>1
  <2> QED BY <2>1, <1>1 DEF IInv, RewardsOK, rewardVars
<1>7. TokensOK' /\ SupplyOK'
  BY <1>1, OthersKept DEF lockVars, tokenVars, IInv, TokensOK, SupplyOK, SupplyMatches
<1> QED BY <1>2, <1>3, <1>4, <1>5, <1>6, <1>7 DEF IInv

\* Registering a reward token starts its clock now.
LEMMA AddRewardKeeps ==
  ASSUME IInv, NEW t \in AllTokens, NEW distributor \in Distributors, AddReward(t, distributor)
  PROVE  IInv'
<1>1. /\ t \in Tokens
      /\ rewardTokens' = rewardTokens \cup {t}
      /\ rewardData' = [rewardData EXCEPT ![t].lastUpdateTime = now, ![t].periodFinish = now]
      /\ rewardDistributors' = [rewardDistributors EXCEPT ![t] = @ \cup {distributor}]
      /\ UNCHANGED <<now, lockVars, voteVars, queuedRewards, userData, adminVars, tokenVars>>
  BY DEF AddReward, AllTokens
<1>2. /\ rewardTokens \in SUBSET Tokens /\ rewardData \in [Tokens -> RewardDataType]
      /\ rewardDistributors \in [Tokens -> SUBSET Distributors]
      /\ now \in Nat /\ RewardsOK
  BY TimeAssumption DEF IInv, RewardsOK, AdminOK
<1>3. rewardData[t] \in RewardDataType
  BY <1>1, <1>2
<1> DEFINE rd == [rewardData[t] EXCEPT !.lastUpdateTime = now, !.periodFinish = now]
<1>4. /\ rd \in RewardDataType /\ rd.lastUpdateTime = now /\ rd.periodFinish = now
      /\ rd.rewardPerTokenStored = rewardData[t].rewardPerTokenStored
  BY <1>2, <1>3 DEF RewardDataType
<1>5. rewardData' = [rewardData EXCEPT ![t] = rd]
  BY <1>1, <1>2
<1> HIDE DEF rd
<1>6. RewardsOK'
  <2>1. ASSUME NEW s \in Tokens
        PROVE  /\ rewardData'[s] \in RewardDataType
               /\ rewardData'[s].lastUpdateTime <= now
               /\ rewardData'[s].lastUpdateTime <= rewardData'[s].periodFinish
               /\ rewardData'[s].rewardPerTokenStored = rewardData[s].rewardPerTokenStored
    <3>1. CASE s = t
      BY <3>1, <1>2, <1>4, <1>5
    <3>2. CASE s # t
      BY <3>2, <1>2, <1>5 DEF RewardsOK
    <3> QED BY <3>1, <3>2
  <2>2. rewardData' \in [Tokens -> RewardDataType]
    BY <2>1, <1>2, <1>5
  <2>3. rewardDistributors' \in [Tokens -> SUBSET Distributors] /\ rewardTokens' \in SUBSET Tokens
    BY <1>1, <1>2
  <2> QED BY <2>1, <2>2, <2>3, <1>1, <1>2 DEF RewardsOK
<1> QED BY <1>1, <1>6, OthersKept DEF IInv, lockVars, voteVars, adminVars, tokenVars, SupplyOK, SupplyMatches

\* Moving a token other than the staking token, or adding to any token's balance,
\* keeps the stake backed.
LEMMA TokenMovesKeep ==
  ASSUME IInv, NEW t \in AllTokens, NEW amount,
         ReceiveERC20(t, amount) \/ RecoverERC20(t, amount)
  PROVE  IInv'
<1>1. /\ held \in [AllTokens -> Nat] /\ treasury \in [AllTokens -> Nat]
      /\ StakingToken \in AllTokens
  BY DEF IInv, TokensOK, AllTokens
<1>2. /\ UNCHANGED <<now, lockVars, voteVars, rewardVars, adminVars, wallet, received>>
      /\ held' \in [AllTokens -> Nat] /\ treasury' \in [AllTokens -> Nat]
      /\ held'[StakingToken] >= held[StakingToken]
  <2>1. CASE ReceiveERC20(t, amount)
    BY <2>1, <1>1 DEF ReceiveERC20
  <2>2. CASE RecoverERC20(t, amount)
    BY <2>2, <1>1 DEF RecoverERC20
  <2> QED BY <2>1, <2>2
<1>3. TokensOK'
  BY <1>2 DEF IInv, TokensOK
<1>4. held'[StakingToken] \in Nat
  BY <1>1, <1>2
<1> QED BY <1>2, <1>3, <1>4, OthersKept DEF IInv, lockVars, adminVars

\* The rest of the owner's and the accounts' settings, and checkpointEpoch.
LEMMA SettingsKeep ==
  ASSUME IInv,
         \/ CheckpointEpoch
         \/ \E u \in Accounts, caller \in Operators, grant \in BOOLEAN :
              ModifyPermission(u, caller, grant)
         \/ \E u \in Accounts, blacklisted \in BOOLEAN : ModifyBlacklist(u, blacklisted)
         \/ \E t \in Tokens, distributor \in Distributors, approved \in BOOLEAN :
              ApproveRewardDistributor(t, distributor, approved)
         \/ \E setting \in KickSettings : SetKickIncentive(setting[1], setting[2])
         \/ Shutdown
  PROVE  IInv'
<1>1. CASE CheckpointEpoch
  <2>1. epochs' = CheckpointedEpochs
        /\ UNCHANGED <<now, lockedSupply, balances, userLocks, voteVars, rewardVars, adminVars, tokenVars>>
    BY <1>1 DEF CheckpointEpoch
  <2>2. EpochsOK'
    BY <2>1, CheckpointedEpochsType DEF IInv, AdminOK, EpochsOK
  <2>3. LocksOK'
    BY <2>1 DEF IInv, LocksOK, BalancesMatch, adminVars
  <2> QED BY <2>1, <2>2, <2>3, OthersKept DEF IInv, SupplyOK, SupplyMatches
<1>2. ASSUME NEW u \in Accounts, NEW caller \in Operators, NEW grant \in BOOLEAN,
             ModifyPermission(u, caller, grant)
      PROVE  IInv'
  <2>1. AdminOK'
    BY <1>2 DEF IInv, AdminOK, ModifyPermission
  <2> QED BY <1>2, <2>1, OthersKept DEF ModifyPermission, IInv, lockVars, SupplyOK, SupplyMatches
<1>3. ASSUME NEW u \in Accounts, NEW blacklisted \in BOOLEAN, ModifyBlacklist(u, blacklisted)
      PROVE  IInv'
  <2>1. AdminOK'
    BY <1>3 DEF IInv, AdminOK, ModifyBlacklist
  <2> QED BY <1>3, <2>1, OthersKept DEF ModifyBlacklist, IInv, lockVars, SupplyOK, SupplyMatches
<1>4. ASSUME NEW t \in Tokens, NEW distributor \in Distributors, NEW approved \in BOOLEAN,
             ApproveRewardDistributor(t, distributor, approved)
      PROVE  IInv'
  <2>1. RewardsOK'
    BY <1>4 DEF IInv, RewardsOK, ApproveRewardDistributor
  <2> QED BY <1>4, <2>1, OthersKept
          DEF ApproveRewardDistributor, IInv, lockVars, adminVars, SupplyOK, SupplyMatches
<1>5. ASSUME NEW setting \in KickSettings, SetKickIncentive(setting[1], setting[2])
      PROVE  IInv'
  <2>1. setting[1] \in Nat /\ setting[2] \in Nat \ {0}
    BY <1>5, KickAssumption DEF SetKickIncentive
  <2>2. AdminOK'
    BY <1>5, <2>1 DEF IInv, AdminOK, SetKickIncentive
  <2> QED BY <1>5, <2>2, OthersKept DEF SetKickIncentive, IInv, lockVars, SupplyOK, SupplyMatches
<1>6. CASE Shutdown
  <2>1. AdminOK' /\ EpochsOK' /\ LocksOK'
    BY <1>6 DEF IInv, AdminOK, EpochsOK, LocksOK, BalancesMatch, Shutdown, lockVars
  <2> QED BY <1>6, <2>1, OthersKept DEF Shutdown, IInv, lockVars, SupplyOK, SupplyMatches
<1> QED BY <1>1, <1>2, <1>3, <1>4, <1>5, <1>6


----------------------------------------------------------------------------------
(* The theorems *)

\* The deployed contract satisfies the invariant.
LEMMA InitIInv == Init => IInv
<1> SUFFICES ASSUME Init PROVE IInv
  OBVIOUS
<1> USE DEF Init
<1>1. StartTime \in StartTime..MaxTime /\ StartTime \in Nat /\ NumAccounts \in Nat
  BY TimeAssumption, AccountsAssumption
<1>2. AdminOK
  <2>1. InitialKickRate \in Nat /\ InitialKickDelay \in Nat \ {0}
    BY KickAssumption
  <2>2. isShutdown \in BOOLEAN
    OBVIOUS
  <2> QED BY <1>1, <2>1, <2>2 DEF AdminOK
<1>3. EpochsOK
  <2>1. CurrentEpoch \in Weeks /\ CurrentEpoch <= now
    BY <1>1, Calendar
  <2>2. [supply |-> 0, date |-> WeekStart(StartTime)] \in Epoch
    BY <2>1 DEF Epoch, CurrentEpoch
  <2> QED BY <2>1, <2>2 DEF EpochsOK, CurrentEpoch
<1>4. LocksOK
  <2>1. LockSum(<<>>, 0, 0) = 0
    <3>1. <<>> \in Seq(LockedBalance) /\ Len(<<>>) = 0 /\ 0 \in 0..0
      OBVIOUS
    <3> QED BY <3>1, LockSumSplit
  <2> QED BY <2>1 DEF LocksOK, BalancesMatch, Balances
<1>5. held[StakingToken] = 0 /\ held \in [AllTokens -> Nat]
  BY DEF AllTokens
<1>6. SupplyOK
  <2> DEFINE f == [u \in Accounts |-> balances[u].locked]
             zero == [u \in Accounts |-> 0]
  <2>1. f = zero
    OBVIOUS
  <2>2. SumTo(zero, NumAccounts) = 0
    BY <1>1, SumOfZeros DEF Accounts
  <2>3. SupplyMatches(lockedSupply, balances)
    BY <2>1, <2>2 DEF SupplyMatches
  <2> QED BY <2>3, <1>5 DEF SupplyOK
<1>7. VotesOK
  BY DEF VotesOK, CheckpointsOK
<1>8. RewardsOK
  <2>1. NoRewardData \in RewardDataType /\ NoUserData \in UserDataType
    BY DEF NoRewardData, NoUserData, RewardDataType, UserDataType
  <2>2. \A t \in Tokens : /\ rewardData[t].lastUpdateTime <= now
                          /\ rewardData[t].lastUpdateTime <= rewardData[t].periodFinish
    BY <1>1 DEF NoRewardData
  <2>3. \A t \in Tokens, u \in Accounts :
          userData[u][t].rewardPerTokenPaid <= rewardData[t].rewardPerTokenStored
    BY DEF NoRewardData, NoUserData
  <2> QED BY <2>1, <2>2, <2>3 DEF RewardsOK
<1>9. TokensOK
  BY <1>5, TokenAssumption DEF TokensOK
<1> QED BY <1>2, <1>3, <1>4, <1>6, <1>7, <1>8, <1>9 DEF IInv

\* Every transaction, and every tick of the clock, keeps it.
LEMMA NextKeepsIInv == IInv /\ [Next]_vars => IInv'
<1> SUFFICES ASSUME IInv, [Next]_vars PROVE IInv'
  OBVIOUS
<1>1. CASE Tick
  BY <1>1, TickKeeps
<1>2. ASSUME NEW u \in Accounts, NEW sender \in Accounts, NEW amount \in 1..wallet[sender],
             Lock(sender, u, amount)
      PROVE  IInv'
  <2>1. wallet[sender] \in Nat
    BY DEF IInv, TokensOK
  <2>2. amount \in Nat
    BY <2>1
  <2> QED BY <2>2, <1>2, LockKeeps
<1>3. ASSUME NEW u \in Accounts, NEW relock \in BOOLEAN, ProcessExpiredLocks(u, relock)
      PROVE  IInv'
  BY <1>3, ProcessLocksKeeps DEF ProcessExpiredLocks
<1>4. ASSUME NEW u \in Accounts, NEW kicker \in Accounts, KickExpiredLocks(kicker, u)
      PROVE  IInv'
  <2>1. RewardsDuration * kickRewardEpochDelay \in Nat
    BY RewardsDurationAssumption DEF IInv, AdminOK
  <2> QED BY <2>1, <1>4, ProcessLocksKeeps DEF KickExpiredLocks
<1>5. ASSUME NEW u \in Accounts, EmergencyWithdraw(u) PROVE IInv'
  BY <1>5, EmergencyWithdrawKeeps
<1>6. ASSUME NEW u \in Accounts, NEW d \in Delegatees, Delegate(u, d) PROVE IInv'
  BY <1>6, DelegateKeeps
<1>7. ASSUME NEW u \in Accounts, NEW claimed \in SUBSET Tokens, GetReward(u, claimed) PROVE IInv'
  BY <1>7, ClaimRewardsKeeps DEF GetReward
<1>8. ASSUME NEW u \in Accounts, NEW caller, GetRewardFor(caller, u) PROVE IInv'
  <2>1. rewardTokens \in SUBSET Tokens
    BY DEF IInv, RewardsOK
  <2> QED BY <2>1, <1>8, ClaimRewardsKeeps DEF GetRewardFor
<1>9. ASSUME NEW t \in AllTokens, NEW distributor \in Distributors, AddReward(t, distributor) PROVE IInv'
  BY <1>9, AddRewardKeeps
<1>10. ASSUME NEW t \in AllTokens, NEW amount, RecoverERC20(t, amount) PROVE IInv'
  BY <1>10, TokenMovesKeep
<1>11. ASSUME NEW t \in Tokens, NEW amount, ReceiveERC20(t, amount) PROVE IInv'
  BY <1>11, TokenMovesKeep DEF AllTokens
<1>12. ASSUME NEW t \in Tokens, NEW distributor, NEW amount, QueueNewRewards(distributor, t, amount)
       PROVE  IInv'
  BY <1>12, QueueNewRewardsKeeps
<1>13. CASE \/ CheckpointEpoch
            \/ \E u \in Accounts, caller \in Operators, grant \in BOOLEAN :
                 ModifyPermission(u, caller, grant)
            \/ \E u \in Accounts, blacklisted \in BOOLEAN : ModifyBlacklist(u, blacklisted)
            \/ \E t \in Tokens, distributor \in Distributors, approved \in BOOLEAN :
                 ApproveRewardDistributor(t, distributor, approved)
            \/ \E setting \in KickSettings : SetKickIncentive(setting[1], setting[2])
            \/ Shutdown
  BY <1>13, SettingsKeep
<1>14. CASE UNCHANGED vars
  <2>1. UNCHANGED <<now, lockVars, voteVars, rewardVars, adminVars, tokenVars>>
    BY <1>14 DEF vars
  <2> QED BY <2>1, OthersKept DEF IInv, SupplyOK, SupplyMatches, lockVars, adminVars, tokenVars
<1> QED BY <1>1, <1>2, <1>3, <1>4, <1>5, <1>6, <1>7, <1>8, <1>9, <1>10, <1>11, <1>12, <1>13, <1>14
        DEF Next

\* The invariant holds throughout.
THEOREM Invariance == Spec => []IInv
BY InitIInv, NextKeepsIInv, PTL DEF Spec

\* No handler stores a value outside its type: no unsigned subtraction that a
\* handler commits goes below zero, and every date it writes is the start of a
\* week.
THEOREM TypeCorrect == Spec => []TypeOK
<1>1. IInv => TypeOK
  BY SupplyIsNat DEF IInv, AdminOK, EpochsOK, LocksOK, BalancesMatch, VotesOK, CheckpointsOK,
                     RewardsOK, TokensOK, TypeOK
<1> QED BY <1>1, Invariance, PTL

\* An account's balance is always the sum of its live locks, the locked supply the
\* sum of the balances, and the staking tokens in the locker cover it, whichever way
\* stake came in, was relocked, withdrawn, kicked or withdrawn after a shutdown.
THEOREM StakeBacked == Spec => []LockedBacked
<1>1. IInv => LockedBacked
  BY DEF IInv, LocksOK, BalancesMatch, SupplyOK, SupplyMatches, LockedBacked
<1> QED BY <1>1, Invariance, PTL

----------------------------------------------------------------------------------
(* Solvency of the reward streams *)

LockedOf == [u \in Accounts |-> balances[u].locked]
DataOf(t) == [u \in Accounts |-> userData[u][t]]

Solvent(t) ==
  StreamFine(NumAccounts, rewardData[t], DataOf(t), queuedRewards[t], held[t], LockedOf, now)

\* A token that was never registered has no stream, nothing queued, nobody who may
\* queue, and nobody has a record of it.
Unregistered(t) ==
  /\ rewardData[t] = NoRewardData /\ queuedRewards[t] = 0 /\ rewardDistributors[t] = {}
  /\ \A u \in Accounts : userData[u][t] = NoUserData

\* The locker holds what every stream owes, and _rewardExists tells the registered
\* tokens from the rest.
SolvencyOK ==
  /\ \A t \in Tokens : Solvent(t)
  /\ \A t \in Tokens : IF t \in rewardTokens THEN rewardData[t].lastUpdateTime > 0
                       ELSE Unregistered(t)

\* The facts about the accounts that the lemmas on streams ask for.
LEMMA StreamFacts ==
  ASSUME IInv
  PROVE  /\ now \in Nat /\ now > 0 /\ NumAccounts \in Nat
         /\ lockedSupply = SumTo(LockedOf, NumAccounts)
         /\ Accounts = 1..NumAccounts
         /\ \A u \in Accounts : LockedOf[u] = balances[u].locked /\ LockedOf[u] \in Nat
         /\ \A t \in Tokens, u \in Accounts : DataOf(t)[u] = userData[u][t]
         /\ \A t \in Tokens : t \in AllTokens /\ t # StakingToken /\ held[t] \in Nat
                              /\ queuedRewards[t] \in Nat /\ rewardData[t] \in RewardDataType
                              /\ rewardData[t].lastUpdateTime <= now
                              /\ rewardData[t].lastUpdateTime <= rewardData[t].periodFinish
<1>1. /\ now \in StartTime..MaxTime /\ NumAccounts \in Nat /\ StartTime \in Nat
      /\ LockDuration + RewardsDuration <= StartTime /\ LockDuration \in Nat
  BY TimeAssumption, AccountsAssumption, LockAssumption, RewardsDurationAssumption
     DEF IInv, AdminOK, LockDuration
<1>2. now \in Nat /\ now > 0
  BY <1>1, RewardsDurationAssumption
<1>3. lockedSupply = SumTo(LockedOf, NumAccounts)
  BY DEF IInv, SupplyOK, SupplyMatches, LockedOf
<1>4. \A u \in Accounts : LockedOf[u] = balances[u].locked /\ LockedOf[u] \in Nat
  BY DEF IInv, LocksOK, BalancesMatch, Balances, LockedOf
<1>5. \A t \in Tokens, u \in Accounts : DataOf(t)[u] = userData[u][t]
  BY DEF DataOf
<1>6. \A t \in Tokens : t \in AllTokens /\ t # StakingToken /\ held[t] \in Nat
                              /\ queuedRewards[t] \in Nat /\ rewardData[t] \in RewardDataType
                              /\ rewardData[t].lastUpdateTime <= now
                              /\ rewardData[t].lastUpdateTime <= rewardData[t].periodFinish
  BY TokenAssumption DEF IInv, TokensOK, RewardsOK, AllTokens
<1> QED BY <1>1, <1>2, <1>3, <1>4, <1>5, <1>6 DEF Accounts

\* updateReward on one account, whose balance then changes.
LEMMA UpdateKeepsSolvent ==
  ASSUME IInv, SolvencyOK, NEW u \in Accounts, NEW t \in Tokens, NEW vd, NEW c,
         \A a \in Accounts : c[a] \in Nat /\ (a # u => c[a] = LockedOf[a]),
         \A a \in Accounts : vd[a] = IF a = u THEN SettledRewards(u)[t] ELSE userData[a][t]
  PROVE  StreamFine(NumAccounts, RefreshedRewards[t], vd, queuedRewards[t], held[t], c, now)
<1>1. Solvent(t)
  BY DEF SolvencyOK
<1>2. CASE t \in rewardTokens
  <2> DEFINE users == {u}
  <2>1. RefreshedRewards[t] = Refreshed(rewardData[t], SumTo(LockedOf, NumAccounts), now)
    BY <1>2, StreamFacts DEF RefreshedRewards
  <2>2. RefreshedRewards[t].rewardPerTokenStored
          = RewardPerToken(rewardData[t], SumTo(LockedOf, NumAccounts), now)
    BY <2>1, StreamFacts DEF Refreshed, RewardDataType
  <2>3. SettledRewards(u)[t]
          = Settled(DataOf(t)[u], LockedOf[u],
                    RewardPerToken(rewardData[t], SumTo(LockedOf, NumAccounts), now))
    BY <1>2, <2>2, StreamFacts DEF SettledRewards
  <2>4. \A a \in 1..NumAccounts : LockedOf[a] \in Nat /\ c[a] \in Nat
    BY StreamFacts
  <2>5. \A a \in 1..NumAccounts :
          a \in users => vd[a] = Settled(DataOf(t)[a], LockedOf[a],
                             RewardPerToken(rewardData[t], SumTo(LockedOf, NumAccounts), now))
    BY <2>3, StreamFacts
  <2>6. \A a \in 1..NumAccounts : a \notin users => vd[a] = DataOf(t)[a] /\ c[a] = LockedOf[a]
    BY StreamFacts
  <2>7. StreamFine(NumAccounts, rewardData[t], DataOf(t), queuedRewards[t], held[t], LockedOf, now)
    BY <1>1 DEF Solvent
  <2> HIDE DEF users
  <2>8. NumAccounts \in Nat /\ now \in Nat
    BY StreamFacts
  <2>9. StreamFine(NumAccounts, Refreshed(rewardData[t], SumTo(LockedOf, NumAccounts), now), vd,
                   queuedRewards[t], held[t], c, now)
    BY <2>4, <2>5, <2>6, <2>7, <2>8, SettledFine
  <2> QED BY <2>1, <2>9
<1>3. CASE t \notin rewardTokens
  <2>1. RefreshedRewards[t] = NoRewardData /\ queuedRewards[t] = 0
    BY <1>3 DEF RefreshedRewards, SolvencyOK, Unregistered
  <2>2. \A a \in 1..NumAccounts : c[a] \in Nat /\ vd[a] = NoUserData
    BY <1>3, StreamFacts DEF SettledRewards, SolvencyOK, Unregistered
  <2>3. held[t] \in Nat /\ NumAccounts \in Nat /\ now \in Nat
    BY StreamFacts
  <2> QED BY <2>1, <2>2, <2>3, IdleFine
<1> QED BY <1>2, <1>3

\* A registered token stays recognisable: its update time never goes back.
LEMMA UpdateTimeGrows ==
  ASSUME IInv, SolvencyOK, NEW t \in rewardTokens
  PROVE  t \in Tokens /\ RefreshedRewards[t].lastUpdateTime > 0
<1>1. t \in Tokens
  BY DEF IInv, RewardsOK
<1>2. /\ rewardData[t] \in RewardDataType /\ rewardData[t].lastUpdateTime > 0
      /\ rewardData[t].lastUpdateTime <= now
      /\ rewardData[t].lastUpdateTime <= rewardData[t].periodFinish
  BY <1>1, StreamFacts DEF SolvencyOK
<1>3. RefreshedRewards[t].lastUpdateTime = AtMost(now, rewardData[t].periodFinish)
  BY <1>1, <1>2 DEF RefreshedRewards, Refreshed, RewardDataType, LastTimeRewardApplicable
<1>4. now \in Nat
  BY StreamFacts
<1> QED BY <1>1, <1>2, <1>3, <1>4 DEF AtMost, RewardDataType

\* A handler that runs updateReward on one account, and then changes the balance of
\* that account only, stays solvent.
LEMMA UpdateRewardSolvent ==
  ASSUME IInv, IInv', SolvencyOK, NEW u \in Accounts, UpdateReward(u),
         \A a \in Accounts : a # u => balances'[a] = balances[a],
         \A t \in Tokens : held'[t] = held[t],
         UNCHANGED <<now, rewardTokens, queuedRewards, rewardDistributors>>
  PROVE  SolvencyOK'
<1>1. rewardData' = RefreshedRewards /\ userData' = [userData EXCEPT ![u] = SettledRewards(u)]
  BY DEF UpdateReward
<1>2. userData \in [Accounts -> [Tokens -> UserDataType]]
  BY DEF IInv, RewardsOK
<1>3. ASSUME NEW t \in Tokens PROVE Solvent(t)'
  <2>1. \A a \in Accounts :
          DataOf(t)'[a] = IF a = u THEN SettledRewards(u)[t] ELSE userData[a][t]
    BY <1>1, <1>2 DEF DataOf, Accounts
  <2>2. \A a \in Accounts : LockedOf'[a] \in Nat /\ (a # u => LockedOf'[a] = LockedOf[a])
    <3>1. ASSUME NEW a \in Accounts PROVE LockedOf'[a] = balances'[a].locked /\ LockedOf'[a] \in Nat
      <4>1. balances'[a] \in Balances
        BY DEF IInv, LocksOK, BalancesMatch
      <4> QED BY <4>1 DEF LockedOf, Balances, Accounts
    <3> QED BY <3>1, StreamFacts
  <2> DEFINE vd == DataOf(t)'
             c == LockedOf'
  <2>3. StreamFine(NumAccounts, RefreshedRewards[t], vd, queuedRewards[t], held[t], c, now)
    <3>1. \A a \in Accounts : c[a] \in Nat /\ (a # u => c[a] = LockedOf[a])
      BY <2>2
    <3>2. \A a \in Accounts : vd[a] = IF a = u THEN SettledRewards(u)[t] ELSE userData[a][t]
      BY <2>1
    <3> HIDE DEF vd, c
    <3> QED BY <3>1, <3>2, UpdateKeepsSolvent
  <2> QED BY <2>3, <1>1 DEF Solvent
<1>4. ASSUME NEW t \in Tokens
      PROVE  (IF t \in rewardTokens THEN rewardData[t].lastUpdateTime > 0 ELSE Unregistered(t))'
  <2>1. CASE t \in rewardTokens
    BY <2>1, <1>1, UpdateTimeGrows
  <2>2. CASE t \notin rewardTokens
    <3>1. Unregistered(t)
      BY <2>2 DEF SolvencyOK
    <3>2. RefreshedRewards[t] = NoRewardData /\ SettledRewards(u)[t] = userData[u][t]
      BY <2>2, <3>1 DEF RefreshedRewards, SettledRewards, Unregistered
    <3>3. \A a \in Accounts : userData'[a][t] = NoUserData
      BY <3>1, <3>2, <1>1, <1>2 DEF Unregistered
    <3> QED BY <2>2, <3>1, <3>2, <3>3, <1>1 DEF Unregistered, Accounts
  <2> QED BY <2>1, <2>2
<1> QED BY <1>3, <1>4 DEF SolvencyOK

\* A claim pays an account out of what the locker holds.
LEMMA ClaimSolvent ==
  ASSUME IInv, SolvencyOK, NEW u \in Accounts, NEW claimed \in SUBSET rewardTokens, NEW olitTo,
         ClaimRewards(u, claimed, olitTo)
  PROVE  SolvencyOK'
<1>1. /\ \A t \in claimed : SettledRewards(u)[t].rewards <= held[t]
      /\ rewardData' = RefreshedRewards
      /\ userData' = [userData EXCEPT ![u] =
                    [t \in Tokens |-> IF t \in claimed
                                      THEN [SettledRewards(u)[t] EXCEPT !.rewards = 0]
                                      ELSE SettledRewards(u)[t]]]
      /\ \A t \in Tokens : held'[t] = held[t] - (IF t \in claimed THEN SettledRewards(u)[t].rewards ELSE 0)
      /\ UNCHANGED <<now, lockVars, voteVars, rewardTokens, queuedRewards, rewardDistributors,
                 adminVars, wallet, treasury>>
  BY DEF ClaimRewards, AllTokens
<1>2. userData \in [Accounts -> [Tokens -> UserDataType]] /\ rewardTokens \in SUBSET Tokens
  BY DEF IInv, RewardsOK
<1>3. LockedOf' = LockedOf
  BY <1>1 DEF LockedOf, lockVars
<1>4. ASSUME NEW t \in Tokens PROVE Solvent(t)'
  <2> DEFINE vd == [a \in Accounts |-> IF a = u THEN SettledRewards(u)[t] ELSE userData[a][t]]
             wd == DataOf(t)'
  <2>1. StreamFine(NumAccounts, RefreshedRewards[t], vd, queuedRewards[t], held[t], LockedOf, now)
    <3>1. \A a \in Accounts : LockedOf[a] \in Nat /\ (a # u => LockedOf[a] = LockedOf[a])
      BY StreamFacts
    <3>2. \A a \in Accounts : vd[a] = IF a = u THEN SettledRewards(u)[t] ELSE userData[a][t]
      OBVIOUS
    <3> HIDE DEF vd
    <3> QED BY <3>1, <3>2, UpdateKeepsSolvent
  <2>2. /\ vd[u] = SettledRewards(u)[t]
        /\ \A a \in 1..NumAccounts : a # u => vd[a] = userData[a][t]
    BY StreamFacts
  <2>3. /\ \A a \in 1..NumAccounts : a # u => wd[a] = userData[a][t]
        /\ wd[u] = IF t \in claimed THEN [SettledRewards(u)[t] EXCEPT !.rewards = 0]
                                    ELSE SettledRewards(u)[t]
    BY <1>1, <1>2, StreamFacts DEF DataOf
  <2>4. NumAccounts \in Nat /\ now \in Nat /\ u \in 1..NumAccounts /\ \A a \in 1..NumAccounts : LockedOf[a] \in Nat
    BY StreamFacts
  <2> HIDE DEF vd, wd
  <2>5. CASE t \in claimed
    <3>1. held'[t] = held[t] - vd[u].rewards /\ vd[u].rewards <= held[t]
      BY <2>5, <2>2, <1>1
    <3>2. StreamFine(NumAccounts, RefreshedRewards[t], wd, queuedRewards[t], held[t] - vd[u].rewards,
                     LockedOf, now)
      <4>1. wd[u] = [vd[u] EXCEPT !.rewards = 0] /\ \A a \in 1..NumAccounts : a # u => wd[a] = vd[a]
        BY <2>2, <2>3, <2>5
      <4> QED BY <4>1, <2>1, <2>4, <3>1, PaidFine
    <3> QED BY <3>1, <3>2, <1>1, <1>3 DEF Solvent, wd
  <2>6. CASE t \notin claimed
    <3>1. held'[t] = held[t]
      BY <2>6, <1>1, StreamFacts
    <3>2. wd = vd
      <4>1. \A a \in Accounts : wd[a] = vd[a]
        BY <2>2, <2>3, <2>6, StreamFacts
      <4> QED BY <4>1 DEF wd, vd, DataOf, Accounts
    <3> QED BY <3>1, <3>2, <2>1, <1>1, <1>3 DEF Solvent, wd
  <2> QED BY <2>5, <2>6
<1>5. ASSUME NEW t \in Tokens
      PROVE  (IF t \in rewardTokens THEN rewardData[t].lastUpdateTime > 0 ELSE Unregistered(t))'
  <2>1. CASE t \in rewardTokens
    BY <2>1, <1>1, UpdateTimeGrows
  <2>2. CASE t \notin rewardTokens
    <3>1. Unregistered(t) /\ t \notin claimed
      BY <2>2 DEF SolvencyOK
    <3>2. RefreshedRewards[t] = NoRewardData /\ SettledRewards(u)[t] = userData[u][t]
      BY <2>2, <3>1 DEF RefreshedRewards, SettledRewards, Unregistered
    <3>3. \A a \in Accounts : userData'[a][t] = NoUserData
      BY <3>1, <3>2, <1>1, <1>2 DEF Unregistered
    <3> QED BY <2>2, <3>1, <3>2, <3>3, <1>1 DEF Unregistered, Accounts
  <2> QED BY <2>1, <2>2
<1> QED BY <1>4, <1>5 DEF SolvencyOK

\* Queued rewards are covered by what comes in with them.
LEMMA QueueSolvent ==
  ASSUME IInv, SolvencyOK, NEW distributor, NEW t \in Tokens, NEW amount,
         QueueNewRewards(distributor, t, amount)
  PROVE  SolvencyOK'
<1> DEFINE total == amount + queuedRewards[t]
<1>1. /\ amount \in 1..treasury[t] /\ distributor \in rewardDistributors[t]
      /\ \/ /\ rewardData' = [RefreshedRewards EXCEPT ![t] = Notified(RefreshedRewards[t], total, now)]
            /\ queuedRewards' = [queuedRewards EXCEPT ![t] = 0]
         \/ /\ queuedRewards' = [queuedRewards EXCEPT ![t] = total]
            /\ UNCHANGED rewardData
      /\ held' = [held EXCEPT ![t] = @ + amount]
      /\ UNCHANGED <<now, balances, rewardTokens, rewardDistributors, userData>>
  BY DEF QueueNewRewards, NotifyReward, lockVars
<1>2. /\ queuedRewards \in [Tokens -> Nat] /\ held \in [AllTokens -> Nat] /\ treasury \in [AllTokens -> Nat]
      /\ rewardData \in [Tokens -> RewardDataType]
  BY DEF IInv, RewardsOK, TokensOK
<1>3. t \in rewardTokens
  BY <1>1 DEF SolvencyOK, Unregistered
<1>4. amount \in Nat
  BY <1>1, <1>2, StreamFacts
<1>5. /\ NumAccounts \in Nat /\ now \in Nat /\ \A a \in 1..NumAccounts : LockedOf[a] \in Nat
      /\ lockedSupply = SumTo(LockedOf, NumAccounts) /\ RefreshedRewards \in [Tokens -> RewardDataType]
  <2>1. now \in Nat /\ lockedSupply \in Nat /\ RewardsOK
    BY StreamFacts, SupplyIsNat DEF IInv
  <2> QED BY <2>1, StreamFacts, RefreshedRewardsType
<1>6. LockedOf' = LockedOf /\ \A s : DataOf(s)' = DataOf(s)
  BY <1>1 DEF LockedOf, DataOf
<1>7. held'[t] = held[t] + amount /\ \A s \in Tokens : s # t => held'[s] = held[s]
  BY <1>1, <1>2, StreamFacts
<1>8. CASE /\ rewardData' = [RefreshedRewards EXCEPT ![t] = Notified(RefreshedRewards[t], total, now)]
           /\ queuedRewards' = [queuedRewards EXCEPT ![t] = 0]
  <2>1. Solvent(t)'
    <3>1. RefreshedRewards[t] = Refreshed(rewardData[t], SumTo(LockedOf, NumAccounts), now)
      BY <1>3, <1>5 DEF RefreshedRewards
    <3>2. StreamFine(NumAccounts, Notified(RefreshedRewards[t], total, now), DataOf(t), 0, held[t] + amount, LockedOf, now)
      BY <3>1, <1>4, <1>5, NotifiedFine DEF SolvencyOK, Solvent
    <3>3. rewardData'[t] = Notified(RefreshedRewards[t], total, now) /\ queuedRewards'[t] = 0
      BY <1>8, <1>5, <1>2
    <3> QED BY <3>2, <3>3, <1>1, <1>6, <1>7 DEF Solvent
  <2>2. ASSUME NEW s \in Tokens, s # t PROVE Solvent(s)'
    <3>1. rewardData'[s] = RefreshedRewards[s] /\ queuedRewards'[s] = queuedRewards[s] /\ held'[s] = held[s]
      BY <2>2, <1>8, <1>5, <1>2, <1>7
    <3>2. StreamFine(NumAccounts, rewardData[s], DataOf(s), queuedRewards[s], held[s], LockedOf, now)
      BY DEF SolvencyOK, Solvent
    <3>3. StreamFine(NumAccounts, RefreshedRewards[s], DataOf(s), queuedRewards[s], held[s], LockedOf, now)
      <4>1. CASE s \in rewardTokens
        <5>1. RefreshedRewards[s] = Refreshed(rewardData[s], SumTo(LockedOf, NumAccounts), now)
          BY <4>1, <1>5 DEF RefreshedRewards
        <5> DEFINE users == {}
        <5>2. \A a \in 1..NumAccounts : a \notin users
          OBVIOUS
        <5> HIDE DEF users
        <5>3. StreamFine(NumAccounts, Refreshed(rewardData[s], SumTo(LockedOf, NumAccounts), now), DataOf(s),
                         queuedRewards[s], held[s], LockedOf, now)
          BY <3>2, <5>2, <1>5, SettledFine
        <5> QED BY <5>1, <5>3
      <4>2. CASE s \notin rewardTokens
        BY <4>2, <3>2 DEF RefreshedRewards
      <4> QED BY <4>1, <4>2
    <3> QED BY <3>1, <3>3, <1>1, <1>6 DEF Solvent
  <2>3. ASSUME NEW s \in Tokens
        PROVE  (IF s \in rewardTokens THEN rewardData[s].lastUpdateTime > 0 ELSE Unregistered(s))'
    <3>1. CASE s = t
      <4>1. rewardData'[t] = Notified(RefreshedRewards[t], total, now) /\ RefreshedRewards[t] \in RewardDataType
        BY <1>5, <1>8
      <4>2. rewardData'[t].lastUpdateTime = now
        BY <4>1 DEF Notified, RewardDataType
      <4> QED BY <4>2, <3>1, <1>3, <1>1, StreamFacts
    <3>2. CASE s # t /\ s \in rewardTokens
      <4>1. rewardData'[s] = RefreshedRewards[s]
        BY <3>2, <1>5, <1>8
      <4> QED BY <4>1, <3>2, <1>1, UpdateTimeGrows
    <3>3. CASE s # t /\ s \notin rewardTokens
      <4>1. Unregistered(s)
        BY <3>3 DEF SolvencyOK
      <4>2. rewardData'[s] = rewardData[s] /\ queuedRewards'[s] = queuedRewards[s]
        BY <3>3, <1>2, <1>5, <1>8 DEF RefreshedRewards
      <4> QED BY <4>1, <4>2, <3>3, <1>1 DEF Unregistered
    <3> QED BY <3>1, <3>2, <3>3
  <2> QED BY <2>1, <2>2, <2>3 DEF SolvencyOK
<1>9. CASE queuedRewards' = [queuedRewards EXCEPT ![t] = total] /\ UNCHANGED rewardData
  <2>1. Solvent(t)'
    <3>1. StreamFine(NumAccounts, rewardData[t], DataOf(t), total, held[t] + amount, LockedOf, now)
      <4>1. StreamFine(NumAccounts, rewardData[t], DataOf(t), queuedRewards[t], held[t], LockedOf, now)
        BY DEF SolvencyOK, Solvent
      <4> QED BY <4>1, <1>4, <1>5, FundedFine
    <3> QED BY <3>1, <1>1, <1>2, <1>6, <1>7, <1>9 DEF Solvent
  <2>2. ASSUME NEW s \in Tokens, s # t PROVE Solvent(s)'
    BY <2>2, <1>1, <1>2, <1>6, <1>7, <1>9 DEF Solvent, SolvencyOK
  <2>3. ASSUME NEW s \in Tokens
        PROVE  (IF s \in rewardTokens THEN rewardData[s].lastUpdateTime > 0 ELSE Unregistered(s))'
    BY <1>1, <1>2, <1>3, <1>9 DEF SolvencyOK, Unregistered
  <2> QED BY <2>1, <2>2, <2>3 DEF SolvencyOK
<1> QED BY <1>1, <1>8, <1>9

\* What an account has not settled when it leaves by emergencyWithdraw stays behind.
LEMMA EmergencySolvent ==
  ASSUME IInv, SolvencyOK, NEW u \in Accounts, EmergencyWithdraw(u)
  PROVE  SolvencyOK'
<1>1. /\ balances' = [balances EXCEPT ![u] = [locked |-> 0, nextUnlockIndex |-> Len(userLocks[u])]]
      /\ held' = [held EXCEPT ![StakingToken] = @ - balances[u].locked]
      /\ UNCHANGED <<now, rewardTokens, rewardData, queuedRewards, rewardDistributors, userData>>
  BY DEF EmergencyWithdraw, rewardVars
<1>2. balances \in [Accounts -> Balances] /\ held \in [AllTokens -> Nat]
  BY DEF IInv, LocksOK, BalancesMatch, TokensOK
<1>3. \A a \in Accounts : LockedOf'[a] \in Nat /\ LockedOf'[a] <= LockedOf[a]
  <2>1. ASSUME NEW a \in Accounts PROVE LockedOf'[a] \in Nat /\ LockedOf'[a] <= LockedOf[a]
    <3>1. LockedOf'[a] = balances'[a].locked
      BY DEF LockedOf, Accounts
    <3>2. CASE a = u
      BY <3>1, <3>2, <1>1, <1>2, StreamFacts
    <3>3. CASE a # u
      BY <3>1, <3>3, <1>1, <1>2, StreamFacts
    <3> QED BY <3>2, <3>3
  <2> QED BY <2>1
<1>4. ASSUME NEW t \in Tokens PROVE Solvent(t)'
  <2>1. DataOf(t)' = DataOf(t) /\ held'[t] = held[t]
    BY <1>1, <1>2, StreamFacts DEF DataOf
  <2> DEFINE c == LockedOf'
  <2>2. StreamFine(NumAccounts, rewardData[t], DataOf(t), queuedRewards[t], held[t], LockedOf, now)
    BY DEF SolvencyOK, Solvent
  <2>3. \A a \in 1..NumAccounts : LockedOf[a] \in Nat /\ c[a] \in Nat /\ c[a] <= LockedOf[a]
    BY <1>3, StreamFacts
  <2>4. NumAccounts \in Nat /\ now \in Nat
    BY StreamFacts
  <2> HIDE DEF c
  <2>5. StreamFine(NumAccounts, rewardData[t], DataOf(t), queuedRewards[t], held[t], c, now)
    BY <2>2, <2>3, <2>4, LeftFine
  <2> QED BY <2>1, <2>5, <1>1 DEF Solvent, c
<1>5. \A t \in Tokens : (IF t \in rewardTokens THEN rewardData[t].lastUpdateTime > 0 ELSE Unregistered(t))'
  BY <1>1 DEF SolvencyOK, Unregistered
<1> QED BY <1>4, <1>5 DEF SolvencyOK

\* A new reward token starts without a stream; whatever the locker holds of it is
\* nobody's yet.
LEMMA AddRewardSolvent ==
  ASSUME IInv, SolvencyOK, NEW t \in AllTokens, NEW distributor, AddReward(t, distributor)
  PROVE  SolvencyOK'
<1>1. /\ ~RewardExists(t) /\ t \in Tokens
      /\ rewardTokens' = rewardTokens \cup {t}
      /\ rewardData' = [rewardData EXCEPT ![t].lastUpdateTime = now, ![t].periodFinish = now]
      /\ rewardDistributors' = [rewardDistributors EXCEPT ![t] = @ \cup {distributor}]
      /\ UNCHANGED <<now, balances, queuedRewards, userData, held>>
  BY DEF AddReward, AllTokens, lockVars, tokenVars
<1>2. /\ rewardData \in [Tokens -> RewardDataType]
      /\ rewardDistributors \in [Tokens -> SUBSET Distributors]
      /\ held \in [AllTokens -> Nat]
  BY DEF IInv, RewardsOK, TokensOK
<1>3. Unregistered(t)
  <2>1. rewardData[t].lastUpdateTime = 0
    BY <1>1 DEF RewardExists
  <2>2. ~(rewardData[t].lastUpdateTime > 0)
    BY <2>1
  <2> QED BY <2>2, <1>1 DEF SolvencyOK
<1>4. LockedOf' = LockedOf /\ \A s : DataOf(s)' = DataOf(s)
  BY <1>1 DEF LockedOf, DataOf
<1>5. rewardData'[t] = [NoRewardData EXCEPT !.lastUpdateTime = now, !.periodFinish = now]
  BY <1>1, <1>2, <1>3 DEF Unregistered
<1>6. /\ rewardData'[t] \in RewardDataType
      /\ rewardData'[t].lastUpdateTime = now /\ rewardData'[t].periodFinish = now
      /\ rewardData'[t].rewardRate = 0 /\ rewardData'[t].rewardPerTokenStored = 0
  <2>1. rewardData'[t] = [periodFinish |-> now, lastUpdateTime |-> now, rewardRate |-> 0,
                          rewardPerTokenStored |-> 0]
    BY <1>5 DEF NoRewardData
  <2>2. now \in Nat
    BY StreamFacts
  <2> QED BY <2>1, <2>2 DEF RewardDataType
<1>7. Solvent(t)'
  <2> DEFINE rd == rewardData'[t]
  <2>1. \A a \in 1..NumAccounts : LockedOf[a] \in Nat /\ DataOf(t)[a] = NoUserData
    BY <1>1, <1>3, StreamFacts DEF Unregistered
  <2>2. NumAccounts \in Nat /\ now \in Nat /\ held[t] \in Nat /\ now <= now
    BY <1>1, StreamFacts
  <2>3. /\ rd \in RewardDataType /\ rd.lastUpdateTime <= now /\ rd.lastUpdateTime <= rd.periodFinish
        /\ rd.rewardRate = 0 /\ rd.rewardPerTokenStored = 0
    BY <1>6, <2>2
  <2> HIDE DEF rd
  <2>4. StreamFine(NumAccounts, rd, DataOf(t), 0, held[t], LockedOf, now)
    BY <2>1, <2>2, <2>3, EmptyFine
  <2> QED BY <2>4, <1>1, <1>3, <1>4 DEF Solvent, rd, Unregistered
<1>8. ASSUME NEW s \in Tokens, s # t
      PROVE  /\ Solvent(s)'
             /\ (IF s \in rewardTokens THEN rewardData[s].lastUpdateTime > 0 ELSE Unregistered(s))'
  <2>1. rewardData'[s] = rewardData[s] /\ rewardDistributors'[s] = rewardDistributors[s]
    BY <1>1, <1>2, <1>8
  <2> QED BY <2>1, <1>1, <1>4, <1>8 DEF SolvencyOK, Solvent, Unregistered
<1>9. (IF t \in rewardTokens THEN rewardData[t].lastUpdateTime > 0 ELSE Unregistered(t))'
  BY <1>1, <1>6, StreamFacts
<1> QED BY <1>7, <1>8, <1>9 DEF SolvencyOK

\* Tokens that come in unasked only add to what is held, and only tokens without a
\* stream are recovered.
LEMMA TokenMovesSolvent ==
  ASSUME IInv, SolvencyOK, NEW t \in AllTokens, NEW amount,
         ReceiveERC20(t, amount) \/ RecoverERC20(t, amount)
  PROVE  SolvencyOK'
<1>1. /\ held \in [AllTokens -> Nat] /\ treasury \in [AllTokens -> Nat]
  BY DEF IInv, TokensOK
<1>2. UNCHANGED <<now, balances, rewardTokens, rewardData, queuedRewards, rewardDistributors, userData>>
  BY DEF ReceiveERC20, RecoverERC20, lockVars, rewardVars
<1>3. LockedOf' = LockedOf /\ \A s : DataOf(s)' = DataOf(s)
  BY <1>2 DEF LockedOf, DataOf
<1>4. \A s \in Tokens : (IF s \in rewardTokens THEN rewardData[s].lastUpdateTime > 0 ELSE Unregistered(s))'
  BY <1>2 DEF SolvencyOK, Unregistered
<1>5. NumAccounts \in Nat /\ now \in Nat /\ \A a \in 1..NumAccounts : LockedOf[a] \in Nat
  BY StreamFacts
<1>6. ASSUME NEW s \in Tokens PROVE Solvent(s)'
  <2>1. StreamFine(NumAccounts, rewardData[s], DataOf(s), queuedRewards[s], held[s], LockedOf, now)
    BY DEF SolvencyOK, Solvent
  <2>2. CASE s # t
    <3>1. held'[s] = held[s]
      BY <2>2, <1>1, StreamFacts DEF ReceiveERC20, RecoverERC20
    <3> QED BY <3>1, <2>1, <1>2, <1>3 DEF Solvent
  <2>3. CASE s = t /\ ReceiveERC20(t, amount)
    <3>1. amount \in Nat /\ held'[s] = held[s] + amount
      BY <2>3, <1>1 DEF ReceiveERC20
    <3>2. StreamFine(NumAccounts, rewardData[s], DataOf(s), queuedRewards[s], held[s] + amount, LockedOf, now)
      BY <2>1, <3>1, <1>5, FundedFine
    <3> QED BY <3>1, <3>2, <1>2, <1>3 DEF Solvent
  <2>4. CASE s = t /\ RecoverERC20(t, amount)
    <3>1. held'[s] \in Nat /\ ~RewardExists(s)
      BY <2>4, <1>1 DEF RecoverERC20
    <3>2. rewardData[s].lastUpdateTime = 0
      BY <3>1 DEF RewardExists
    <3>3. ~(rewardData[s].lastUpdateTime > 0)
      BY <3>2
    <3>4. Unregistered(s)
      BY <3>3 DEF SolvencyOK
    <3> DEFINE h == held'[s]
    <3>5. h \in Nat /\ \A a \in 1..NumAccounts : LockedOf[a] \in Nat /\ DataOf(s)[a] = NoUserData
      BY <3>1, <3>4, StreamFacts DEF Unregistered
    <3> HIDE DEF h
    <3>6. StreamFine(NumAccounts, NoRewardData, DataOf(s), 0, h, LockedOf, now)
      BY <3>5, <1>5, IdleFine
    <3> QED BY <3>4, <3>6, <1>2, <1>3 DEF Solvent, h, Unregistered
  <2> QED BY <2>2, <2>3, <2>4
<1> QED BY <1>4, <1>6 DEF SolvencyOK

\* A step that leaves balances, streams and reward tokens alone.
LEMMA OthersSolvent ==
  ASSUME IInv, SolvencyOK,
         UNCHANGED <<balances, rewardTokens, rewardData, queuedRewards, rewardDistributors, userData, held>>,
         now' = now \/ now' = now + 1
  PROVE  SolvencyOK'
<1>1. LockedOf' = LockedOf /\ \A s : DataOf(s)' = DataOf(s)
  BY DEF LockedOf, DataOf
<1>2. \A s \in Tokens : (IF s \in rewardTokens THEN rewardData[s].lastUpdateTime > 0 ELSE Unregistered(s))'
  BY DEF SolvencyOK, Unregistered
<1>3. ASSUME NEW s \in Tokens PROVE Solvent(s)'
  <2>1. StreamFine(NumAccounts, rewardData[s], DataOf(s), queuedRewards[s], held[s], LockedOf, now)
    BY DEF SolvencyOK, Solvent
  <2>2. StreamFine(NumAccounts, rewardData[s], DataOf(s), queuedRewards[s], held[s], LockedOf, now + 1)
    BY <2>1, LaterFine, StreamFacts
  <2>3. CASE now' = now
    BY <2>3, <2>1, <1>1 DEF Solvent
  <2>4. CASE now' = now + 1
    BY <2>4, <2>2, <1>1 DEF Solvent
  <2> QED BY <2>3, <2>4
<1> QED BY <1>2, <1>3 DEF SolvencyOK

\* At the deployment no token is registered.
LEMMA InitSolvent ==
  ASSUME Init
  PROVE  SolvencyOK
<1>1. IInv
  BY InitIInv
<1>2. \A t \in Tokens : Unregistered(t) /\ t \notin rewardTokens
  BY DEF Init, Unregistered
<1>3. ASSUME NEW t \in Tokens PROVE Solvent(t)
  <2>1. NumAccounts \in Nat /\ now \in Nat /\ held[t] \in Nat
        /\ \A a \in 1..NumAccounts : LockedOf[a] \in Nat /\ DataOf(t)[a] = NoUserData
    BY <1>1, <1>2, StreamFacts DEF Unregistered
  <2>2. StreamFine(NumAccounts, NoRewardData, DataOf(t), 0, held[t], LockedOf, now)
    BY <2>1, IdleFine
  <2> QED BY <2>2, <1>2 DEF Solvent, Unregistered
<1> QED BY <1>2, <1>3 DEF SolvencyOK

\* Whose balance processing expired locks changes, and what it does to the rewards.
LEMMA ProcessLocksFrame ==
  ASSUME IInv, NEW u \in Accounts, NEW relock \in BOOLEAN, NEW rewardAddress, NEW delay,
         ProcessLocks(u, relock, rewardAddress, delay)
  PROVE  /\ UpdateReward(u)
         /\ \A a \in Accounts : a # u => balances'[a] = balances[a]
         /\ \A t \in Tokens : held'[t] = held[t]
         /\ UNCHANGED <<now, delegates, rewardTokens, queuedRewards, rewardDistributors, adminVars,
                        treasury, received>>
<1>1. balances \in [Accounts -> Balances] /\ held \in [AllTokens -> Nat]
  BY DEF IInv, LocksOK, BalancesMatch, TokensOK
<1>2. \E amount, back, b :
        /\ held' = [held EXCEPT ![StakingToken] = back]
        /\ \/ balances' = [[balances EXCEPT ![u] = b] EXCEPT ![u].locked = amount]
           \/ balances' = [balances EXCEPT ![u] = b]
  BY DEF ProcessLocks, LockTokens
<1>3. \A a \in Accounts : a # u => balances'[a] = balances[a]
  BY <1>1, <1>2
<1>4. \A t \in Tokens : held'[t] = held[t]
  BY <1>1, <1>2, StreamFacts
<1> QED BY <1>3, <1>4 DEF ProcessLocks

\* Every step keeps the streams solvent.
LEMMA NextKeepsSolvency == IInv /\ IInv' /\ SolvencyOK /\ [Next]_vars => SolvencyOK'
<1> SUFFICES ASSUME IInv, IInv', SolvencyOK, [Next]_vars PROVE SolvencyOK'
  OBVIOUS
<1>1. CASE Tick
  BY <1>1, OthersSolvent DEF Tick, lockVars, rewardVars, tokenVars
<1>2. ASSUME NEW u \in Accounts, NEW sender \in Accounts, NEW amount, Lock(sender, u, amount)
      PROVE  SolvencyOK'
  <2>1. balances \in [Accounts -> Balances] /\ held \in [AllTokens -> Nat]
    BY DEF IInv, LocksOK, BalancesMatch, TokensOK
  <2>2. balances' = [balances EXCEPT ![u].locked = @ + amount]
        /\ held' = [held EXCEPT ![StakingToken] = @ + amount]
    BY <1>2 DEF Lock, LockTokens
  <2>3. \A a \in Accounts : a # u => balances'[a] = balances[a]
    BY <2>1, <2>2
  <2>4. \A t \in Tokens : held'[t] = held[t]
    BY <2>1, <2>2, StreamFacts
  <2> QED BY <2>3, <2>4, <1>2, UpdateRewardSolvent DEF Lock
<1>3. ASSUME NEW u \in Accounts, NEW relock \in BOOLEAN, ProcessExpiredLocks(u, relock)
      PROVE  SolvencyOK'
  BY <1>3, ProcessLocksFrame, UpdateRewardSolvent DEF ProcessExpiredLocks
<1>4. ASSUME NEW u \in Accounts, NEW kicker \in Accounts, KickExpiredLocks(kicker, u)
      PROVE  SolvencyOK'
  BY <1>4, ProcessLocksFrame, UpdateRewardSolvent DEF KickExpiredLocks
<1>5. ASSUME NEW u \in Accounts, EmergencyWithdraw(u) PROVE SolvencyOK'
  BY <1>5, EmergencySolvent
<1>6. ASSUME NEW u \in Accounts, NEW d \in Delegatees, Delegate(u, d) PROVE SolvencyOK'
  BY <1>6, OthersSolvent DEF Delegate, lockVars, rewardVars, tokenVars
<1>7. ASSUME NEW u \in Accounts, NEW claimed, GetReward(u, claimed) PROVE SolvencyOK'
  BY <1>7, ClaimSolvent DEF GetReward
<1>8. ASSUME NEW u \in Accounts, NEW caller, GetRewardFor(caller, u) PROVE SolvencyOK'
  BY <1>8, ClaimSolvent DEF GetRewardFor
<1>9. ASSUME NEW t \in AllTokens, NEW distributor, AddReward(t, distributor) PROVE SolvencyOK'
  BY <1>9, AddRewardSolvent
<1>10. ASSUME NEW t \in AllTokens, NEW amount, RecoverERC20(t, amount) PROVE SolvencyOK'
  BY <1>10, TokenMovesSolvent
<1>11. ASSUME NEW t \in Tokens, NEW amount, ReceiveERC20(t, amount) PROVE SolvencyOK'
  BY <1>11, TokenMovesSolvent DEF AllTokens
<1>12. ASSUME NEW t \in Tokens, NEW distributor, NEW amount, QueueNewRewards(distributor, t, amount)
       PROVE  SolvencyOK'
  BY <1>12, QueueSolvent
<1>13. ASSUME NEW t \in Tokens, NEW distributor, NEW approved,
              ApproveRewardDistributor(t, distributor, approved)
       PROVE  SolvencyOK'
  <2>1. /\ RewardExists(t)
        /\ rewardDistributors' = [rewardDistributors EXCEPT ![t] =
                              IF approved THEN @ \cup {distributor} ELSE @ \ {distributor}]
        /\ UNCHANGED <<now, balances, rewardTokens, rewardData, queuedRewards, userData, held>>
    BY <1>13 DEF ApproveRewardDistributor, lockVars, tokenVars
  <2>2. t \in rewardTokens
    <3>1. rewardData[t].lastUpdateTime # 0
      BY <2>1 DEF RewardExists
    <3> QED BY <3>1 DEF SolvencyOK, Unregistered, NoRewardData
  <2>3. \A s \in Tokens : s # t => rewardDistributors'[s] = rewardDistributors[s]
    BY <2>1 DEF IInv, RewardsOK
  <2>4. \A s \in Tokens : Solvent(s)'
    <3>1. LockedOf' = LockedOf /\ \A s : DataOf(s)' = DataOf(s)
      BY <2>1 DEF LockedOf, DataOf
    <3> QED BY <3>1, <2>1 DEF SolvencyOK, Solvent
  <2> QED BY <2>1, <2>2, <2>3, <2>4 DEF SolvencyOK, Unregistered
<1>14. CASE \/ CheckpointEpoch
            \/ \E u \in Accounts, caller \in Operators, grant \in BOOLEAN :
                 ModifyPermission(u, caller, grant)
            \/ \E u \in Accounts, blacklisted \in BOOLEAN : ModifyBlacklist(u, blacklisted)
            \/ \E setting \in KickSettings : SetKickIncentive(setting[1], setting[2])
            \/ Shutdown
            \/ UNCHANGED vars
  <2>1. UNCHANGED <<now, balances, rewardTokens, rewardData, queuedRewards, rewardDistributors, userData, held>>
    BY <1>14 DEF CheckpointEpoch, ModifyPermission, ModifyBlacklist, SetKickIncentive, Shutdown, vars,
                 lockVars, rewardVars, tokenVars
  <2> QED BY <2>1, OthersSolvent
<1> QED BY <1>1, <1>2, <1>3, <1>4, <1>5, <1>6, <1>7, <1>8, <1>9, <1>10, <1>11, <1>12, <1>13, <1>14
        DEF Next

\* The rewards an account can claim are natural numbers.
LEMMA EarnedIsNat ==
  ASSUME IInv
  PROVE  \A u \in Accounts, t \in Tokens :
           EarnedBy(u, t) \in Nat /\ userData[u][t] \in UserDataType /\ userData[u][t].rewards <= EarnedBy(u, t)
<1> SUFFICES ASSUME NEW u \in Accounts, NEW t \in Tokens
             PROVE  EarnedBy(u, t) \in Nat /\ userData[u][t] \in UserDataType /\ userData[u][t].rewards <= EarnedBy(u, t)
  OBVIOUS
<1> DEFINE perToken == RewardPerToken(rewardData[t], lockedSupply, now)
<1>1. /\ userData[u][t] \in UserDataType /\ rewardData[t] \in RewardDataType
      /\ userData[u][t].rewardPerTokenPaid <= rewardData[t].rewardPerTokenStored
      /\ lockedSupply \in Nat /\ now \in Nat /\ balances[u].locked \in Nat
  BY StreamFacts, SupplyIsNat DEF IInv, RewardsOK
<1>2. perToken \in Nat /\ rewardData[t].rewardPerTokenStored <= perToken
  <2>1. /\ Refreshed(rewardData[t], lockedSupply, now) \in RewardDataType
        /\ rewardData[t].rewardPerTokenStored <= Refreshed(rewardData[t], lockedSupply, now).rewardPerTokenStored
    BY <1>1, StreamFacts, RefreshedType
  <2> QED BY <2>1, <1>1 DEF Refreshed, RewardDataType
<1> HIDE DEF perToken
<1>3. userData[u][t].rewardPerTokenPaid <= perToken /\ userData[u][t].rewards \in Nat
      /\ userData[u][t].rewardPerTokenPaid \in Nat
  BY <1>1, <1>2 DEF UserDataType, RewardDataType
<1>4. Settled(userData[u][t], balances[u].locked, perToken) \in UserDataType
  BY <1>1, <1>2, <1>3, SettledType
<1>5. Earned(userData[u][t], balances[u].locked, perToken) \in Nat
  BY <1>4 DEF Settled, UserDataType
<1>6. (balances[u].locked * (perToken - userData[u][t].rewardPerTokenPaid)) \div Precision \in Nat
  <2>1. perToken - userData[u][t].rewardPerTokenPaid \in Nat
    BY <1>2, <1>3
  <2>2. balances[u].locked * (perToken - userData[u][t].rewardPerTokenPaid) \in Nat
    BY <2>1, <1>1, MulNat
  <2> QED BY <2>2, PrecisionAssumption
<1>7. userData[u][t].rewards <= Earned(userData[u][t], balances[u].locked, perToken)
  BY <1>3, <1>6 DEF Earned
<1> QED BY <1>1, <1>5, <1>7 DEF EarnedBy, perToken

\* Whatever has been streamed, queued, claimed, relocked, withdrawn or recovered, the
\* reward tokens in the locker cover what all accounts can claim together with what
\* waits and what the stream will still release.
THEOREM SolventStreams == Spec => []RewardSolvency
<1>1. ASSUME IInv, SolvencyOK, NEW t \in rewardTokens
      PROVE  SumTo([u \in Accounts |-> EarnedBy(u, t)], NumAccounts)
               + queuedRewards[t] + Remaining(rewardData[t], now) * rewardData[t].rewardRate <= held[t]
  <2> DEFINE e == [u \in 1..NumAccounts |-> Earned(DataOf(t)[u], LockedOf[u],
                     RewardPerToken(rewardData[t], SumTo(LockedOf, NumAccounts), now))]
  <2>1. t \in Tokens
    BY <1>1 DEF IInv, RewardsOK
  <2>2. /\ StreamFine(NumAccounts, rewardData[t], DataOf(t), queuedRewards[t], held[t], LockedOf, now)
        /\ NumAccounts \in Nat /\ now \in Nat /\ \A a \in 1..NumAccounts : LockedOf[a] \in Nat
    BY <1>1, <2>1, StreamFacts DEF SolvencyOK, Solvent
  <2>3. SumTo(e, NumAccounts) + queuedRewards[t]
          + Remaining(rewardData[t], now) * rewardData[t].rewardRate <= held[t]
    BY <2>2, DebtCoversEarned DEF StreamFine
  <2>4. [u \in Accounts |-> EarnedBy(u, t)] = e
    BY <1>1, <2>1, StreamFacts DEF EarnedBy
  <2> QED BY <2>3, <2>4
<1>2. IInv /\ SolvencyOK => RewardSolvency
  BY <1>1 DEF RewardSolvency
<1>3. Init => SolvencyOK
  BY InitSolvent
<1>4. IInv /\ [Next]_vars => IInv'
  BY NextKeepsIInv
<1>5. IInv /\ SolvencyOK /\ [Next]_vars => SolvencyOK'
  BY <1>4, NextKeepsSolvency
<1> QED BY <1>2, <1>3, <1>5, Invariance, PTL DEF Spec

----------------------------------------------------------------------------------
(* Earnings, step by step *)

\* The numbers that an account's earnings are computed from.
LEMMA EarningFacts ==
  ASSUME IInv, NEW u \in Accounts, NEW t \in Tokens
  PROVE  /\ now \in Nat /\ lockedSupply \in Nat /\ balances[u].locked \in Nat
         /\ rewardData[t] \in RewardDataType /\ userData[u][t] \in UserDataType
         /\ rewardData[t].lastUpdateTime <= now
         /\ rewardData[t].lastUpdateTime <= rewardData[t].periodFinish
         /\ RewardPerToken(rewardData[t], lockedSupply, now) \in Nat
         /\ userData[u][t].rewardPerTokenPaid <= rewardData[t].rewardPerTokenStored
         /\ userData[u][t].rewardPerTokenPaid <= RewardPerToken(rewardData[t], lockedSupply, now)
         /\ EarnedBy(u, t) = Earned(userData[u][t], balances[u].locked,
                                    RewardPerToken(rewardData[t], lockedSupply, now))
<1> DEFINE perToken == RewardPerToken(rewardData[t], lockedSupply, now)
<1>1. /\ now \in Nat /\ lockedSupply \in Nat /\ balances[u].locked \in Nat
      /\ rewardData[t] \in RewardDataType /\ userData[u][t] \in UserDataType
      /\ rewardData[t].lastUpdateTime <= now
      /\ rewardData[t].lastUpdateTime <= rewardData[t].periodFinish
      /\ userData[u][t].rewardPerTokenPaid <= rewardData[t].rewardPerTokenStored
  BY StreamFacts, SupplyIsNat DEF IInv, RewardsOK
<1>2. perToken \in Nat /\ rewardData[t].rewardPerTokenStored <= perToken
  BY <1>1, RefreshedPerToken
<1> HIDE DEF perToken
<1>3. userData[u][t].rewardPerTokenPaid <= perToken
  BY <1>1, <1>2 DEF UserDataType, RewardDataType
<1> QED BY <1>1, <1>2, <1>3 DEF EarnedBy, perToken

\* A stream that never ran has given nothing to an account that has no record of it.
LEMMA NothingEarned ==
  ASSUME NEW rd \in RewardDataType, rd.rewardRate = 0, rd.rewardPerTokenStored = 0,
         NEW supply \in Nat, NEW balance \in Nat, NEW t \in Nat
  PROVE  Earned(NoUserData, balance, RewardPerToken(rd, supply, t)) = 0
<1> DEFINE elapsed == LastTimeRewardApplicable(rd, t) - rd.lastUpdateTime
<1>1. elapsed \in Int
  BY DEF LastTimeRewardApplicable, AtMost, RewardDataType
<1>2. RewardPerToken(rd, supply, t) = 0
  <2>1. elapsed * rd.rewardRate * Precision = 0
    <3> HIDE DEF elapsed
    <3>1. elapsed * rd.rewardRate = 0
      BY <1>1
    <3> QED BY <3>1, PrecisionAssumption
  <2>2. CASE supply = 0
    BY <2>2 DEF RewardPerToken
  <2>3. CASE supply # 0
    <3>1. RewardPerToken(rd, supply, t) = 0 + (0 \div supply)
      BY <2>1, <2>3 DEF RewardPerToken
    <3> QED BY <3>1, <2>3
  <2> QED BY <2>2, <2>3
<1>3. balance * (0 - 0) = 0 /\ 0 \div Precision = 0
  BY PrecisionAssumption
<1> QED BY <1>2, <1>3 DEF Earned, NoUserData

\* Nobody has earned anything of a token that is not registered.
LEMMA UnregisteredEarns ==
  ASSUME IInv, SolvencyOK, NEW u \in Accounts, NEW t \in Tokens, t \notin rewardTokens
  PROVE  EarnedBy(u, t) = 0
<1>1. rewardData[t] = NoRewardData /\ userData[u][t] = NoUserData
  BY DEF SolvencyOK, Unregistered
<1>2. NoRewardData \in RewardDataType /\ NoRewardData.rewardRate = 0 /\ NoRewardData.rewardPerTokenStored = 0
  BY DEF NoRewardData, RewardDataType
<1>3. now \in Nat /\ lockedSupply \in Nat /\ balances[u].locked \in Nat
  BY EarningFacts
<1> HIDE DEF NoRewardData, NoUserData
<1> QED BY <1>1, <1>2, <1>3, NothingEarned DEF EarnedBy

SupplyBoundsBalances ==
  lockedSupply \in Nat /\ \A a \in Accounts : balances[a].locked \in Nat /\ balances[a].locked <= lockedSupply

NothingUnregistered == \A a \in Accounts, t \in Tokens : t \notin rewardTokens => EarnedBy(a, t) = 0

\* Both hold of the state after a step as well.
LEMMA FactsAfterStep ==
  (IInv' => SupplyBoundsBalances') /\ (IInv' /\ SolvencyOK' => NothingUnregistered')
<1>1. IInv => SupplyBoundsBalances
  BY SupplyIsNat, StreamFacts DEF SupplyBoundsBalances
<1>2. IInv /\ SolvencyOK => NothingUnregistered
  BY UnregisteredEarns DEF NothingUnregistered
<1> QED BY <1>1, <1>2, PTL

\* What the accumulator reads after updateReward, whatever the supply becomes.
LEMMA RefreshedReads ==
  ASSUME IInv, NEW t \in rewardTokens, NEW later \in Nat
  PROVE  /\ RewardPerToken(RefreshedRewards[t], later, now)
              = RewardPerToken(rewardData[t], lockedSupply, now)
         /\ RefreshedRewards[t].rewardPerTokenStored = RewardPerToken(rewardData[t], lockedSupply, now)
         /\ RefreshedRewards[t] \in RewardDataType
<1>1. t \in Tokens
  BY DEF IInv, RewardsOK
<1>2. /\ now \in Nat /\ lockedSupply \in Nat /\ rewardData[t] \in RewardDataType
      /\ rewardData[t].lastUpdateTime <= now
      /\ rewardData[t].lastUpdateTime <= rewardData[t].periodFinish
  BY <1>1, StreamFacts, SupplyIsNat
<1>3. RefreshedRewards[t] = Refreshed(rewardData[t], lockedSupply, now)
  BY <1>1 DEF RefreshedRewards
<1>4. Refreshed(rewardData[t], lockedSupply, now).rewardPerTokenStored
        = RewardPerToken(rewardData[t], lockedSupply, now)
  BY <1>2 DEF Refreshed, RewardDataType
<1> QED BY <1>2, <1>3, <1>4, RefreshedPerToken, RefreshedType

\* What updateReward stores for an account is what it has earned, and stays so
\* whatever its balance and the supply become.
LEMMA SettledHolds ==
  ASSUME IInv, NEW u \in Accounts, NEW t \in rewardTokens, NEW c \in Nat, NEW later \in Nat
  PROVE  /\ SettledRewards(u)[t].rewards = EarnedBy(u, t)
         /\ SettledRewards(u)[t].rewardPerTokenPaid = RewardPerToken(RefreshedRewards[t], later, now)
         /\ SettledRewards(u)[t] \in UserDataType
         /\ Earned(SettledRewards(u)[t], c, RewardPerToken(RefreshedRewards[t], later, now))
              = EarnedBy(u, t)
<1> DEFINE perToken == RewardPerToken(rewardData[t], lockedSupply, now)
<1>1. t \in Tokens
  BY DEF IInv, RewardsOK
<1>2. SettledRewards(u)[t] = Settled(userData[u][t], balances[u].locked, perToken)
  BY <1>1, RefreshedReads DEF SettledRewards
<1>3. RewardPerToken(RefreshedRewards[t], later, now) = perToken
  BY RefreshedReads
<1>4. /\ perToken \in Nat /\ userData[u][t] \in UserDataType /\ balances[u].locked \in Nat
      /\ userData[u][t].rewardPerTokenPaid <= perToken
      /\ EarnedBy(u, t) = Earned(userData[u][t], balances[u].locked, perToken)
  BY <1>1, EarningFacts
<1> HIDE DEF perToken
<1>5. Settled(userData[u][t], balances[u].locked, perToken) \in UserDataType
      /\ Settled(userData[u][t], balances[u].locked, perToken).rewardPerTokenPaid = perToken
  BY <1>4, SettledType
<1>6. Settled(userData[u][t], balances[u].locked, perToken).rewards = EarnedBy(u, t)
  BY <1>4 DEF Settled
<1>7. Earned(Settled(userData[u][t], balances[u].locked, perToken), c, perToken) = EarnedBy(u, t)
  BY <1>4, SettledEarns
<1> QED BY <1>2, <1>3, <1>5, <1>6, <1>7

EarningsKept == \A a \in Accounts, t \in Tokens : EarnedBy(a, t)' = EarnedBy(a, t)

\* A handler that runs updateReward on one account, and then changes the balance of
\* that account only, moves nobody's earnings.
LEMMA UpdateRewardEarns ==
  ASSUME IInv, IInv', SolvencyOK, SolvencyOK', NEW u \in Accounts, UpdateReward(u),
         \A a \in Accounts : a # u => balances'[a] = balances[a],
         UNCHANGED <<now, rewardTokens>>
  PROVE  EarningsKept
<1>1. rewardData' = RefreshedRewards /\ userData' = [userData EXCEPT ![u] = SettledRewards(u)]
  BY DEF UpdateReward
<1>2. userData \in [Accounts -> [Tokens -> UserDataType]]
  BY DEF IInv, RewardsOK
<1>3. ASSUME NEW a \in Accounts, NEW t \in Tokens PROVE EarnedBy(a, t)' = EarnedBy(a, t)
  <2>1. CASE t \notin rewardTokens
    <3>1. EarnedBy(a, t) = 0
      BY <2>1, UnregisteredEarns
    <3>2. EarnedBy(a, t)' = 0
      BY <2>1, FactsAfterStep DEF NothingUnregistered
    <3> QED BY <3>1, <3>2
  <2>2. CASE t \in rewardTokens
    <3> DEFINE later == lockedSupply'
               c == balances'[a].locked
    <3>1. later \in Nat /\ c \in Nat
      BY FactsAfterStep DEF SupplyBoundsBalances
    <3>2. EarnedBy(a, t)' = Earned(userData'[a][t], c, RewardPerToken(RefreshedRewards[t], later, now))
      BY <1>1 DEF EarnedBy
    <3> HIDE DEF later
    <3>3. CASE a = u
      <4>1. userData'[a][t] = SettledRewards(u)[t]
        BY <1>1, <1>2, <3>3
      <4> HIDE DEF c
      <4> QED BY <4>1, <2>2, <3>1, <3>2, <3>3, SettledHolds
    <3>4. CASE a # u
      <4>1. userData'[a][t] = userData[a][t] /\ c = balances[a].locked
        BY <1>1, <1>2, <3>4
      <4>2. RewardPerToken(RefreshedRewards[t], later, now) = RewardPerToken(rewardData[t], lockedSupply, now)
        BY <2>2, <3>1, RefreshedReads
      <4> QED BY <4>1, <4>2, <3>2 DEF EarnedBy
    <3> QED BY <3>3, <3>4
  <2> QED BY <2>1, <2>2
<1> QED BY <1>3 DEF EarningsKept

\* A claim pays out what has been earned, to the last unit, and moves nothing else.
LEMMA ClaimEarns ==
  ASSUME IInv, IInv', SolvencyOK, SolvencyOK', NEW u \in Accounts, NEW claimed \in SUBSET rewardTokens,
         NEW olitTo, ClaimRewards(u, claimed, olitTo)
  PROVE  \A a \in Accounts, t \in Tokens :
           IF a = u /\ t \in claimed
           THEN /\ EarnedBy(a, t)' = 0
                /\ held'[t] = held[t] - EarnedBy(u, t)
                /\ \A b \in Accounts : b = (IF t = Olit THEN olitTo ELSE u)
                     => received'[b][t] = received[b][t] + EarnedBy(u, t)
           ELSE EarnedBy(a, t)' = EarnedBy(a, t)
<1>1. /\ rewardData' = RefreshedRewards
      /\ userData' = [userData EXCEPT ![u] =
                    [t \in Tokens |-> IF t \in claimed
                                      THEN [SettledRewards(u)[t] EXCEPT !.rewards = 0]
                                      ELSE SettledRewards(u)[t]]]
      /\ \A t \in claimed : held'[t] = held[t] - SettledRewards(u)[t].rewards
      /\ \A b \in Accounts, t \in claimed :
           b = (IF t = Olit THEN olitTo ELSE u) => received'[b][t] = received[b][t] + SettledRewards(u)[t].rewards
      /\ UNCHANGED <<now, balances, lockedSupply, rewardTokens>>
  <2>1. rewardTokens \in SUBSET Tokens
    BY DEF IInv, RewardsOK
  <2> QED BY <2>1 DEF ClaimRewards, AllTokens, lockVars
<1>2. userData \in [Accounts -> [Tokens -> UserDataType]]
  BY DEF IInv, RewardsOK
<1> SUFFICES ASSUME NEW a \in Accounts, NEW t \in Tokens
             PROVE  IF a = u /\ t \in claimed
           THEN /\ EarnedBy(a, t)' = 0
                /\ held'[t] = held[t] - EarnedBy(u, t)
                /\ \A b \in Accounts : b = (IF t = Olit THEN olitTo ELSE u)
                     => received'[b][t] = received[b][t] + EarnedBy(u, t)
           ELSE EarnedBy(a, t)' = EarnedBy(a, t)
  OBVIOUS
<1>3. EarnedBy(a, t)' = Earned(userData'[a][t], balances[a].locked, RewardPerToken(RefreshedRewards[t], lockedSupply, now))
  BY <1>1 DEF EarnedBy
<1>4. lockedSupply \in Nat /\ balances[a].locked \in Nat
  BY EarningFacts
<1>5. CASE t \notin rewardTokens
  <2>1. EarnedBy(a, t) = 0
    BY <1>5, UnregisteredEarns
  <2>2. EarnedBy(a, t)' = 0
    BY <1>1, <1>5, FactsAfterStep DEF NothingUnregistered
  <2> QED BY <2>1, <2>2, <1>5
<1>6. CASE t \in rewardTokens /\ a = u /\ t \in claimed
  <2> DEFINE perToken == RewardPerToken(RefreshedRewards[t], lockedSupply, now)
  <2>1. userData'[a][t] = [SettledRewards(u)[t] EXCEPT !.rewards = 0]
    BY <1>1, <1>2, <1>6
  <2>2. /\ SettledRewards(u)[t].rewards = EarnedBy(u, t)
        /\ SettledRewards(u)[t].rewardPerTokenPaid = perToken
        /\ SettledRewards(u)[t] \in UserDataType
    BY <1>4, <1>6, SettledHolds
  <2> HIDE DEF perToken
  <2>3. userData'[a][t].rewardPerTokenPaid = perToken /\ userData'[a][t].rewards = 0 /\ perToken \in Nat
    BY <2>1, <2>2 DEF UserDataType
  <2>4. Earned(userData'[a][t], balances[a].locked, perToken) = 0
    BY <2>3, <1>4, PaidEarns
  <2> QED BY <2>2, <2>4, <1>1, <1>3, <1>6 DEF perToken
<1>7. CASE t \in rewardTokens /\ a = u /\ t \notin claimed
  <2>1. userData'[a][t] = SettledRewards(u)[t]
    BY <1>1, <1>2, <1>7
  <2> QED BY <2>1, <1>3, <1>4, <1>7, SettledHolds
<1>8. CASE t \in rewardTokens /\ a # u
  <2>1. userData'[a][t] = userData[a][t]
    BY <1>1, <1>2, <1>8
  <2>2. RewardPerToken(RefreshedRewards[t], lockedSupply, now) = RewardPerToken(rewardData[t], lockedSupply, now)
    BY <1>4, <1>8, RefreshedReads
  <2> QED BY <2>1, <2>2, <1>3, <1>8 DEF EarnedBy
<1> QED BY <1>5, <1>6, <1>7, <1>8

\* A new stream starts where the old one stands.
LEMMA QueueEarns ==
  ASSUME IInv, SolvencyOK, NEW distributor, NEW t \in Tokens, NEW amount,
         QueueNewRewards(distributor, t, amount)
  PROVE  EarningsKept
<1> DEFINE total == amount + queuedRewards[t]
<1>1. /\ amount \in 1..treasury[t] /\ distributor \in rewardDistributors[t]
      /\ \/ rewardData' = [RefreshedRewards EXCEPT ![t] = Notified(RefreshedRewards[t], total, now)]
         \/ UNCHANGED rewardData
      /\ UNCHANGED <<now, balances, lockedSupply, userData>>
  BY DEF QueueNewRewards, NotifyReward, lockVars
<1>2. rewardData' = rewardData => EarningsKept
  BY <1>1 DEF EarningsKept, EarnedBy
<1>3. t \in rewardTokens
  BY <1>1 DEF SolvencyOK, Unregistered
<1>4. total \in Nat
  <2>1. queuedRewards[t] \in Nat /\ treasury[t] \in Nat
    BY StreamFacts DEF IInv, TokensOK
  <2> QED BY <2>1, <1>1
<1> HIDE DEF total
<1>5. now \in Nat /\ lockedSupply \in Nat /\ RefreshedRewards \in [Tokens -> RewardDataType]
  <2>1. now \in Nat /\ lockedSupply \in Nat /\ RewardsOK
    BY StreamFacts, SupplyIsNat DEF IInv
  <2> QED BY <2>1, RefreshedRewardsType
<1>6. ASSUME rewardData' = [RefreshedRewards EXCEPT ![t] = Notified(RefreshedRewards[t], total, now)],
             NEW s \in Tokens
      PROVE  RewardPerToken(rewardData'[s], lockedSupply, now) = RewardPerToken(rewardData[s], lockedSupply, now)
  <2>1. CASE s = t
    <3>1. rewardData'[s] = Notified(RefreshedRewards[t], total, now)
      BY <2>1, <1>5, <1>6
    <3>2. RewardPerToken(Notified(RefreshedRewards[t], total, now), lockedSupply, now)
            = RefreshedRewards[t].rewardPerTokenStored
      BY <1>4, <1>5, NotifiedPerToken
    <3> QED BY <3>1, <3>2, <2>1, <1>3, <1>5, RefreshedReads
  <2>2. CASE s # t /\ s \in rewardTokens
    <3>1. rewardData'[s] = RefreshedRewards[s]
      BY <2>2, <1>5, <1>6
    <3> QED BY <3>1, <2>2, <1>5, RefreshedReads
  <2>3. CASE s # t /\ s \notin rewardTokens
    BY <2>3, <1>5, <1>6 DEF RefreshedRewards
  <2> QED BY <2>1, <2>2, <2>3
<1>7. rewardData' = [RefreshedRewards EXCEPT ![t] = Notified(RefreshedRewards[t], total, now)] => EarningsKept
  BY <1>1, <1>6 DEF EarningsKept, EarnedBy
<1> QED BY <1>1, <1>2, <1>7

\* Registering a token gives nobody anything.
LEMMA AddRewardEarns ==
  ASSUME IInv, IInv', SolvencyOK, NEW t \in AllTokens, NEW distributor, AddReward(t, distributor)
  PROVE  EarningsKept
<1>1. /\ ~RewardExists(t) /\ t \in Tokens
      /\ rewardData' = [rewardData EXCEPT ![t].lastUpdateTime = now, ![t].periodFinish = now]
      /\ UNCHANGED <<now, balances, lockedSupply, userData>>
  BY DEF AddReward, AllTokens, lockVars
<1>2. rewardData \in [Tokens -> RewardDataType] /\ rewardData' \in [Tokens -> RewardDataType]
  BY DEF IInv, RewardsOK
<1>3. Unregistered(t) /\ t \notin rewardTokens
  <2>1. ~(rewardData[t].lastUpdateTime > 0)
    BY <1>1 DEF RewardExists
  <2> QED BY <2>1, <1>1 DEF SolvencyOK
<1>4. rewardData'[t].rewardRate = 0 /\ rewardData'[t].rewardPerTokenStored = 0
  BY <1>1, <1>2, <1>3 DEF Unregistered, NoRewardData
<1>5. ASSUME NEW a \in Accounts PROVE EarnedBy(a, t)' = EarnedBy(a, t)
  <2> DEFINE rd == rewardData'[t]
  <2>1. EarnedBy(a, t)' = Earned(NoUserData, balances[a].locked, RewardPerToken(rd, lockedSupply, now))
    BY <1>1, <1>3 DEF EarnedBy, Unregistered
  <2>2. now \in Nat /\ lockedSupply \in Nat /\ balances[a].locked \in Nat
    BY <1>1, EarningFacts
  <2>3. rd \in RewardDataType /\ rd.rewardRate = 0 /\ rd.rewardPerTokenStored = 0
    BY <1>1, <1>2, <1>4
  <2> HIDE DEF rd
  <2>4. Earned(NoUserData, balances[a].locked, RewardPerToken(rd, lockedSupply, now)) = 0
    BY <2>2, <2>3, NothingEarned
  <2>5. EarnedBy(a, t) = 0
    BY <1>1, <1>3, UnregisteredEarns
  <2> QED BY <2>1, <2>4, <2>5
<1>6. ASSUME NEW a \in Accounts, NEW s \in Tokens, s # t PROVE EarnedBy(a, s)' = EarnedBy(a, s)
  BY <1>1, <1>2, <1>6 DEF EarnedBy
<1> QED BY <1>5, <1>6 DEF EarningsKept

\* Time only adds to what is earned.
LEMMA TickEarns ==
  ASSUME IInv, Tick
  PROVE  \A a \in Accounts, t \in Tokens : EarnedBy(a, t) <= EarnedBy(a, t)'
<1> SUFFICES ASSUME NEW a \in Accounts, NEW t \in Tokens PROVE EarnedBy(a, t) <= EarnedBy(a, t)'
  OBVIOUS
<1>1. now' = now + 1 /\ UNCHANGED <<lockedSupply, balances, userData, rewardData>>
  BY DEF Tick, lockVars, rewardVars
<1> DEFINE p == RewardPerToken(rewardData[t], lockedSupply, now)
           q == RewardPerToken(rewardData[t], lockedSupply, now + 1)
<1>2. EarnedBy(a, t) = Earned(userData[a][t], balances[a].locked, p)
      /\ EarnedBy(a, t)' = Earned(userData[a][t], balances[a].locked, q)
  BY <1>1 DEF EarnedBy
<1>3. p \in Nat /\ userData[a][t].rewardPerTokenPaid <= p /\ userData[a][t] \in UserDataType
      /\ balances[a].locked \in Nat
      /\ now \in Nat /\ lockedSupply \in Nat /\ rewardData[t] \in RewardDataType
      /\ rewardData[t].lastUpdateTime <= now /\ rewardData[t].lastUpdateTime <= rewardData[t].periodFinish
  BY EarningFacts
<1>4. now + 1 \in Nat /\ now <= now + 1 /\ rewardData[t].lastUpdateTime <= now + 1
  BY <1>3 DEF RewardDataType
<1>5. q \in Nat
  BY <1>3, <1>4, RefreshedPerToken
<1>6. p <= q
  BY <1>3, <1>4, PerTokenGrows
<1> HIDE DEF p, q
<1> QED BY <1>2, <1>3, <1>5, <1>6, EarnedGrows

\* When an account leaves by emergencyWithdraw the others lose nothing.
LEMMA EmergencyEarns ==
  ASSUME IInv, IInv', NEW u \in Accounts, EmergencyWithdraw(u)
  PROVE  \A a \in Accounts, t \in Tokens : a # u => EarnedBy(a, t) <= EarnedBy(a, t)'
<1> SUFFICES ASSUME NEW a \in Accounts, NEW t \in Tokens, a # u PROVE EarnedBy(a, t) <= EarnedBy(a, t)'
  OBVIOUS
<1>1. /\ balances' = [balances EXCEPT ![u] = [locked |-> 0, nextUnlockIndex |-> Len(userLocks[u])]]
      /\ lockedSupply' = lockedSupply - balances[u].locked
      /\ UNCHANGED <<now, userData, rewardData>>
  BY DEF EmergencyWithdraw, rewardVars
<1>2. balances \in [Accounts -> Balances] /\ balances'[a] = balances[a]
  BY <1>1 DEF IInv, LocksOK, BalancesMatch
<1> DEFINE less == lockedSupply'
           p == RewardPerToken(rewardData[t], lockedSupply, now)
           q == RewardPerToken(rewardData[t], less, now)
<1>3. EarnedBy(a, t) = Earned(userData[a][t], balances[a].locked, p)
      /\ EarnedBy(a, t)' = Earned(userData[a][t], balances[a].locked, q)
  BY <1>1, <1>2 DEF EarnedBy
<1>4. p \in Nat /\ userData[a][t].rewardPerTokenPaid <= p /\ userData[a][t] \in UserDataType
      /\ userData[a][t].rewardPerTokenPaid <= rewardData[t].rewardPerTokenStored
      /\ balances[a].locked \in Nat /\ balances[u].locked \in Nat
      /\ now \in Nat /\ lockedSupply \in Nat /\ rewardData[t] \in RewardDataType
      /\ rewardData[t].lastUpdateTime <= now /\ rewardData[t].lastUpdateTime <= rewardData[t].periodFinish
  BY EarningFacts
<1>5. less \in Nat /\ balances[a].locked <= less
  BY <1>2, FactsAfterStep DEF SupplyBoundsBalances
<1>6. less <= lockedSupply
  BY <1>1, <1>4, <1>5
<1> HIDE DEF less, p, q
<1>7. CASE less = 0
  <2>1. balances[a].locked = 0
    BY <1>4, <1>5, <1>7
  <2>2. q \in Nat /\ userData[a][t].rewardPerTokenPaid <= q
    <3>1. q = rewardData[t].rewardPerTokenStored
      BY <1>7 DEF RewardPerToken, q
    <3> QED BY <3>1, <1>4 DEF RewardDataType
  <2>3. \A x \in Int : (0 * x) \div Precision = 0
    <3>1. \A x \in Int : 0 * x = 0
      OBVIOUS
    <3> QED BY <3>1, PrecisionAssumption
  <2>4. p - userData[a][t].rewardPerTokenPaid \in Int /\ q - userData[a][t].rewardPerTokenPaid \in Int
        /\ userData[a][t].rewards \in Nat
    BY <2>2, <1>4 DEF UserDataType
  <2> QED BY <2>1, <2>3, <2>4, <1>3 DEF Earned
<1>8. CASE less > 0
  <2>1. p <= q
    BY <1>4, <1>5, <1>6, <1>8, PerTokenGrows DEF p, q
  <2>2. q \in Nat
    BY <1>4, <1>5, RefreshedPerToken DEF q
  <2> QED BY <2>1, <2>2, <1>3, <1>4, EarnedGrows
<1> QED BY <1>5, <1>7, <1>8

EarnedNat == \A a \in Accounts, t \in Tokens : EarnedBy(a, t) \in Nat

\* Earnings are natural numbers after a step as well.
LEMMA EarnedAfterStep == IInv' => EarnedNat'
<1>1. IInv => EarnedNat
  BY EarnedIsNat DEF EarnedNat
<1> QED BY <1>1, PTL

\* What a step may do to earnings: time adds to them, emergencyWithdraw gives up the
\* unsettled ones of the account that leaves, a claim pays out those of the account
\* that claims or let its caller claim, and nothing else moves them.
EarningsMove ==
  \/ Tick
  \/ \E u \in Accounts : EmergencyWithdraw(u)
  \/ \E u \in Accounts, claimed \in SUBSET rewardTokens, olitTo \in Accounts :
       /\ ClaimRewards(u, claimed, olitTo)
       /\ olitTo # u => <<u, olitTo>> \in permitted
  \/ now' = now /\ EarningsKept

\* Every step of the locker makes one of those moves.
LEMMA EarningsStep == IInv /\ IInv' /\ SolvencyOK /\ SolvencyOK' /\ [Next]_vars => EarningsMove
<1> SUFFICES ASSUME IInv, IInv', SolvencyOK, SolvencyOK', [Next]_vars PROVE EarningsMove
  OBVIOUS
<1>1. CASE Tick
  BY <1>1 DEF EarningsMove
<1>2. ASSUME NEW u \in Accounts, NEW sender \in Accounts, NEW amount, Lock(sender, u, amount)
      PROVE  EarningsMove
  <2>1. balances \in [Accounts -> Balances]
    BY DEF IInv, LocksOK, BalancesMatch
  <2>2. balances' = [balances EXCEPT ![u].locked = @ + amount]
    BY <1>2 DEF Lock, LockTokens
  <2>3. \A a \in Accounts : a # u => balances'[a] = balances[a]
    BY <2>1, <2>2
  <2>4. UpdateReward(u) /\ UNCHANGED <<now, rewardTokens>>
    BY <1>2 DEF Lock
  <2> QED BY <2>3, <2>4, UpdateRewardEarns DEF EarningsMove
<1>3. ASSUME NEW u \in Accounts, NEW relock \in BOOLEAN, ProcessExpiredLocks(u, relock)
      PROVE  EarningsMove
  BY <1>3, ProcessLocksFrame, UpdateRewardEarns DEF ProcessExpiredLocks, EarningsMove
<1>4. ASSUME NEW u \in Accounts, NEW kicker \in Accounts, KickExpiredLocks(kicker, u)
      PROVE  EarningsMove
  BY <1>4, ProcessLocksFrame, UpdateRewardEarns DEF KickExpiredLocks, EarningsMove
<1>5. ASSUME NEW u \in Accounts, EmergencyWithdraw(u) PROVE EarningsMove
  BY <1>5 DEF EarningsMove
<1>6. ASSUME NEW u \in Accounts, NEW d \in Delegatees, Delegate(u, d) PROVE EarningsMove
  BY <1>6 DEF Delegate, lockVars, rewardVars, EarningsMove, EarningsKept, EarnedBy
<1>7. ASSUME NEW u \in Accounts, NEW claimed, GetReward(u, claimed) PROVE EarningsMove
  BY <1>7 DEF GetReward, EarningsMove
<1>8. ASSUME NEW u \in Accounts, NEW caller \in Operators \cup {u}, GetRewardFor(caller, u) PROVE EarningsMove
  <2>1. caller \in Accounts /\ rewardTokens \in SUBSET rewardTokens
    BY AccountsAssumption
  <2> QED BY <2>1, <1>8 DEF GetRewardFor, HasPermission, EarningsMove
<1>9. ASSUME NEW t \in AllTokens, NEW distributor, AddReward(t, distributor) PROVE EarningsMove
  BY <1>9, AddRewardEarns DEF EarningsMove, AddReward
<1>10. ASSUME NEW t \in Tokens, NEW distributor, NEW amount, QueueNewRewards(distributor, t, amount)
       PROVE  EarningsMove
  BY <1>10, QueueEarns DEF EarningsMove, QueueNewRewards
<1>11. CASE \/ \E t \in AllTokens : \E amount \in 1..held[t] : RecoverERC20(t, amount)
            \/ \E t \in Tokens : \E amount \in 1..treasury[t] : ReceiveERC20(t, amount)
            \/ \E t \in Tokens, distributor \in Distributors, approved \in BOOLEAN :
                 ApproveRewardDistributor(t, distributor, approved)
            \/ CheckpointEpoch
            \/ \E u \in Accounts, caller \in Operators, grant \in BOOLEAN :
                 ModifyPermission(u, caller, grant)
            \/ \E u \in Accounts, blacklisted \in BOOLEAN : ModifyBlacklist(u, blacklisted)
            \/ \E setting \in KickSettings : SetKickIncentive(setting[1], setting[2])
            \/ Shutdown
            \/ UNCHANGED vars
  <2>1. UNCHANGED <<now, balances, lockedSupply, rewardData, userData>>
    BY <1>11 DEF RecoverERC20, ReceiveERC20, ApproveRewardDistributor, CheckpointEpoch, ModifyPermission,
                 ModifyBlacklist, SetKickIncentive, Shutdown, vars, lockVars, rewardVars
  <2> QED BY <2>1 DEF EarningsMove, EarningsKept, EarnedBy
<1> QED BY <1>1, <1>2, <1>3, <1>4, <1>5, <1>6, <1>7, <1>8, <1>9, <1>10, <1>11 DEF Next

\* The streams stay solvent along every behaviour.
THEOREM StreamInvariance == Spec => [](IInv /\ SolvencyOK)
<1>1. Init => IInv /\ SolvencyOK
  BY InitIInv, InitSolvent
<1>2. IInv /\ SolvencyOK /\ [Next]_vars => (IInv /\ SolvencyOK)'
  BY NextKeepsIInv, NextKeepsSolvency
<1> QED BY <1>1, <1>2, PTL DEF Spec

\* Until a shutdown no transaction, be it a lock, a relock, a withdrawal, a claim, a
\* new stream, a top-up or the first lock after an empty spell, makes anyone's
\* earnings jump: only the clock does.
THEOREM NothingRetroactive == Spec => NoRetroactiveRewards
<1>1. ASSUME IInv, IInv', SolvencyOK, SolvencyOK', [Next]_vars, now' = now, ~isShutdown,
             NEW a \in Accounts, NEW t \in Tokens
      PROVE  EarnedBy(a, t)' <= EarnedBy(a, t)
  <2>1. EarnedBy(a, t) \in Nat /\ now \in Nat
    BY <1>1, EarnedIsNat, StreamFacts
  <2>2. ~Tick /\ \A u \in Accounts : ~EmergencyWithdraw(u)
    BY <1>1, <2>1 DEF Tick, EmergencyWithdraw
  <2>3. CASE EarningsKept
    BY <2>1, <2>3 DEF EarningsKept
  <2>4. ASSUME NEW u \in Accounts, NEW claimed \in SUBSET rewardTokens, NEW olitTo \in Accounts,
               ClaimRewards(u, claimed, olitTo)
        PROVE  EarnedBy(a, t)' <= EarnedBy(a, t)
    <3>1. EarnedBy(a, t)' = 0 \/ EarnedBy(a, t)' = EarnedBy(a, t)
      BY <1>1, <2>4, ClaimEarns
    <3> QED BY <2>1, <3>1
  <2> QED BY <1>1, <2>2, <2>3, <2>4, EarningsStep DEF EarningsMove
<1>2. IInv /\ SolvencyOK /\ IInv' /\ SolvencyOK' /\ [Next]_vars
        => [now' = now /\ ~isShutdown =>
              \A u \in Accounts, t \in Tokens : EarnedBy(u, t)' <= EarnedBy(u, t)]_vars
  BY <1>1
<1> QED BY <1>2, StreamInvariance, PTL DEF Spec, NoRetroactiveRewards

\* What an account has earned shrinks only by being paid out in full, or when the
\* account itself leaves by emergencyWithdraw after a shutdown.
THEOREM EarningsAreKept == Spec => AccruedRewardsKept
<1>1. ASSUME IInv, IInv', SolvencyOK, SolvencyOK', [Next]_vars, NEW a \in Accounts, NEW t \in Tokens
      PROVE  \/ EarnedBy(a, t)' >= EarnedBy(a, t)
             \/ EarnedBy(a, t)' = 0 /\ held[t] - held'[t] = EarnedBy(a, t)
             \/ isShutdown /\ balances'[a].locked = 0 /\ userData' = userData
  <2>1. EarnedBy(a, t) \in Nat /\ held[t] \in Nat
    BY <1>1, EarnedIsNat, StreamFacts
  <2>2. CASE EarningsKept
    BY <2>1, <2>2 DEF EarningsKept
  <2>3. CASE Tick
    BY <1>1, <2>3, TickEarns
  <2>4. ASSUME NEW u \in Accounts, NEW claimed \in SUBSET rewardTokens, NEW olitTo \in Accounts,
               ClaimRewards(u, claimed, olitTo)
        PROVE  \/ EarnedBy(a, t)' >= EarnedBy(a, t)
               \/ EarnedBy(a, t)' = 0 /\ held[t] - held'[t] = EarnedBy(a, t)
    <3>1. \/ EarnedBy(a, t)' = 0 /\ held'[t] = held[t] - EarnedBy(a, t)
          \/ EarnedBy(a, t)' = EarnedBy(a, t)
      BY <1>1, <2>4, ClaimEarns
    <3> QED BY <2>1, <3>1
  <2>5. ASSUME NEW u \in Accounts, EmergencyWithdraw(u)
        PROVE  \/ EarnedBy(a, t)' >= EarnedBy(a, t)
               \/ isShutdown /\ balances'[a].locked = 0 /\ userData' = userData
    <3>1. CASE a = u
      <4>1. balances \in [Accounts -> Balances]
        BY <1>1 DEF IInv, LocksOK, BalancesMatch
      <4> QED BY <2>5, <3>1, <4>1 DEF EmergencyWithdraw, rewardVars
    <3>2. CASE a # u
      BY <1>1, <2>5, <3>2, EmergencyEarns
    <3> QED BY <3>1, <3>2
  <2> QED BY <1>1, <2>2, <2>3, <2>4, <2>5, EarningsStep DEF EarningsMove
<1>2. IInv /\ SolvencyOK /\ IInv' /\ SolvencyOK' /\ [Next]_vars
        => [\A u \in Accounts, t \in Tokens :
              \/ EarnedBy(u, t)' >= EarnedBy(u, t)
              \/ EarnedBy(u, t)' = 0 /\ held[t] - held'[t] = EarnedBy(u, t)
              \/ isShutdown /\ balances'[u].locked = 0 /\ userData' = userData]_vars
  BY <1>1
<1> QED BY <1>2, StreamInvariance, PTL DEF Spec, AccruedRewardsKept

\* Whoever's earnings shrink while the locker runs has them paid out, to itself or,
\* oLIT only, to a caller it has permitted.
THEOREM ClaimsArrive == Spec => ClaimsReachOwner
<1>1. ASSUME IInv, IInv', SolvencyOK, SolvencyOK', [Next]_vars, ~isShutdown,
             NEW u \in Accounts, NEW t \in Tokens, EarnedBy(u, t)' < EarnedBy(u, t)
      PROVE  \E a \in Accounts :
               /\ received'[a][t] = received[a][t] + EarnedBy(u, t)
               /\ a # u => t = Olit /\ <<u, a>> \in permitted
  <2>1. EarnedBy(u, t) \in Nat
    BY <1>1, EarnedIsNat
  <2>2. ~EarningsKept /\ \A a \in Accounts : ~EmergencyWithdraw(a)
    BY <1>1, <2>1 DEF EarningsKept, EmergencyWithdraw
  <2>3. ~Tick
    <3>1. ASSUME Tick PROVE FALSE
      <4>1. EarnedBy(u, t) <= EarnedBy(u, t)' /\ UNCHANGED <<balances, userData, rewardData, lockedSupply>>
        BY <1>1, <3>1, TickEarns DEF Tick, lockVars, rewardVars
      <4>2. EarnedBy(u, t)' \in Int
        <5>1. IInv' => (\A a \in Accounts, s \in Tokens : EarnedBy(a, s)' \in Nat)
          BY EarnedAfterStep DEF EarnedNat
        <5> QED BY <1>1, <5>1
      <4> QED BY <1>1, <2>1, <4>1, <4>2
    <3> QED BY <3>1
  <2>4. PICK v \in Accounts, claimed \in SUBSET rewardTokens, olitTo \in Accounts :
          ClaimRewards(v, claimed, olitTo) /\ (olitTo # v => <<v, olitTo>> \in permitted)
    BY <1>1, <2>2, <2>3, EarningsStep DEF EarningsMove
  <2>5. v = u /\ t \in claimed
    BY <1>1, <2>1, <2>4, ClaimEarns
  <2> DEFINE payee == IF t = Olit THEN olitTo ELSE u
  <2>6. payee \in Accounts /\ received'[payee][t] = received[payee][t] + EarnedBy(u, t)
    BY <1>1, <2>4, <2>5, ClaimEarns
  <2>7. payee # u => t = Olit /\ <<u, payee>> \in permitted
    BY <2>4, <2>5
  <2> QED BY <2>6, <2>7
<1>2. IInv /\ SolvencyOK /\ IInv' /\ SolvencyOK' /\ [Next]_vars
        => [~isShutdown =>
              \A u \in Accounts, t \in Tokens :
                EarnedBy(u, t)' < EarnedBy(u, t) =>
                  \E a \in Accounts :
                    /\ received'[a][t] = received[a][t] + EarnedBy(u, t)
                    /\ a # u => t = Olit /\ <<u, a>> \in permitted]_vars
  BY <1>1
<1> QED BY <1>2, StreamInvariance, PTL DEF Spec, ClaimsReachOwner

----------------------------------------------------------------------------------
(* What a transaction does to locks, votes and staking tokens *)

\* What _processExpiredLocks takes out of u: the locks up to `next`, which have expired
\* by `expiry` one by one, or are all taken because the newest has, or after a shutdown.
Processed(u, relock, rewardAddress, delay, amount, reward, next) ==
  LET locks  == userLocks[u]
      first  == balances[u].nextUnlockIndex
      expiry == IF relock THEN now + RewardsDuration ELSE now - delay
      bals   == [balances EXCEPT ![u] = [locked |-> @.locked - amount, nextUnlockIndex |-> next]]
      d      == delegates[u]
      ckpts  == IF d = NoOne THEN checkpointedVotes
                ELSE [checkpointedVotes EXCEPT
                        ![d] = CheckpointDelegate(@, delegateeUnlocks[d], 0, 0)]
      returned == IF relock THEN 0 ELSE amount - reward
  IN
  /\ amount > 0 /\ amount <= balances[u].locked /\ amount <= lockedSupply
  /\ first < next /\ next <= Len(locks)
  /\ amount = LockSum(locks, first, next)
  /\ \/ isShutdown /\ next = Len(locks)
     \/ locks[Len(locks)].unlockTime <= expiry /\ next = Len(locks)
     \/ \A i \in (first + 1)..next : locks[i].unlockTime <= expiry
  /\ delay > 0 => \E i \in (first + 1)..Len(locks) : locks[i].unlockTime <= now - delay
  /\ delay = 0 => reward = 0
  /\ reward <= amount /\ returned \in Nat
  /\ d # NoOne => CanCheckpoint(checkpointedVotes[d], delegateeUnlocks[d], 0, 0)
  /\ wallet' = [a \in Accounts |-> wallet[a] + (IF a = rewardAddress THEN reward ELSE 0)
                                             + (IF a = u THEN returned ELSE 0)]
  /\ held' = [held EXCEPT ![StakingToken] = @ - reward - returned]
  /\ \/ relock /\ LockTokens(rewardAddress, u, amount, bals, lockedSupply - amount, ckpts)
     \/ /\ ~relock /\ balances' = bals /\ lockedSupply' = lockedSupply - amount
        /\ checkpointedVotes' = ckpts
        /\ UNCHANGED <<epochs, userLocks, delegateeUnlocks>>
  /\ UNCHANGED <<now, delegates, isShutdown>>

\* An account's locks and where its live ones start.
LEMMA LockFacts ==
  ASSUME IInv, NEW u \in Accounts
  PROVE  /\ userLocks[u] \in Seq(LockedBalance) /\ Len(userLocks[u]) \in Nat
         /\ balances[u] \in Balances /\ balances[u].locked \in Nat
         /\ balances[u].nextUnlockIndex \in 0..Len(userLocks[u])
         /\ balances[u].locked = LockSum(userLocks[u], balances[u].nextUnlockIndex, Len(userLocks[u]))
         /\ \A i \in 1..Len(userLocks[u]) : /\ userLocks[u][i] \in LockedBalance
              /\ userLocks[u][i].amount \in Nat
              /\ userLocks[u][i].unlockTime \in Weeks /\ userLocks[u][i].unlockTime \in Nat
         /\ now \in StartTime..MaxTime /\ now \in Nat /\ RewardsDuration \in Nat /\ RewardsDuration > 0
<1>1. /\ userLocks[u] \in Seq(LockedBalance) /\ balances[u] \in Balances
      /\ balances[u].nextUnlockIndex <= Len(userLocks[u])
      /\ balances[u].locked = LockSum(userLocks[u], balances[u].nextUnlockIndex, Len(userLocks[u]))
  BY DEF IInv, LocksOK, BalancesMatch
<1>2. ASSUME NEW i \in 1..Len(userLocks[u])
      PROVE  /\ userLocks[u][i] \in LockedBalance /\ userLocks[u][i].amount \in Nat
             /\ userLocks[u][i].unlockTime \in Weeks /\ userLocks[u][i].unlockTime \in Nat
  <2>1. userLocks[u][i] \in LockedBalance
    BY <1>1
  <2> QED BY <2>1, WeekIsNat DEF LockedBalance
<1> QED BY <1>1, <1>2, TimeAssumption, RewardsDurationAssumption DEF Balances, IInv, AdminOK

\* Whatever _processExpiredLocks does to an account fits that description.
LEMMA ProcessedStep ==
  ASSUME IInv, NEW u \in Accounts, NEW relock \in BOOLEAN, NEW rewardAddress \in Accounts,
         NEW delay \in Nat, relock => delay = 0,
         ProcessLocks(u, relock, rewardAddress, delay)
  PROVE  \E amount \in Nat, reward \in Nat, next \in Nat :
           Processed(u, relock, rewardAddress, delay, amount, reward, next)
<1> DEFINE locks    == userLocks[u]
           len      == Len(locks)
           first    == balances[u].nextUnlockIndex
           expiry   == IF delay = 0 /\ relock THEN now + RewardsDuration ELSE now - delay
           bundled  == isShutdown \/ locks[len].unlockTime <= expiry
           next     == IF bundled THEN len ELSE LastExpired(u, expiry)
           amount   == IF bundled THEN balances[u].locked ELSE LockSum(locks, first, next)
           reward   == IF delay = 0 THEN 0
                       ELSE IF bundled THEN KickReward(amount, locks[len].unlockTime, delay)
                       ELSE KickRewards(locks, first, next, delay)
           bals     == [balances EXCEPT ![u] = [locked |-> @.locked - amount, nextUnlockIndex |-> next]]
           d        == delegates[u]
           ckpts    == IF d = NoOne THEN checkpointedVotes
                       ELSE [checkpointedVotes EXCEPT
                               ![d] = CheckpointDelegate(@, delegateeUnlocks[d], 0, 0)]
           returned == IF relock THEN 0 ELSE amount - reward
<1>1. /\ delay <= now
      /\ len > 0
      /\ bundled /\ delay > 0 => locks[len].unlockTime <= WeekStart(now - delay)
      /\ amount > 0
      /\ amount <= balances[u].locked /\ amount <= lockedSupply
      /\ d # NoOne => CanCheckpoint(checkpointedVotes[d], delegateeUnlocks[d], 0, 0)
      /\ reward <= amount
      /\ reward + returned <= held[StakingToken]
      /\ held' = [held EXCEPT ![StakingToken] = @ - reward - returned]
      /\ wallet' = [a \in Accounts |-> wallet[a] + (IF a = rewardAddress THEN reward ELSE 0)
                                                + (IF a = u THEN returned ELSE 0)]
      /\ UNCHANGED <<now, delegates, isShutdown>>
  BY DEF ProcessLocks, adminVars
<1>2. \/ /\ relock
         /\ LockTokens(rewardAddress, u, amount, bals, lockedSupply - amount, ckpts)
      \/ /\ ~relock
         /\ balances' = bals
         /\ lockedSupply' = lockedSupply - amount
         /\ checkpointedVotes' = ckpts
         /\ UNCHANGED <<epochs, userLocks, delegateeUnlocks>>
  BY DEF ProcessLocks
<1>3. /\ now \in Nat /\ now \in StartTime..MaxTime /\ delay \in 0..now
      /\ RewardsDuration \in Nat /\ AdminOK /\ LocksOK
      /\ locks \in Seq(LockedBalance) /\ len \in Nat
      /\ first \in 0..len /\ balances[u].locked = LockSum(locks, first, len)
  BY <1>1, LockFacts DEF IInv
<1>4. expiry \in Int /\ expiry = IF relock THEN now + RewardsDuration ELSE now - delay
  BY <1>3
<1> HIDE DEF expiry
<1>5. ~bundled => /\ next \in first..len
                  /\ \A i \in (first + 1)..next : locks[i].unlockTime <= expiry
  BY <1>3, LastExpiredRun
<1>6. amount = LockSum(locks, first, next) /\ next \in first..len
  BY <1>3, <1>5
<1>7. amount \in Nat /\ first # next
  <2>1. LockSum(locks, first, first) = 0 /\ LockSum(locks, first, next) \in Int
    <3>1. locks \in Seq(LockedBalance) /\ first \in 0..Len(locks) /\ next \in 0..Len(locks)
      BY <1>3, <1>6
    <3> HIDE DEF locks, first, next
    <3> QED BY <3>1, LockSumSplit
  <2> HIDE DEF amount, next
  <2> QED BY <2>1, <1>1, <1>6
<1>8. /\ \/ isShutdown /\ next = len
         \/ locks[len].unlockTime <= expiry /\ next = len
         \/ \A i \in (first + 1)..next : locks[i].unlockTime <= expiry
      /\ first < next /\ next <= len /\ next \in Nat
  BY <1>3, <1>5, <1>6, <1>7
<1>9. delay > 0 => \E i \in (first + 1)..len : locks[i].unlockTime <= now - delay
  <2> SUFFICES ASSUME delay > 0 PROVE \E i \in (first + 1)..len : locks[i].unlockTime <= now - delay
    OBVIOUS
  <2>1. expiry = now - delay
    BY <1>4
  <2>2. CASE bundled
    <3>1. locks[len].unlockTime <= WeekStart(now - delay) /\ len \in (first + 1)..len
      BY <2>2, <1>1, <1>3, <1>8
    <3>2. WeekStart(now - delay) <= now - delay /\ WeekStart(now - delay) \in Int
      <4> DEFINE t == now - delay
      <4>1. t \in Nat
        BY <1>3
      <4> HIDE DEF t
      <4>2. t \div RewardsDuration \in Nat /\ RewardsDuration * (t \div RewardsDuration) <= t
        BY <4>1, RewardsDurationAssumption, DivRoundsDown
      <4>3. (t \div RewardsDuration) * RewardsDuration = RewardsDuration * (t \div RewardsDuration)
        BY <4>2, RewardsDurationAssumption
      <4>4. (t \div RewardsDuration) * RewardsDuration \in Int
        BY <4>2, RewardsDurationAssumption
      <4> QED BY <4>2, <4>3, <4>4 DEF WeekStart, t
    <3>3. locks[len].unlockTime \in Nat
      BY <3>1, <1>3, LockFacts
    <3>4. now - delay \in Int
      BY <1>3
    <3>5. locks[len].unlockTime <= now - delay
      BY <3>1, <3>2, <3>3, <3>4
    <3> QED BY <3>1, <3>5
  <2>3. CASE ~bundled
    <3>1. first + 1 \in (first + 1)..next /\ first + 1 \in (first + 1)..len
      BY <1>3, <1>8
    <3>2. locks[first + 1].unlockTime <= expiry
      BY <3>1, <2>3, <1>5
    <3> QED BY <3>1, <3>2, <2>1
  <2> QED BY <2>2, <2>3
<1>10. reward \in Nat
  <2>1. CASE delay = 0
    BY <2>1
  <2>2. CASE delay # 0 /\ bundled
    <3>1. len \in 1..len
      BY <1>1, <1>3
    <3>2. locks[len].unlockTime \in Weeks
      BY <3>1, LockFacts
    <3>3. locks[len].unlockTime <= WeekStart(now - delay)
      BY <1>1, <1>3, <2>2
    <3>4. KickReward(amount, locks[len].unlockTime, delay) \in Nat
      <4> HIDE DEF amount
      <4> QED BY <1>3, <1>7, <3>2, <3>3, KickRewardType
    <3> QED BY <2>2, <3>4
  <2>3. CASE delay # 0 /\ ~bundled
    <3>1. first \in 0..len /\ next \in first..len
          /\ \A i \in (first + 1)..next : locks[i].unlockTime <= now - delay
      BY <2>3, <1>3, <1>4, <1>5
    <3>2. KickRewards(locks, first, next, delay) \in Nat
      <4> HIDE DEF locks, first, next
      <4> QED BY <1>3, <3>1, KickRewardsType
    <3> QED BY <2>3, <3>2
  <2> QED BY <2>1, <2>2, <2>3
<1>11. returned \in Nat /\ (delay = 0 => reward = 0)
  <2>1. delay = 0 => reward = 0
    OBVIOUS
  <2>2. reward <= amount
    BY <1>1
  <2> HIDE DEF amount, reward
  <2> QED BY <2>1, <2>2, <1>7, <1>10
<1> HIDE DEF bundled, next, amount, reward
<1>12. Processed(u, relock, rewardAddress, delay, amount, reward, next)
  BY <1>1, <1>2, <1>4, <1>6, <1>8, <1>9, <1>11 DEF Processed
<1> QED BY <1>7, <1>8, <1>10, <1>12

\* The kinds of step, as far as locks, votes and staking tokens are concerned.
LocksMove ==
  \/ Tick
  \/ \E u \in Accounts, sender \in Accounts, amount \in Nat : Lock(sender, u, amount)
  \/ \E u \in Accounts, relock \in BOOLEAN, rewardAddress \in Accounts, delay \in Nat,
        amount \in Nat, reward \in Nat, next \in Nat :
       /\ Processed(u, relock, rewardAddress, delay, amount, reward, next)
       /\ delay = 0 \/ (delay = RewardsDuration * kickRewardEpochDelay /\ ~relock)
       /\ delay = 0 => rewardAddress = u
  \/ \E u \in Accounts : EmergencyWithdraw(u)
  \/ \E u \in Accounts, d \in Delegatees : Delegate(u, d)
  \/ CheckpointEpoch
  \/ /\ UNCHANGED <<now, lockVars, voteVars, wallet>> /\ held'[StakingToken] = held[StakingToken]
     /\ isShutdown => isShutdown'

\* Every transaction is one of them.
LEMMA LocksStep == IInv /\ [Next]_vars => LocksMove
<1> SUFFICES ASSUME IInv, [Next]_vars PROVE LocksMove
  OBVIOUS
<1>1. CASE Tick
  BY <1>1 DEF LocksMove
<1>2. ASSUME NEW u \in Accounts, NEW sender \in Accounts, NEW amount \in 1..wallet[sender],
             Lock(sender, u, amount)
      PROVE  LocksMove
  <2>1. wallet[sender] \in Nat
    BY DEF IInv, TokensOK
  <2>2. amount \in Nat
    BY <2>1
  <2> QED BY <2>2, <1>2 DEF LocksMove
<1>3. ASSUME NEW u \in Accounts, NEW relock \in BOOLEAN, ProcessExpiredLocks(u, relock)
      PROVE  LocksMove
  <2>1. PICK amount \in Nat, reward \in Nat, next \in Nat : Processed(u, relock, u, 0, amount, reward, next)
    BY <1>3, ProcessedStep DEF ProcessExpiredLocks
  <2> DEFINE delay == 0
  <2>2. /\ Processed(u, relock, u, delay, amount, reward, next)
        /\ delay \in Nat /\ delay = 0
    BY <2>1
  <2> HIDE DEF delay
  <2> QED BY <2>2 DEF LocksMove
<1>4. ASSUME NEW u \in Accounts, NEW kicker \in Accounts, KickExpiredLocks(kicker, u)
      PROVE  LocksMove
  <2> DEFINE delay == RewardsDuration * kickRewardEpochDelay
  <2>1. delay \in Nat /\ delay # 0
    BY RewardsDurationAssumption DEF IInv, AdminOK
  <2>2. ProcessLocks(u, FALSE, kicker, delay) /\ FALSE \in BOOLEAN
    BY <1>4 DEF KickExpiredLocks
  <2>3. delay = RewardsDuration * kickRewardEpochDelay
    OBVIOUS
  <2> HIDE DEF delay
  <2>4. PICK amount \in Nat, reward \in Nat, next \in Nat :
          Processed(u, FALSE, kicker, delay, amount, reward, next)
    BY <2>1, <2>2, ProcessedStep
  <2> QED BY <2>1, <2>2, <2>3, <2>4 DEF LocksMove
<1>5. ASSUME NEW u \in Accounts, EmergencyWithdraw(u) PROVE LocksMove
  BY <1>5 DEF LocksMove
<1>6. ASSUME NEW u \in Accounts, NEW d \in Delegatees, Delegate(u, d) PROVE LocksMove
  BY <1>6 DEF LocksMove
<1>7. CASE CheckpointEpoch
  BY <1>7 DEF LocksMove
<1>8. held \in [AllTokens -> Nat] /\ StakingToken \in AllTokens /\ StakingToken \notin Tokens
  BY TokenAssumption DEF IInv, TokensOK, AllTokens
<1>9. ASSUME NEW u \in Accounts, NEW claimed, NEW olitTo, claimed \subseteq rewardTokens,
             ClaimRewards(u, claimed, olitTo)
      PROVE  LocksMove
  <2>1. StakingToken \notin claimed
    BY <1>8, <1>9 DEF IInv, RewardsOK
  <2>2. held'[StakingToken] = held[StakingToken]
    BY <2>1, <1>8, <1>9 DEF ClaimRewards
  <2> QED BY <2>2, <1>9 DEF LocksMove, ClaimRewards, adminVars
<1>10. ASSUME NEW t \in AllTokens, NEW amount, RecoverERC20(t, amount) PROVE LocksMove
  BY <1>8, <1>10 DEF RecoverERC20, LocksMove, adminVars
<1>11. ASSUME NEW t \in Tokens, NEW amount, ReceiveERC20(t, amount) PROVE LocksMove
  BY <1>8, <1>11 DEF ReceiveERC20, LocksMove, adminVars
<1>12. ASSUME NEW t \in Tokens, NEW distributor, NEW amount, QueueNewRewards(distributor, t, amount)
       PROVE  LocksMove
  BY <1>8, <1>12 DEF QueueNewRewards, LocksMove, adminVars
<1>13. CASE \/ \E t \in AllTokens, distributor \in Distributors : AddReward(t, distributor)
            \/ \E u \in Accounts, caller \in Operators, grant \in BOOLEAN :
                 ModifyPermission(u, caller, grant)
            \/ \E u \in Accounts, blacklisted \in BOOLEAN : ModifyBlacklist(u, blacklisted)
            \/ \E t \in Tokens, distributor \in Distributors, approved \in BOOLEAN :
                 ApproveRewardDistributor(t, distributor, approved)
            \/ \E setting \in KickSettings : SetKickIncentive(setting[1], setting[2])
            \/ Shutdown
            \/ UNCHANGED vars
  BY <1>13 DEF AddReward, ModifyPermission, ModifyBlacklist, ApproveRewardDistributor,
               SetKickIncentive, Shutdown, vars, LocksMove, tokenVars, adminVars
<1> QED BY <1>1, <1>2, <1>3, <1>4, <1>5, <1>6, <1>7, <1>9, <1>10, <1>11, <1>12, <1>13
        DEF Next, GetReward, GetRewardFor

----------------------------------------------------------------------------------
(* Locks by the week they end in *)

\* What the locks that end in one of the weeks W add up to.
Ending(locks, W) ==
  SumTo([i \in 1..Len(locks) |-> IF locks[i].unlockTime \in W THEN locks[i].amount ELSE 0], Len(locks))

\* Locks are made in order, and none ends later than `latest`.
Dated(locks, latest) ==
  /\ \A i, j \in 1..Len(locks) : i < j => locks[i].unlockTime < locks[j].unlockTime
  /\ \A i \in 1..Len(locks) : locks[i].unlockTime <= latest

\* The two things _lock does to the locks of an account.
LEMMA WithLockEntries ==
  ASSUME NEW locks \in Seq(LockedBalance), NEW amount \in Nat, UnlockTime \in Weeks,
         Dated(locks, UnlockTime)
  PROVE  LET n   == Len(locks)
             new == WithLock(locks, amount)
         IN  /\ new \in Seq(LockedBalance) /\ n \in Nat
             /\ \/ /\ Len(new) = n + 1
                   /\ \A i \in 1..n : new[i] = locks[i] /\ locks[i].unlockTime < UnlockTime
                   /\ new[n + 1] = [amount |-> amount, unlockTime |-> UnlockTime]
                \/ /\ Len(new) = n /\ n > 0
                   /\ \A i \in 1..n : i # n => new[i] = locks[i]
                   /\ locks[n].unlockTime = UnlockTime
                   /\ new[n] = [amount |-> locks[n].amount + amount, unlockTime |-> UnlockTime]
<1> DEFINE n == Len(locks)
           new == WithLock(locks, amount)
<1>1. n \in Nat /\ UnlockTime \in Nat
  BY WeekIsNat
<1>2. \A i \in 1..n : /\ locks[i] \in LockedBalance /\ locks[i].amount \in Nat
                      /\ locks[i].unlockTime \in Nat
  <2>1. \A i \in 1..n : locks[i] \in LockedBalance
    OBVIOUS
  <2> QED BY <2>1, WeekIsNat DEF LockedBalance
<1>3. CASE locks = <<>> \/ locks[n].unlockTime < UnlockTime
  <2> DEFINE lock == [amount |-> amount, unlockTime |-> UnlockTime]
  <2>1. new = Append(locks, lock)
    BY <1>3 DEF WithLock
  <2>2. lock \in LockedBalance
    BY DEF LockedBalance
  <2>3. new \in Seq(LockedBalance) /\ Len(new) = n + 1 /\ new[n + 1] = lock
        /\ \A i \in 1..n : new[i] = locks[i]
    BY <2>1, <2>2
  <2>4. ASSUME NEW i \in 1..n PROVE locks[i].unlockTime < UnlockTime
    <3>1. n \in 1..n /\ locks # <<>>
      BY <1>1
    <3>2. i = n \/ locks[i].unlockTime < locks[n].unlockTime
      BY <1>1, <3>1 DEF Dated
    <3> QED BY <3>1, <3>2, <1>1, <1>2, <1>3
  <2> QED BY <2>3, <2>4, <1>1
<1>4. CASE ~(locks = <<>> \/ locks[n].unlockTime < UnlockTime)
  <2> DEFINE lock == [amount |-> locks[n].amount + amount, unlockTime |-> UnlockTime]
  <2>1. n \in 1..n /\ n > 0
    BY <1>1, <1>4
  <2>2. locks[n].unlockTime = UnlockTime
    BY <2>1, <1>1, <1>2, <1>4 DEF Dated
  <2>3. new = [locks EXCEPT ![n].amount = @ + amount]
    BY <1>4 DEF WithLock
  <2>4. [locks[n] EXCEPT !.amount = @ + amount] = lock /\ lock \in LockedBalance
    <3>1. locks[n] = [amount |-> locks[n].amount, unlockTime |-> UnlockTime]
      BY <2>1, <2>2, <1>2 DEF LockedBalance
    <3> QED BY <3>1, <2>1, <1>2 DEF LockedBalance
  <2>5. new = [locks EXCEPT ![n] = lock]
    BY <2>3, <2>4
  <2>6. new \in Seq(LockedBalance) /\ Len(new) = n /\ new[n] = lock
        /\ \A i \in 1..n : i # n => new[i] = locks[i]
    BY <2>1, <2>4, <2>5, ExceptSeq
  <2> QED BY <2>1, <2>2, <2>6, <1>1
<1> QED BY <1>3, <1>4

\* A new lock comes last.
LEMMA WithLockDated ==
  ASSUME NEW locks \in Seq(LockedBalance), NEW amount \in Nat, UnlockTime \in Weeks,
         Dated(locks, UnlockTime)
  PROVE  Dated(WithLock(locks, amount), UnlockTime)
<1> DEFINE n == Len(locks)
           new == WithLock(locks, amount)
<1>1. /\ n \in Nat /\ UnlockTime \in Nat
      /\ \A i \in 1..n : locks[i].unlockTime <= UnlockTime
      /\ \A i, j \in 1..n : i < j => locks[i].unlockTime < locks[j].unlockTime
  BY WeekIsNat DEF Dated
<1>2. \/ /\ Len(new) = n + 1
         /\ \A i \in 1..n : new[i] = locks[i] /\ locks[i].unlockTime < UnlockTime
         /\ new[n + 1] = [amount |-> amount, unlockTime |-> UnlockTime]
      \/ /\ Len(new) = n /\ n > 0
         /\ \A i \in 1..n : i # n => new[i] = locks[i]
         /\ locks[n].unlockTime = UnlockTime
         /\ new[n] = [amount |-> locks[n].amount + amount, unlockTime |-> UnlockTime]
  BY WithLockEntries
<1> HIDE DEF new
<1>3. \A i \in 1..Len(new) : \/ i \in 1..n /\ new[i].unlockTime = locks[i].unlockTime
                             \/ i = n + 1 /\ Len(new) = n + 1 /\ new[i].unlockTime = UnlockTime
  BY <1>1, <1>2
<1>4. Len(new) = n + 1 => \A i \in 1..n : locks[i].unlockTime < UnlockTime
  BY <1>1, <1>2
<1>5. \A i \in 1..Len(new) : new[i].unlockTime <= UnlockTime
  BY <1>1, <1>3
<1>6. ASSUME NEW i \in 1..Len(new), NEW j \in 1..Len(new), i < j
      PROVE  new[i].unlockTime < new[j].unlockTime
  <2>1. Len(new) = n \/ Len(new) = n + 1
    BY <1>2
  <2>2. i \in 1..n /\ new[i].unlockTime = locks[i].unlockTime
    BY <2>1, <1>1, <1>3, <1>6
  <2>3. CASE j \in 1..n /\ new[j].unlockTime = locks[j].unlockTime
    BY <2>2, <2>3, <1>1, <1>6
  <2>4. CASE j = n + 1 /\ Len(new) = n + 1 /\ new[j].unlockTime = UnlockTime
    BY <2>2, <2>4, <1>4
  <2> QED BY <2>3, <2>4, <1>3
<1> QED BY <1>5, <1>6 DEF Dated, new

\* The sum over locks is one of natural numbers, and takes only what W asks for.
LEMMA EndingType ==
  ASSUME NEW locks \in Seq(LockedBalance), NEW W
  PROVE  /\ Ending(locks, W) \in Nat
         /\ Len(locks) \in Nat
         /\ \A i \in 1..Len(locks) : /\ locks[i] \in LockedBalance /\ locks[i].amount \in Nat
                                     /\ locks[i].unlockTime \in Weeks /\ locks[i].unlockTime \in Nat
<1> DEFINE n == Len(locks)
           f == [i \in 1..n |-> IF locks[i].unlockTime \in W THEN locks[i].amount ELSE 0]
<1>1. n \in Nat /\ n \in 0..n
  OBVIOUS
<1>2. \A i \in 1..n : /\ locks[i] \in LockedBalance /\ locks[i].amount \in Nat
                      /\ locks[i].unlockTime \in Weeks /\ locks[i].unlockTime \in Nat
  <2>1. \A i \in 1..n : locks[i] \in LockedBalance
    OBVIOUS
  <2> QED BY <2>1, WeekIsNat DEF LockedBalance
<1>3. \A i \in 1..n : f[i] \in Nat
  BY <1>2
<1>4. Ending(locks, W) = SumTo(f, n)
  BY DEF Ending
<1> HIDE DEF f, n
<1>5. SumTo(f, n) \in Nat
  BY <1>1, <1>3, SumToNat
<1> QED BY <1>1, <1>2, <1>4, <1>5 DEF n

\* Only the weeks in which a lock ends matter.
LEMMA EndingCongruence ==
  ASSUME NEW locks \in Seq(LockedBalance), NEW V, NEW W,
         \A i \in 1..Len(locks) : locks[i].unlockTime \in V <=> locks[i].unlockTime \in W
  PROVE  Ending(locks, V) = Ending(locks, W)
<1>1. [i \in 1..Len(locks) |-> IF locks[i].unlockTime \in V THEN locks[i].amount ELSE 0]
      = [i \in 1..Len(locks) |-> IF locks[i].unlockTime \in W THEN locks[i].amount ELSE 0]
  OBVIOUS
<1> QED BY <1>1 DEF Ending

\* Locks that end outside W do not count.
LEMMA EndingNever ==
  ASSUME NEW locks \in Seq(LockedBalance), NEW W,
         \A i \in 1..Len(locks) : locks[i].unlockTime \notin W
  PROVE  Ending(locks, W) = 0
<1> DEFINE f == [i \in 1..Len(locks) |-> IF locks[i].unlockTime \in W THEN locks[i].amount ELSE 0]
<1>1. f = [i \in 1..Len(locks) |-> 0] /\ Len(locks) \in Nat
  OBVIOUS
<1>2. Ending(locks, W) = SumTo(f, Len(locks))
  BY DEF Ending
<1> QED BY <1>1, <1>2, SumOfZeros

\* Disjoint sets of weeks add up.
LEMMA EndingUnion ==
  ASSUME NEW locks \in Seq(LockedBalance), NEW V, NEW W, V \cap W = {}
  PROVE  Ending(locks, V \cup W) = Ending(locks, V) + Ending(locks, W)
<1> DEFINE n == Len(locks)
           f == [i \in 1..n |-> IF locks[i].unlockTime \in V THEN locks[i].amount ELSE 0]
           b == [i \in 1..n |-> IF locks[i].unlockTime \in W THEN locks[i].amount ELSE 0]
           g == [i \in 1..n |-> IF locks[i].unlockTime \in V \cup W THEN locks[i].amount ELSE 0]
<1>1. n \in Nat /\ \A i \in 1..n : locks[i].amount \in Nat
  BY EndingType
<1>2. ASSUME NEW i \in 1..n
      PROVE  f[i] \in Int /\ b[i] \in Int /\ g[i] = f[i] + 1 * b[i]
  <2>1. locks[i].amount \in Nat
    BY <1>1
  <2> QED BY <2>1
<1>3. /\ Ending(locks, V) = SumTo(f, n) /\ Ending(locks, W) = SumTo(b, n)
      /\ Ending(locks, V \cup W) = SumTo(g, n)
  BY DEF Ending
<1>4. Ending(locks, W) \in Nat
  BY EndingType
<1> HIDE DEF f, b, g, n
<1>5. SumTo(g, n) = SumTo(f, n) + 1 * SumTo(b, n)
  BY <1>1, <1>2, SumToLinear
<1> QED BY <1>3, <1>4, <1>5

\* More weeks, no less.
LEMMA EndingMonotone ==
  ASSUME NEW locks \in Seq(LockedBalance), NEW V, NEW W, V \subseteq W
  PROVE  Ending(locks, V) <= Ending(locks, W)
<1>1. W = V \cup (W \ V) /\ V \cap (W \ V) = {}
  OBVIOUS
<1>2. Ending(locks, W) = Ending(locks, V) + Ending(locks, W \ V)
  BY <1>1, EndingUnion
<1> QED BY <1>2, EndingType

\* A new lock counts in the weeks with its own end.
LEMMA WithLockEnding ==
  ASSUME NEW locks \in Seq(LockedBalance), NEW amount \in Nat, UnlockTime \in Weeks,
         Dated(locks, UnlockTime), NEW W
  PROVE  Ending(WithLock(locks, amount), W)
           = Ending(locks, W) + (IF UnlockTime \in W THEN amount ELSE 0)
<1> DEFINE n == Len(locks)
           new == WithLock(locks, amount)
           more == IF UnlockTime \in W THEN amount ELSE 0
           f == [i \in 1..n |-> IF locks[i].unlockTime \in W THEN locks[i].amount ELSE 0]
           g == [i \in 1..Len(new) |-> IF new[i].unlockTime \in W THEN new[i].amount ELSE 0]
<1>1. /\ n \in Nat /\ new \in Seq(LockedBalance)
      /\ \A i \in 1..n : locks[i].amount \in Nat
  BY WithLockEntries, EndingType
<1>2. \A i \in 1..Len(new) : new[i].amount \in Nat
  BY <1>1, EndingType
<1>3. Ending(locks, W) = SumTo(f, n) /\ Ending(new, W) = SumTo(g, Len(new))
  BY DEF Ending
<1>4. (\A i \in 1..n : f[i] \in Nat) /\ (\A i \in 1..Len(new) : g[i] \in Nat)
  BY <1>1, <1>2
<1>5. /\ \A i \in 1..n : f[i] = IF locks[i].unlockTime \in W THEN locks[i].amount ELSE 0
      /\ \A i \in 1..Len(new) : g[i] = IF new[i].unlockTime \in W THEN new[i].amount ELSE 0
  OBVIOUS
<1>6. \/ /\ Len(new) = n + 1
         /\ \A i \in 1..n : new[i] = locks[i]
         /\ new[n + 1] = [amount |-> amount, unlockTime |-> UnlockTime]
      \/ /\ Len(new) = n /\ n > 0
         /\ \A i \in 1..n : i # n => new[i] = locks[i]
         /\ locks[n].unlockTime = UnlockTime
         /\ new[n] = [amount |-> locks[n].amount + amount, unlockTime |-> UnlockTime]
  BY WithLockEntries
<1> HIDE DEF f, g, new
<1>7. CASE /\ Len(new) = n + 1
           /\ \A i \in 1..n : new[i] = locks[i]
           /\ new[n + 1] = [amount |-> amount, unlockTime |-> UnlockTime]
  <2>1. g[n + 1] = more
    BY <1>1, <1>5, <1>7
  <2>2. \A i \in 1..n : g[i] = f[i]
    BY <1>1, <1>5, <1>7
  <2>3. SumTo(g, n) = SumTo(f, n)
    <3>1. \A i \in 1..n : f[i] \in Int /\ g[i] = f[i]
      BY <2>2, <1>4
    <3> QED BY <3>1, <1>1, SumToCongruence
  <2>4. SumTo(g, n + 1) = SumTo(g, n) + g[n + 1]
    <3>1. n + 1 \in Nat /\ n \in 0..(n + 1) /\ n < n + 1 /\ \A i \in 1..(n + 1) : g[i] \in Int
      BY <1>1, <1>4, <1>7
    <3> QED BY <3>1, SumToStep
  <2> QED BY <2>1, <2>3, <2>4, <1>3, <1>7 DEF new
<1>8. CASE /\ Len(new) = n /\ n > 0
           /\ \A i \in 1..n : i # n => new[i] = locks[i]
           /\ locks[n].unlockTime = UnlockTime
           /\ new[n] = [amount |-> locks[n].amount + amount, unlockTime |-> UnlockTime]
  <2>1. n \in 1..n
    BY <1>1, <1>8
  <2>2. g[n] = f[n] + more /\ f[n] \in Int
    BY <2>1, <1>1, <1>4, <1>5, <1>8
  <2>3. \A i \in 1..n : i # n => g[i] = f[i]
    BY <1>1, <1>5, <1>8
  <2>4. SumTo(g, n) = SumTo(f, n) + g[n] - f[n]
    <3>1. \A i \in 1..n : f[i] \in Int /\ g[i] \in Int
      BY <1>4, <1>8
    <3> QED BY ONLY <3>1, <2>1, <2>3, <1>1, SumToUpdate
  <2>5. SumTo(f, n) \in Nat /\ more \in Nat
    BY <1>1, <1>3, EndingType
  <2> QED BY <2>2, <2>4, <2>5, <1>3, <1>8 DEF new
<1> QED BY <1>6, <1>7, <1>8

\* The locks of every account are in order, and none outlives one made today.
DatesOK == \A u \in Accounts : Dated(userLocks[u], UnlockTime)

\* The dates the clock gives only move forward.
LEMMA DatesAdvance ==
  ASSUME IInv, Tick
  PROVE  /\ CurrentEpoch <= CurrentEpoch' /\ UpcomingEpoch <= UpcomingEpoch'
         /\ UnlockTime <= UnlockTime'
         /\ {CurrentEpoch, UpcomingEpoch, UnlockTime} \subseteq Nat
         /\ {CurrentEpoch', UpcomingEpoch', UnlockTime'} \subseteq Nat
<1> USE RewardsDurationAssumption, LockAssumption
<1> DEFINE p == now \div RewardsDuration
           q == (now + 1) \div RewardsDuration
           r == (now + RewardsDuration) \div RewardsDuration
           s == (now + 1 + RewardsDuration) \div RewardsDuration
<1>1. now \in Nat /\ now' = now + 1
  BY TimeAssumption DEF IInv, AdminOK, Tick
<1>2. p \in Nat /\ q \in Nat /\ p <= q /\ r \in Nat /\ s \in Nat /\ r <= s
  BY <1>1
<1>3. /\ CurrentEpoch = p * RewardsDuration /\ CurrentEpoch' = q * RewardsDuration
      /\ UpcomingEpoch = r * RewardsDuration /\ UpcomingEpoch' = s * RewardsDuration
  BY <1>1 DEF CurrentEpoch, UpcomingEpoch, WeekStart
<1>4. UnlockTime = CurrentEpoch + LockDuration /\ UnlockTime' = CurrentEpoch' + LockDuration
  BY DEF UnlockTime
<1>5. LockDuration \in Nat
  BY DEF LockDuration
<1> HIDE DEF p, q, r, s
<1>6. /\ p * RewardsDuration \in Nat /\ q * RewardsDuration \in Nat
      /\ r * RewardsDuration \in Nat /\ s * RewardsDuration \in Nat
      /\ p * RewardsDuration <= q * RewardsDuration
      /\ r * RewardsDuration <= s * RewardsDuration
  BY <1>2
<1> QED BY <1>3, <1>4, <1>5, <1>6

\* As long as the clock stands still, so do they.
LEMMA SameDates ==
  ASSUME now' = now
  PROVE  CurrentEpoch' = CurrentEpoch /\ UpcomingEpoch' = UpcomingEpoch /\ UnlockTime' = UnlockTime
BY DEF CurrentEpoch, UpcomingEpoch, UnlockTime, WeekStart

\* Nothing has been locked yet.
LEMMA InitDates == Init => DatesOK
<1> SUFFICES ASSUME Init, NEW u \in Accounts PROVE Dated(userLocks[u], UnlockTime)
  BY DEF DatesOK
<1>1. userLocks[u] = <<>>
  BY DEF Init
<1> QED BY <1>1 DEF Dated

\* What a step does to the locks: nothing, or one account gets a lock.
LocksGrow ==
  \/ now' = now /\ userLocks' = userLocks
  \/ Tick
  \/ \E u \in Accounts, amount \in Nat \ {0} :
       /\ now' = now
       /\ userLocks' = [userLocks EXCEPT ![u] = WithLock(@, amount)]

\* A lock and a relock are the only steps that add to the locks.
LEMMA LocksGrowStep == IInv /\ [Next]_vars => LocksGrow
<1> SUFFICES ASSUME IInv, [Next]_vars PROVE LocksGrow
  OBVIOUS
<1>1. ASSUME NEW u \in Accounts, NEW sender \in Accounts, NEW amount \in Nat, Lock(sender, u, amount)
      PROVE  LocksGrow
  <2>1. /\ amount > 0 /\ now' = now
        /\ userLocks' = [userLocks EXCEPT ![u] = WithLock(@, amount)]
    BY <1>1 DEF Lock, LockTokens
  <2>2. amount \in Nat \ {0}
    BY <2>1
  <2> QED BY <2>1, <2>2 DEF LocksGrow
<1>2. ASSUME NEW u \in Accounts, NEW relock \in BOOLEAN, NEW rewardAddress \in Accounts,
             NEW delay \in Nat, NEW amount \in Nat, NEW reward \in Nat, NEW next \in Nat,
             Processed(u, relock, rewardAddress, delay, amount, reward, next)
      PROVE  LocksGrow
  <2>1. now' = now
    BY <1>2 DEF Processed
  <2>2. CASE UNCHANGED userLocks
    BY <2>1, <2>2 DEF LocksGrow
  <2>3. CASE ~UNCHANGED userLocks
    <3>1. amount > 0 /\ userLocks' = [userLocks EXCEPT ![u] = WithLock(@, amount)]
      BY <1>2, <2>3 DEF Processed, LockTokens
    <3>2. amount \in Nat \ {0}
      BY <3>1
    <3> QED BY <2>1, <3>1, <3>2 DEF LocksGrow
  <2> QED BY <2>2, <2>3
<1>3. ASSUME NEW u \in Accounts, EmergencyWithdraw(u) PROVE LocksGrow
  BY <1>3 DEF EmergencyWithdraw, LocksGrow
<1>4. ASSUME NEW u \in Accounts, NEW d \in Delegatees, Delegate(u, d) PROVE LocksGrow
  BY <1>4 DEF Delegate, LocksGrow, lockVars
<1>5. CASE CheckpointEpoch
  BY <1>5 DEF CheckpointEpoch, LocksGrow
<1>6. CASE Tick
  BY <1>6 DEF LocksGrow
<1>7. CASE UNCHANGED <<now, lockVars>>
  BY <1>7 DEF LocksGrow, lockVars
<1> QED BY <1>1, <1>2, <1>3, <1>4, <1>5, <1>6, <1>7, LocksStep DEF LocksMove

\* So the order of the locks is kept.
LEMMA NextKeepsDates == IInv /\ DatesOK /\ [Next]_vars => DatesOK'
<1> SUFFICES ASSUME IInv, DatesOK, [Next]_vars PROVE DatesOK'
  OBVIOUS
<1>1. CASE now' = now /\ userLocks' = userLocks
  BY <1>1, SameDates DEF DatesOK, Dated
<1>2. CASE Tick
  <2>1. ASSUME NEW u \in Accounts PROVE Dated(userLocks[u], UnlockTime')
    <3>1. Dated(userLocks[u], UnlockTime)
      BY DEF DatesOK
    <3>2. \A i \in 1..Len(userLocks[u]) : userLocks[u][i].unlockTime \in Nat
      BY LockFacts
    <3>3. UnlockTime <= UnlockTime' /\ UnlockTime \in Nat /\ UnlockTime' \in Nat
      BY <1>2, DatesAdvance
    <3> QED BY <3>1, <3>2, <3>3 DEF Dated
  <2>2. userLocks' = userLocks
    BY <1>2 DEF Tick, lockVars
  <2> QED BY <2>1, <2>2 DEF DatesOK, Dated
<1>3. ASSUME NEW u \in Accounts, NEW amount \in Nat, now' = now,
             userLocks' = [userLocks EXCEPT ![u] = WithLock(@, amount)]
      PROVE  DatesOK'
  <2>1. UnlockTime' = UnlockTime
    BY <1>3, SameDates
  <2>2. userLocks \in [Accounts -> Seq(LockedBalance)] /\ UnlockTime \in Weeks
    BY Calendar DEF IInv, LocksOK, AdminOK
  <2>3. Dated(userLocks[u], UnlockTime) /\ userLocks[u] \in Seq(LockedBalance)
    BY <2>2 DEF DatesOK
  <2>4. Dated(WithLock(userLocks[u], amount), UnlockTime)
    BY <2>2, <2>3, WithLockDated
  <2>5. \A a \in Accounts : Dated(userLocks'[a], UnlockTime)
    BY <2>2, <2>4, <1>3 DEF DatesOK
  <2> QED BY <2>1, <2>5 DEF DatesOK, Dated
<1> QED BY <1>1, <1>2, <1>3, LocksGrowStep DEF LocksGrow

\* The order of the locks is part of what the specification keeps.
THEOREM LocksInOrder == Spec => [](IInv /\ DatesOK)
<1>1. Init => IInv /\ DatesOK
  BY InitIInv, InitDates
<1>2. IInv /\ DatesOK /\ [Next]_vars => (IInv /\ DatesOK)'
  BY NextKeepsIInv, NextKeepsDates
<1> QED BY <1>1, <1>2, PTL DEF Spec

----------------------------------------------------------------------------------
(* Leaving: when, and at what price *)

\* The live locks of u that are due.
DueLocks(u) ==
  [i \in 1..Len(userLocks[u]) |->
     IF i \in LiveLocks(u) /\ userLocks[u][i].unlockTime <= now THEN userLocks[u][i].amount ELSE 0]

\* They are worth something or nothing.
LEMMA DueLocksType ==
  ASSUME IInv, NEW u \in Accounts
  PROVE  /\ \A i \in 1..Len(userLocks[u]) : DueLocks(u)[i] \in Nat
         /\ SumTo(DueLocks(u), Len(userLocks[u])) \in Nat
<1>1. /\ Len(userLocks[u]) \in Nat
      /\ \A i \in 1..Len(userLocks[u]) : userLocks[u][i].amount \in Nat
  BY LockFacts
<1>2. \A i \in 1..Len(userLocks[u]) : DueLocks(u)[i] \in Nat
  BY <1>1 DEF DueLocks
<1>3. Len(userLocks[u]) \in 0..Len(userLocks[u])
  BY <1>1
<1> QED BY <1>1, <1>2, <1>3, SumToNat

\* When every lock that is taken is due, no more is taken than is due.
LEMMA TakenWasDue ==
  ASSUME IInv, NEW u \in Accounts, NEW next \in 0..Len(userLocks[u]),
         balances[u].nextUnlockIndex <= next,
         \A i \in (balances[u].nextUnlockIndex + 1)..next : userLocks[u][i].unlockTime <= now
  PROVE  LockSum(userLocks[u], balances[u].nextUnlockIndex, next)
           <= SumTo(DueLocks(u), Len(userLocks[u]))
<1> DEFINE locks == userLocks[u]
           len == Len(locks)
           first == balances[u].nextUnlockIndex
           f == Amounts(locks)
           g == DueLocks(u)
<1>1. len \in Nat /\ first \in 0..len /\ next \in 0..len /\ locks \in Seq(LockedBalance)
      /\ \A i \in 1..len : f[i] \in Nat /\ f[i] = locks[i].amount
  BY LockFacts, AmountsType
<1>2. \A i \in 1..len : g[i] \in Nat
  BY DueLocksType
<1>3. \A i \in (first + 1)..next : f[i] = g[i]
  <2>1. ASSUME NEW i \in (first + 1)..next PROVE f[i] = g[i]
    <3>1. i \in 1..len /\ i \in LiveLocks(u) /\ locks[i].unlockTime <= now
      BY <1>1 DEF LiveLocks
    <3>2. DueLocks(u)[i] = userLocks[u][i].amount
      BY <3>1 DEF DueLocks
    <3>3. f[i] = locks[i].amount
      BY <3>1, <1>1
    <3> QED BY <3>2, <3>3
  <2> QED BY <2>1
<1>4. LockSum(locks, first, next) = SumBetween(f, first, next)
  BY DEF LockSum, Amounts
<1> HIDE DEF f, g, first, locks
<1>5. SumBetween(f, first, next) = SumBetween(g, first, next)
  <2>1. next \in Nat /\ first \in 0..next /\ \A i \in 1..next : f[i] \in Int /\ g[i] \in Int
    <3>1. first <= next
      BY DEF first
    <3> QED BY <3>1, <1>1, <1>2
  <2> QED BY <2>1, <1>3, SumBetweenCongruence
<1>6. /\ SumTo(g, first) \in Nat /\ SumTo(g, next) \in Nat /\ SumTo(g, len) \in Nat
      /\ SumTo(g, next) <= SumTo(g, len)
  <2>1. next \in 0..len /\ len \in 0..len
    BY <1>1 DEF locks
  <2> QED BY <2>1, <1>1, <1>2, SumToNat
<1>7. SumBetween(g, first, next) <= SumTo(g, len)
  BY <1>6 DEF SumBetween
<1> QED BY <1>4, <1>5, <1>7 DEF locks, first, g

\* What the processing of expired locks leaves in the balances.
LEMMA ProcessedBalances ==
  ASSUME IInv, NEW u \in Accounts, NEW relock \in BOOLEAN, NEW rewardAddress \in Accounts,
         NEW delay \in Nat, NEW amount \in Nat, NEW reward \in Nat, NEW next \in Nat,
         Processed(u, relock, rewardAddress, delay, amount, reward, next)
  PROVE  \A a \in Accounts :
           balances'[a].locked = IF a = u /\ ~relock THEN balances[a].locked - amount
                                 ELSE balances[a].locked
<1> DEFINE bals == [balances EXCEPT ![u] = [locked |-> balances[u].locked - amount, nextUnlockIndex |-> next]]
<1>1. balances \in [Accounts -> Balances] /\ balances[u].locked \in Nat
  BY LockFacts DEF IInv, LocksOK, BalancesMatch
<1>2. bals[u].locked = balances[u].locked - amount /\ \A a \in Accounts : a # u => bals[a] = balances[a]
  BY <1>1
<1>3. DOMAIN bals = Accounts /\ bals[u] = [locked |-> balances[u].locked - amount, nextUnlockIndex |-> next]
  BY <1>1
<1>4. CASE relock
  <2>1. balances' = [bals EXCEPT ![u].locked = @ + amount]
    BY <1>4 DEF Processed, LockTokens
  <2> HIDE DEF bals
  <2>2. balances'[u].locked = balances[u].locked
    BY <2>1, <1>1, <1>2, <1>3
  <2>3. \A a \in Accounts : a # u => balances'[a] = balances[a]
    BY <2>1, <1>2, <1>3
  <2> QED BY <2>2, <2>3, <1>4
<1>5. CASE ~relock
  <2>1. balances' = bals
    BY <1>5 DEF Processed
  <2> QED BY <2>1, <1>2, <1>5
<1> QED BY <1>4, <1>5

\* An emergency withdrawal empties one balance into the wallet of its owner.
LEMMA EmergencyBalances ==
  ASSUME IInv, NEW u \in Accounts, EmergencyWithdraw(u), NEW a \in Accounts
  PROVE  balances'[a].locked + wallet'[a] = balances[a].locked + wallet[a]
<1>1. balances \in [Accounts -> Balances] /\ wallet \in [Accounts -> Nat] /\ balances[u].locked \in Nat
  BY LockFacts DEF IInv, LocksOK, BalancesMatch, TokensOK
<1>2. /\ balances' = [balances EXCEPT ![u] = [locked |-> 0, nextUnlockIndex |-> Len(userLocks[u])]]
      /\ wallet' = [wallet EXCEPT ![u] = @ + balances[u].locked]
  BY DEF EmergencyWithdraw
<1>3. CASE a = u
  BY <1>1, <1>2, <1>3
<1>4. CASE a # u
  BY <1>1, <1>2, <1>4
<1> QED BY <1>3, <1>4

\* A lock only adds to a balance.
LEMMA LockBalances ==
  ASSUME IInv, NEW sender, NEW u \in Accounts, NEW amount \in Nat, Lock(sender, u, amount),
         NEW a \in Accounts
  PROVE  balances[a].locked <= balances'[a].locked
<1>1. balances \in [Accounts -> Balances] /\ balances[a].locked \in Nat /\ balances[u].locked \in Nat
  BY LockFacts DEF IInv, LocksOK, BalancesMatch
<1>2. balances' = [balances EXCEPT ![u].locked = @ + amount]
  BY DEF Lock, LockTokens
<1>3. CASE a = u
  <2>1. balances[u] \in Balances
    BY <1>1
  <2>2. balances'[u].locked = balances[u].locked + amount
    BY <1>1, <1>2, <2>1 DEF Balances
  <2> QED BY <2>2, <1>1, <1>3
<1>4. CASE a # u
  BY <1>1, <1>2, <1>4
<1> QED BY <1>3, <1>4

\* Every other step leaves the balances alone.
LEMMA QuietBalances ==
  ASSUME \/ Tick
         \/ \E u \in Accounts, d \in Delegatees : Delegate(u, d)
         \/ CheckpointEpoch
         \/ UNCHANGED <<now, lockVars, voteVars, wallet>>
  PROVE  balances' = balances /\ wallet' = wallet
BY DEF Tick, Delegate, CheckpointEpoch, lockVars, tokenVars

\* NoEarlyExit: before a shutdown an account's locked balance loses no more in a step
\* than its live locks that are due, in withdrawExpiredLocks, in a relock, and in a
\* kick, with the bundled and with the one-by-one branch of _processExpiredLocks.
THEOREM LocksHold == Spec => NoEarlyExit
<1>1. ASSUME IInv, DatesOK, [Next]_vars, ~isShutdown, NEW a \in Accounts
      PROVE  balances[a].locked - balances'[a].locked <= SumTo(DueLocks(a), Len(userLocks[a]))
  <2>1. balances[a].locked \in Nat /\ SumTo(DueLocks(a), Len(userLocks[a])) \in Nat
    BY <1>1, LockFacts, DueLocksType
  <2>2. ASSUME balances' = balances
        PROVE  balances[a].locked - balances'[a].locked <= SumTo(DueLocks(a), Len(userLocks[a]))
    BY <2>1, <2>2
  <2>3. ASSUME NEW sender \in Accounts, NEW u \in Accounts, NEW amount \in Nat, Lock(sender, u, amount)
        PROVE  balances[a].locked - balances'[a].locked <= SumTo(DueLocks(a), Len(userLocks[a]))
    <3>1. balances[a].locked <= balances'[a].locked
      BY <2>3, <1>1, LockBalances
    <3>2. balances'[a].locked \in Nat
      <4>1. IInv'
        BY <1>1, NextKeepsIInv
      <4>2. balances' \in [Accounts -> Balances]
        BY <4>1 DEF IInv, LocksOK, BalancesMatch
      <4> QED BY <4>2 DEF Balances
    <3> QED BY <3>1, <3>2, <2>1
  <2>4. ASSUME NEW u \in Accounts, NEW relock \in BOOLEAN, NEW rewardAddress \in Accounts,
               NEW delay \in Nat, NEW amount \in Nat, NEW reward \in Nat, NEW next \in Nat,
               Processed(u, relock, rewardAddress, delay, amount, reward, next)
        PROVE  balances[a].locked - balances'[a].locked <= SumTo(DueLocks(a), Len(userLocks[a]))
    <3>1. balances'[a].locked = IF a = u /\ ~relock THEN balances[a].locked - amount
                                ELSE balances[a].locked
      BY <2>4, <1>1, ProcessedBalances
    <3>2. CASE a # u \/ relock
      BY <3>1, <3>2, <2>1
    <3>3. CASE a = u /\ ~relock
      <4> DEFINE locks == userLocks[u]
                 first == balances[u].nextUnlockIndex
                 expiry == now - delay
      <4>1. /\ first < next /\ next <= Len(locks) /\ amount = LockSum(locks, first, next)
            /\ \/ locks[Len(locks)].unlockTime <= expiry /\ next = Len(locks)
               \/ \A i \in (first + 1)..next : locks[i].unlockTime <= expiry
        BY <2>4, <3>3, <1>1 DEF Processed
      <4>2. /\ Len(locks) \in Nat /\ first \in 0..Len(locks) /\ now \in Nat
            /\ \A i \in 1..Len(locks) : locks[i].unlockTime \in Nat
            /\ \A i, j \in 1..Len(locks) : i < j => locks[i].unlockTime < locks[j].unlockTime
        BY <1>1, LockFacts DEF DatesOK, Dated
      <4> HIDE DEF locks, first
      <4>3. ASSUME NEW i \in (first + 1)..next PROVE locks[i].unlockTime <= now
        <5>1. i \in 1..Len(locks) /\ Len(locks) \in 1..Len(locks)
          BY <4>1, <4>2
        <5>2. locks[i].unlockTime <= expiry
          <6>1. CASE locks[Len(locks)].unlockTime <= expiry /\ next = Len(locks)
            <7>1. i = Len(locks) \/ locks[i].unlockTime < locks[Len(locks)].unlockTime
              BY <5>1, <4>2
            <7> QED BY <7>1, <6>1, <5>1, <4>2
          <6> QED BY <6>1, <4>1
        <5> QED BY <5>1, <5>2, <4>2
      <4>4. next \in 0..Len(locks) /\ first <= next
        BY <4>1, <4>2
      <4>5. amount <= SumTo(DueLocks(u), Len(locks))
        BY <4>1, <4>3, <4>4, <1>1, TakenWasDue DEF locks, first
      <4> QED BY <3>1, <3>3, <4>5, <2>1 DEF locks
    <3> QED BY <3>2, <3>3
  <2>5. ASSUME NEW u \in Accounts, EmergencyWithdraw(u) PROVE FALSE
    BY <2>5, <1>1 DEF EmergencyWithdraw
  <2> QED BY <1>1, <2>2, <2>3, <2>4, <2>5, LocksStep, QuietBalances DEF LocksMove
<1>2. IInv /\ DatesOK /\ [Next]_vars =>
        [~isShutdown =>
           \A u \in Accounts :
             balances[u].locked - balances'[u].locked
               <= SumTo([i \in 1..Len(userLocks[u]) |->
                           IF i \in LiveLocks(u) /\ userLocks[u][i].unlockTime <= now
                           THEN userLocks[u][i].amount ELSE 0],
                        Len(userLocks[u]))]_vars
  BY <1>1 DEF DueLocks
<1> QED BY <1>2, LocksInOrder, PTL DEF Spec, NoEarlyExit

\* KickOnlyAfterGrace: a withdrawal that costs the owner something is a kick of an
\* account with a live lock that is overdue by the grace period; leaving by oneself,
\* also after a shutdown, is free.
THEOREM KicksWait == Spec => KickOnlyAfterGrace
<1>1. ASSUME IInv, [Next]_vars, NEW a \in Accounts,
             balances'[a].locked < balances[a].locked,
             balances'[a].locked + wallet'[a] < balances[a].locked + wallet[a]
      PROVE  \E i \in LiveLocks(a) :
               userLocks[a][i].unlockTime + RewardsDuration * kickRewardEpochDelay <= now
  <2>1. balances[a].locked \in Nat /\ wallet \in [Accounts -> Nat] /\ wallet[a] \in Nat
    BY <1>1, LockFacts DEF IInv, TokensOK
  <2>2. ASSUME balances' = balances PROVE FALSE
    BY <2>1, <2>2, <1>1
  <2>3. ASSUME NEW sender \in Accounts, NEW u \in Accounts, NEW amount \in Nat, Lock(sender, u, amount)
        PROVE  FALSE
    <3>1. IInv'
      BY <1>1, NextKeepsIInv
    <3>2. balances' \in [Accounts -> Balances]
      BY <3>1 DEF IInv, LocksOK, BalancesMatch
    <3>3. balances'[a].locked \in Nat
      BY <3>2 DEF Balances
    <3> QED BY <3>3, <2>1, <2>3, <1>1, LockBalances
  <2>4. ASSUME NEW u \in Accounts, NEW relock \in BOOLEAN, NEW rewardAddress \in Accounts,
               NEW delay \in Nat, NEW amount \in Nat, NEW reward \in Nat, NEW next \in Nat,
               Processed(u, relock, rewardAddress, delay, amount, reward, next),
               delay = 0 \/ (delay = RewardsDuration * kickRewardEpochDelay /\ ~relock),
               delay = 0 => rewardAddress = u
        PROVE  \E i \in LiveLocks(a) :
                 userLocks[a][i].unlockTime + RewardsDuration * kickRewardEpochDelay <= now
    <3>1. balances'[a].locked = IF a = u /\ ~relock THEN balances[a].locked - amount
                                ELSE balances[a].locked
      BY <2>4, <1>1, ProcessedBalances
    <3>2. a = u /\ ~relock
      BY <3>1, <2>1, <1>1
    <3>3. delay # 0
      <4> SUFFICES ASSUME delay = 0 PROVE FALSE
        OBVIOUS
      <4>1. reward = 0 /\ wallet'[a] = wallet[a] + reward + (amount - reward)
        BY <2>4, <3>2 DEF Processed
      <4> QED BY <4>1, <3>1, <3>2, <2>1, <1>1
    <3>4. PICK i \in (balances[u].nextUnlockIndex + 1)..Len(userLocks[u]) :
            userLocks[u][i].unlockTime <= now - delay
      BY <2>4, <3>3 DEF Processed
    <3>5. i \in 1..Len(userLocks[u]) /\ userLocks[u][i].unlockTime \in Nat /\ now \in Nat
      BY <3>4, <1>1, LockFacts
    <3>6. userLocks[u][i].unlockTime + delay <= now
      BY <3>4, <3>5
    <3> QED BY <2>4, <3>2, <3>3, <3>4, <3>6 DEF LiveLocks
  <2>5. ASSUME NEW u \in Accounts, EmergencyWithdraw(u) PROVE FALSE
    <3>1. balances'[a].locked + wallet'[a] = balances[a].locked + wallet[a]
      BY <2>5, <1>1, EmergencyBalances
    <3>2. balances'[a].locked \in Nat
      <4>1. IInv'
        BY <1>1, NextKeepsIInv
      <4>2. balances' \in [Accounts -> Balances]
        BY <4>1 DEF IInv, LocksOK, BalancesMatch
      <4> QED BY <4>2 DEF Balances
    <3> QED BY <3>1, <3>2, <2>1, <1>1
  <2> QED BY <1>1, <2>2, <2>3, <2>4, <2>5, LocksStep, QuietBalances DEF LocksMove
<1>2. IInv /\ [Next]_vars =>
        [\A u \in Accounts :
           /\ balances'[u].locked < balances[u].locked
           /\ balances'[u].locked + wallet'[u] < balances[u].locked + wallet[u]
           => \E i \in LiveLocks(u) :
                userLocks[u][i].unlockTime + RewardsDuration * kickRewardEpochDelay <= now]_vars
  BY <1>1
<1> QED BY <1>2, LocksInOrder, PTL DEF Spec, KickOnlyAfterGrace

----------------------------------------------------------------------------------
(* Votes: what a delegatee's checkpoints stand for *)

\* The weeks after w.
After(w) == {x \in Weeks : x > w}

\* The weeks after v, up to and with w.
WeeksBetween(v, w) == {x \in Weeks : v < x /\ x <= w}

\* What the locks `all` of u that end in W add for d, when `dels` are the delegatees.
Share(d, dels, all, W, u) == IF dels[u] = d THEN Ending(all[u], W) ELSE 0

\* What they add up to over all accounts.
Delegated(d, dels, all, W) == SumTo([u \in Accounts |-> Share(d, dels, all, W, u)], NumAccounts)

\* The unlocks of d say, for every week after v, what ends there.
UnlocksMatchAfter(d, unlocks, dels, all, v) ==
  \A w \in After(v) : unlocks[w] = Delegated(d, dels, all, {w})

\* The newest checkpoint of d counts the locks of those who delegate to d that end
\* after it, and the unlocks of d say in which week each of them ends.
VotesMatchAt(d, ckpts, unlocks, dels, all) ==
  IF ckpts = <<>>
  THEN (\A u \in Accounts : dels[u] # d) /\ \A w \in Weeks : unlocks[w] = 0
  ELSE LET last == ckpts[Len(ckpts)]
       IN  /\ last.votes = Delegated(d, dels, all, After(last.epochStart))
           /\ UnlocksMatchAfter(d, unlocks, dels, all, last.epochStart)
           /\ \A u \in Accounts : dels[u] = d =>
                \A i \in 1..Len(all[u]) : all[u][i].unlockTime <= last.epochStart + LockDuration

\* The accounts are the first NumAccounts numbers.
LEMMA AccountsRange == NumAccounts \in Nat /\ Accounts = 1..NumAccounts
BY AccountsAssumption DEF Accounts

\* Delegated locks add up to a natural number.
LEMMA DelegatedType ==
  ASSUME NEW all \in [Accounts -> Seq(LockedBalance)], NEW dels, NEW d, NEW W
  PROVE  Delegated(d, dels, all, W) \in Nat
<1> DEFINE f == [u \in Accounts |-> Share(d, dels, all, W, u)]
<1>1. ASSUME NEW u \in 1..NumAccounts PROVE f[u] \in Nat
  <2>1. u \in Accounts /\ all[u] \in Seq(LockedBalance)
    BY AccountsRange
  <2> QED BY <2>1, EndingType DEF Share
<1>2. Delegated(d, dels, all, W) = SumTo(f, NumAccounts)
  BY DEF Delegated
<1> HIDE DEF f
<1>3. NumAccounts \in 0..NumAccounts
  BY AccountsRange
<1> QED BY <1>1, <1>2, <1>3, AccountsRange, SumToNat

\* Only what each account delegates counts.
LEMMA DelegatedCongruence ==
  ASSUME NEW d, NEW dels, NEW all, NEW V, NEW dels2, NEW all2, NEW W,
         \A u \in Accounts : Share(d, dels, all, V, u)
                             = Share(d, dels2, all2, W, u)
  PROVE  Delegated(d, dels, all, V) = Delegated(d, dels2, all2, W)
<1>1. [u \in Accounts |-> Share(d, dels, all, V, u)]
      = [u \in Accounts |-> Share(d, dels2, all2, W, u)]
  OBVIOUS
<1> QED BY <1>1 DEF Delegated

\* When no delegated lock ends in W there is nothing to add up.
LEMMA DelegatedNever ==
  ASSUME NEW d, NEW dels, NEW all \in [Accounts -> Seq(LockedBalance)], NEW W,
         \A u \in Accounts : dels[u] = d => \A i \in 1..Len(all[u]) : all[u][i].unlockTime \notin W
  PROVE  Delegated(d, dels, all, W) = 0
<1>1. ASSUME NEW u \in Accounts
      PROVE  Share(d, dels, all, W, u) = 0
  <2>1. all[u] \in Seq(LockedBalance)
    OBVIOUS
  <2> QED BY <2>1, EndingNever DEF Share
<1>2. [u \in Accounts |-> Share(d, dels, all, W, u)] = [u \in 1..NumAccounts |-> 0]
  BY <1>1, AccountsRange
<1> QED BY <1>2, AccountsRange, SumOfZeros DEF Delegated

\* Disjoint sets of weeks add up.
LEMMA DelegatedUnion ==
  ASSUME NEW d, NEW dels, NEW all \in [Accounts -> Seq(LockedBalance)], NEW V, NEW W, V \cap W = {}
  PROVE  Delegated(d, dels, all, V \cup W) = Delegated(d, dels, all, V) + Delegated(d, dels, all, W)
<1> DEFINE f == [u \in Accounts |-> Share(d, dels, all, V, u)]
           b == [u \in Accounts |-> Share(d, dels, all, W, u)]
           g == [u \in Accounts |-> Share(d, dels, all, V \cup W, u)]
<1>1. ASSUME NEW u \in 1..NumAccounts
      PROVE  f[u] \in Int /\ b[u] \in Int /\ g[u] = f[u] + 1 * b[u]
  <2>1. u \in Accounts /\ all[u] \in Seq(LockedBalance)
    BY AccountsRange
  <2>2. /\ Ending(all[u], V) \in Nat /\ Ending(all[u], W) \in Nat
        /\ Ending(all[u], V \cup W) = Ending(all[u], V) + Ending(all[u], W)
    BY <2>1, EndingType, EndingUnion
  <2> QED BY <2>1, <2>2 DEF Share
<1>2. /\ Delegated(d, dels, all, V) = SumTo(f, NumAccounts)
      /\ Delegated(d, dels, all, W) = SumTo(b, NumAccounts)
      /\ Delegated(d, dels, all, V \cup W) = SumTo(g, NumAccounts)
  BY DEF Delegated
<1>3. Delegated(d, dels, all, W) \in Nat
  BY DelegatedType
<1> HIDE DEF f, b, g
<1>4. SumTo(g, NumAccounts) = SumTo(f, NumAccounts) + 1 * SumTo(b, NumAccounts)
  BY <1>1, AccountsRange, SumToLinear
<1> QED BY <1>2, <1>3, <1>4

\* When one account changes its delegatee or its locks, the sum moves by its share.
LEMMA DelegatedUpdate ==
  ASSUME NEW d, NEW dels, NEW all \in [Accounts -> Seq(LockedBalance)],
         NEW dels2, NEW all2 \in [Accounts -> Seq(LockedBalance)], NEW W, NEW u \in Accounts,
         \A a \in Accounts : a # u => dels2[a] = dels[a] /\ all2[a] = all[a]
  PROVE  Delegated(d, dels2, all2, W)
           = Delegated(d, dels, all, W) + Share(d, dels2, all2, W, u)
                                        - Share(d, dels, all, W, u)
<1> DEFINE f == [a \in Accounts |-> Share(d, dels, all, W, a)]
           g == [a \in Accounts |-> Share(d, dels2, all2, W, a)]
<1>1. ASSUME NEW a \in 1..NumAccounts
      PROVE  f[a] \in Int /\ g[a] \in Int /\ (a # u => g[a] = f[a])
  <2>1. a \in Accounts /\ all[a] \in Seq(LockedBalance) /\ all2[a] \in Seq(LockedBalance)
    BY AccountsRange
  <2>2. Ending(all[a], W) \in Nat /\ Ending(all2[a], W) \in Nat
    BY <2>1, EndingType DEF Share
  <2> QED BY <2>1, <2>2 DEF Share
<1>2. /\ Delegated(d, dels, all, W) = SumTo(f, NumAccounts)
      /\ Delegated(d, dels2, all2, W) = SumTo(g, NumAccounts)
  BY DEF Delegated
<1>3. /\ f[u] = Share(d, dels, all, W, u)
      /\ g[u] = Share(d, dels2, all2, W, u)
      /\ u \in 1..NumAccounts
  BY AccountsRange
<1> HIDE DEF f, g
<1>4. SumTo(g, NumAccounts) = SumTo(f, NumAccounts) + g[u] - f[u]
  BY <1>1, <1>3, AccountsRange, SumToUpdate
<1> QED BY <1>2, <1>3, <1>4

\* More weeks take no less time.
LEMMA WeeksMonotone ==
  ASSUME NEW a \in Nat, NEW b \in Nat, a <= b
  PROVE  a * RewardsDuration <= b * RewardsDuration
BY RewardsDurationAssumption

\* The unlocks between two weeks are the delegated locks that end there.
LEMMA UnlocksAreEndings ==
  ASSUME NEW d, NEW dels, NEW all \in [Accounts -> Seq(LockedBalance)], NEW unlocks,
         NEW v \in Weeks, NEW w \in Weeks, v <= w,
         UnlocksMatchAfter(d, unlocks, dels, all, v)
  PROVE  UnlocksBetween(unlocks, v, w) = Delegated(d, dels, all, WeeksBetween(v, w))
<1> DEFINE n == (w - v) \div RewardsDuration
           f == [k \in 1..n |-> unlocks[v + k * RewardsDuration]]
           upTo(k) == {x \in Weeks : v < x /\ x <= v + k * RewardsDuration}
           S == {k \in 0..n : SumTo(f, k) = Delegated(d, dels, all, upTo(k))}
<1>1. /\ n \in Nat /\ v + n * RewardsDuration = w
      /\ \A k \in 1..n : v + k * RewardsDuration \in Weeks
  BY WeekSteps
<1>2. UnlocksBetween(unlocks, v, w) = SumTo(f, n)
  BY DEF UnlocksBetween
<1>3. v \in Nat /\ w \in Nat /\ \A x \in Weeks : x \in Nat
  BY WeekIsNat
<1> HIDE DEF n
<1>4. ASSUME NEW k \in 1..n
      PROVE  /\ v + k * RewardsDuration \in After(v)
             /\ f[k] = Delegated(d, dels, all, {v + k * RewardsDuration})
  <2>1. k * RewardsDuration > 0 /\ k * RewardsDuration \in Nat
    BY RewardsDurationAssumption
  <2>2. v + k * RewardsDuration \in After(v)
    BY <2>1, <1>1, <1>3 DEF After
  <2>3. f[k] = unlocks[v + k * RewardsDuration]
    OBVIOUS
  <2> HIDE DEF f
  <2> QED BY <2>2, <2>3 DEF UnlocksMatchAfter
<1> HIDE DEF f
<1>5. \A k \in 1..n : f[k] \in Int
  <2>1. ASSUME NEW k \in 1..n PROVE f[k] \in Int
    <3>1. Delegated(d, dels, all, {v + k * RewardsDuration}) \in Nat
      BY DelegatedType
    <3> QED BY <3>1, <1>4
  <2> QED BY <2>1
<1>6. 0 \in S
  <2>1. upTo(0) = {}
    <3>1. v + 0 * RewardsDuration = v
      BY <1>3, RewardsDurationAssumption
    <3>2. upTo(0) = {x \in Weeks : v < x /\ x <= v}
      BY <3>1
    <3>3. ASSUME NEW x \in Weeks, v < x, x <= v PROVE FALSE
      BY <3>3, <1>3
    <3>4. {x \in Weeks : v < x /\ x <= v} = {}
      BY <3>3
    <3> HIDE DEF upTo
    <3> QED BY <3>2, <3>4
  <2>2. Delegated(d, dels, all, upTo(0)) = 0
    <3>1. Delegated(d, dels, all, {}) = 0
      BY DelegatedNever
    <3> QED BY <2>1, <3>1
  <2>3. SumTo(f, 0) = 0
    BY SumToZero
  <2> QED BY <2>2, <2>3, <1>1
<1>7. ASSUME NEW k \in 0..n, k \in S, k < n PROVE k + 1 \in S
  <2> DEFINE next == v + (k + 1) * RewardsDuration
  <2>1. SumTo(f, k + 1) = SumTo(f, k) + f[k + 1]
    BY <1>1, <1>5, <1>7, SumToStep
  <2>2. k + 1 \in 1..n /\ k + 1 \in 0..n
    BY <1>1, <1>7
  <2>3. upTo(k + 1) = upTo(k) \cup {next} /\ upTo(k) \cap {next} = {}
    <3>1. PICK a \in Nat : v = a * RewardsDuration
      BY WeeksAreMultiples
    <3>2. next = (a + k + 1) * RewardsDuration /\ v + k * RewardsDuration = (a + k) * RewardsDuration
      BY <3>1, <1>7, RewardsDurationAssumption
    <3>3. (a + k + 1) * RewardsDuration = (a + k) * RewardsDuration + RewardsDuration
          /\ (a + k) * RewardsDuration \in Nat
      BY <3>1, <1>7, RewardsDurationAssumption
    <3>4. next \in Weeks /\ v < next
      BY <2>2, <1>1, <1>4 DEF After
    <3>5. ASSUME NEW x \in Weeks, x <= next PROVE x <= v + k * RewardsDuration \/ x = next
      <4>1. PICK b \in Nat : x = b * RewardsDuration
        BY WeeksAreMultiples
      <4>2. a + k \in Nat /\ a + k + 1 \in Nat /\ RewardsDuration \in Nat
        BY <3>1, <1>7, RewardsDurationAssumption
      <4>3. CASE b <= a + k
        <5>1. b * RewardsDuration <= (a + k) * RewardsDuration
          BY <4>1, <4>2, <4>3, WeeksMonotone
        <5> QED BY <5>1, <4>1, <3>2
      <4>4. CASE b >= a + k + 1
        <5>1. (a + k + 1) * RewardsDuration <= b * RewardsDuration
          BY <4>1, <4>2, <4>4, WeeksMonotone
        <5>2. x >= next
          BY <5>1, <4>1, <3>2
        <5>3. x \in Nat /\ next \in Nat /\ x <= next
          BY <3>4, <3>5, <1>3
        <5> HIDE DEF next
        <5> QED BY <5>2, <5>3
      <4> QED BY <4>1, <4>2, <4>3, <4>4
    <3>6. v + k * RewardsDuration < next /\ v + k * RewardsDuration \in Nat /\ next \in Nat
      BY <3>2, <3>3, <3>4, <1>3, RewardsDurationAssumption
    <3> HIDE DEF next
    <3>7. ASSUME NEW x \in Weeks
          PROVE  x <= next <=> x <= v + k * RewardsDuration \/ x = next
      BY <3>5, <3>6, <1>3
    <3>8. upTo(k + 1) = {x \in Weeks : v < x /\ x <= next}
      BY DEF next
    <3>9. v < next /\ next \in Weeks /\ \A x \in Weeks : x \in Nat
      BY <3>4, <1>3
    <3> DEFINE reached == v + k * RewardsDuration
    <3>10. upTo(k) = {x \in Weeks : v < x /\ x <= reached}
      OBVIOUS
    <3>11. /\ reached < next /\ reached \in Nat
           /\ \A x \in Weeks : x <= next <=> x <= reached \/ x = next
      BY <3>6, <3>7
    <3>12. next \in Nat
      BY <3>6
    <3> DEFINE A == upTo(k + 1)
               B == upTo(k)
    <3>13. /\ A = {x \in Weeks : v < x /\ x <= next}
           /\ B = {x \in Weeks : v < x /\ x <= reached}
      BY <3>8, <3>10
    <3> HIDE DEF A, B, reached
    <3>14. A = B \cup {next}
      BY <3>9, <3>11, <3>13
    <3>15. next \notin B
      BY <3>11, <3>12, <3>13
    <3> QED BY <3>14, <3>15 DEF A, B
  <2>4. f[k + 1] = Delegated(d, dels, all, {next})
    BY <2>2, <1>4
  <2>5. Delegated(d, dels, all, upTo(k + 1))
        = Delegated(d, dels, all, upTo(k)) + Delegated(d, dels, all, {next})
    <3> HIDE DEF upTo, next
    <3> QED BY <2>3, DelegatedUnion
  <2> QED BY <2>1, <2>2, <2>4, <2>5, <1>7
<1>8. 0..n \subseteq S
  <2> HIDE DEF S
  <2> QED BY <1>1, <1>6, <1>7, BoundedInduction
<1>9. n \in S
  BY <1>1, <1>8
<1>10. upTo(n) = WeeksBetween(v, w)
  BY <1>1 DEF WeeksBetween
<1> QED BY <1>2, <1>9, <1>10

\* The sum of the unlocks up to a week depends on the weeks up to it only.
LEMMA UnlocksCongruence ==
  ASSUME NEW unlocks, NEW unlocks2, NEW v \in Weeks, NEW w \in Weeks, v <= w,
         \A x \in Weeks : x <= w => unlocks2[x] = unlocks[x]
  PROVE  UnlocksBetween(unlocks2, v, w) = UnlocksBetween(unlocks, v, w)
<1> DEFINE n == (w - v) \div RewardsDuration
<1>1. /\ n \in Nat /\ v + n * RewardsDuration = w /\ v \in Nat
      /\ \A k \in 1..n : v + k * RewardsDuration \in Weeks
  BY WeekSteps, WeekIsNat
<1> HIDE DEF n
<1>2. ASSUME NEW k \in 1..n
      PROVE  unlocks2[v + k * RewardsDuration] = unlocks[v + k * RewardsDuration]
  <2>1. k \in Nat /\ k <= n
    BY <1>1
  <2>2. k * RewardsDuration <= n * RewardsDuration
    BY <2>1, <1>1, WeeksMonotone
  <2>3. k * RewardsDuration \in Nat /\ n * RewardsDuration \in Nat
    BY <2>1, <1>1, RewardsDurationAssumption
  <2>4. v + k * RewardsDuration <= w
    BY <2>2, <2>3, <1>1
  <2> QED BY <2>4, <1>1
<1>3. [k \in 1..n |-> unlocks2[v + k * RewardsDuration]] = [k \in 1..n |-> unlocks[v + k * RewardsDuration]]
  BY <1>2
<1> QED BY <1>3 DEF UnlocksBetween, n

\* What _checkpointDelegate carries over is what the delegated locks still count.
LEMMA CarriedAreDelegated ==
  ASSUME NEW d, NEW dels, NEW all \in [Accounts -> Seq(LockedBalance)],
         NEW ckpts \in Seq(DelegateeCheckpoint), NEW unlocks, NEW unlocks2, NEW at \in Weeks,
         ckpts # <<>> => ckpts[Len(ckpts)].epochStart <= at,
         VotesMatchAt(d, ckpts, unlocks, dels, all),
         \A x \in Weeks : x <= at => unlocks2[x] = unlocks[x]
  PROVE  CarriedVotes(ckpts, unlocks2, at) = Delegated(d, dels, all, After(at))
<1> DEFINE last == ckpts[Len(ckpts)]
           s == last.epochStart
<1>1. CASE ckpts = <<>>
  <2>1. \A u \in Accounts : dels[u] # d
    BY <1>1 DEF VotesMatchAt
  <2>2. Delegated(d, dels, all, After(at)) = 0
    BY <2>1, DelegatedNever
  <2> QED BY <2>2, <1>1 DEF CarriedVotes
<1>2. CASE ckpts # <<>>
  <2>1. Len(ckpts) \in 1..Len(ckpts)
    BY <1>2
  <2>2. last \in DelegateeCheckpoint
    BY <2>1
  <2>3. s \in Weeks /\ s \in Nat /\ at \in Nat /\ s <= at /\ \A x \in Weeks : x \in Nat
    BY <2>2, <1>2, WeekIsNat DEF DelegateeCheckpoint
  <2>4. /\ last.votes = Delegated(d, dels, all, After(s))
        /\ UnlocksMatchAfter(d, unlocks, dels, all, s)
        /\ \A u \in Accounts : dels[u] = d =>
             \A i \in 1..Len(all[u]) : all[u][i].unlockTime <= s + LockDuration
    BY <1>2 DEF VotesMatchAt
  <2>5. CASE AllExpired(last, at)
    <3>1. s + LockDuration <= at /\ LockDuration \in Nat
      BY <2>5, LockAssumption, RewardsDurationAssumption DEF AllExpired, LockDuration
    <3>2. ASSUME NEW u \in Accounts, dels[u] = d, NEW i \in 1..Len(all[u])
          PROVE  all[u][i].unlockTime \notin After(at)
      <4>1. all[u] \in Seq(LockedBalance)
        OBVIOUS
      <4>2. all[u][i].unlockTime \in Nat
        BY <4>1, EndingType
      <4>3. all[u][i].unlockTime <= s + LockDuration
        BY <3>2, <2>4
      <4> HIDE DEF s
      <4>4. all[u][i].unlockTime <= at
        BY <4>2, <4>3, <3>1, <2>3
      <4> QED BY <4>2, <4>4, <2>3 DEF After
    <3>3. Delegated(d, dels, all, After(at)) = 0
      BY <3>2, DelegatedNever
    <3> QED BY <3>3, <2>5, <1>2 DEF CarriedVotes
  <2>6. CASE ~AllExpired(last, at)
    <3> DEFINE between == WeeksBetween(s, at)
    <3>1. CarriedVotes(ckpts, unlocks2, at) = last.votes - UnlocksBetween(unlocks2, s, at)
      BY <2>6, <1>2 DEF CarriedVotes
    <3>2. UnlocksBetween(unlocks2, s, at) = UnlocksBetween(unlocks, s, at)
      BY <2>3, UnlocksCongruence
    <3>3. UnlocksBetween(unlocks, s, at) = Delegated(d, dels, all, between)
      BY <2>3, <2>4, UnlocksAreEndings
    <3>4. After(s) = between \cup After(at) /\ between \cap After(at) = {}
      <4> HIDE DEF s
      <4>1. \A x \in Weeks : x > s <=> (s < x /\ x <= at) \/ x > at
        BY <2>3
      <4>2. \A x \in Weeks : ~(x <= at /\ x > at)
        BY <2>3
      <4> QED BY <4>1, <4>2 DEF After, WeeksBetween
    <3> HIDE DEF between
    <3>5. Delegated(d, dels, all, After(s))
          = Delegated(d, dels, all, between) + Delegated(d, dels, all, After(at))
      BY <3>4, DelegatedUnion
    <3>6. Delegated(d, dels, all, between) \in Nat /\ Delegated(d, dels, all, After(at)) \in Nat
      BY DelegatedType
    <3> QED BY <3>1, <3>2, <3>3, <3>5, <3>6, <2>4
  <2> QED BY <2>5, <2>6
<1> QED BY <1>1, <1>2

\* So do the unlocks of the weeks to come.
LEMMA UnlocksMatch ==
  ASSUME NEW d, NEW dels, NEW all \in [Accounts -> Seq(LockedBalance)],
         NEW ckpts \in Seq(DelegateeCheckpoint), NEW unlocks, NEW at \in Weeks,
         ckpts # <<>> => ckpts[Len(ckpts)].epochStart <= at,
         VotesMatchAt(d, ckpts, unlocks, dels, all)
  PROVE  UnlocksMatchAfter(d, unlocks, dels, all, at)
<1> SUFFICES ASSUME NEW w \in After(at) PROVE unlocks[w] = Delegated(d, dels, all, {w})
  BY DEF UnlocksMatchAfter
<1>1. w \in Weeks /\ w \in Nat /\ at \in Nat /\ w > at
  BY WeekIsNat DEF After
<1>2. CASE ckpts = <<>>
  <2>1. (\A u \in Accounts : dels[u] # d) /\ unlocks[w] = 0
    BY <1>1, <1>2 DEF VotesMatchAt
  <2>2. Delegated(d, dels, all, {w}) = 0
    BY <2>1, DelegatedNever
  <2> QED BY <2>1, <2>2
<1>3. CASE ckpts # <<>>
  <2>1. Len(ckpts) \in 1..Len(ckpts)
    BY <1>3
  <2>2. ckpts[Len(ckpts)] \in DelegateeCheckpoint
    BY <2>1
  <2>3. ckpts[Len(ckpts)].epochStart \in Nat
    BY <2>2, WeekIsNat DEF DelegateeCheckpoint
  <2>4. w \in After(ckpts[Len(ckpts)].epochStart)
    BY <2>3, <1>1, <1>3 DEF After
  <2> QED BY <2>4, <1>3 DEF VotesMatchAt, UnlocksMatchAfter
<1> QED BY <1>2, <1>3

\* A new checkpoint counts what was carried over and what is added or deducted with it.
LEMMA CheckpointMatches ==
  ASSUME now \in StartTime..MaxTime, NEW d,
         NEW dels, NEW all \in [Accounts -> Seq(LockedBalance)],
         NEW dels2, NEW all2 \in [Accounts -> Seq(LockedBalance)],
         NEW ckpts \in Seq(DelegateeCheckpoint), NEW unlocks, NEW unlocks2,
         NEW addition, NEW deduction,
         ckpts # <<>> => ckpts[Len(ckpts)].epochStart <= UpcomingEpoch,
         VotesMatchAt(d, ckpts, unlocks, dels, all),
         \A x \in Weeks : x <= UpcomingEpoch => unlocks2[x] = unlocks[x],
         Delegated(d, dels2, all2, After(UpcomingEpoch))
           = Delegated(d, dels, all, After(UpcomingEpoch)) + addition - deduction,
         UnlocksMatchAfter(d, unlocks2, dels2, all2, UpcomingEpoch),
         \A u \in Accounts : dels2[u] = d =>
           \A i \in 1..Len(all2[u]) : all2[u][i].unlockTime <= UpcomingEpoch + LockDuration
  PROVE  /\ CarriedVotes(ckpts, unlocks2, UpcomingEpoch) = Delegated(d, dels, all, After(UpcomingEpoch))
         /\ VotesMatchAt(d, CheckpointDelegate(ckpts, unlocks2, addition, deduction), unlocks2, dels2, all2)
<1> DEFINE n == Len(ckpts)
           votes == CarriedVotes(ckpts, unlocks2, UpcomingEpoch) + addition - deduction
           ckpt == [votes |-> votes, epochStart |-> UpcomingEpoch]
           new == CheckpointDelegate(ckpts, unlocks2, addition, deduction)
<1>1. UpcomingEpoch \in Weeks /\ n \in Nat
  BY Calendar
<1>2. CarriedVotes(ckpts, unlocks2, UpcomingEpoch) = Delegated(d, dels, all, After(UpcomingEpoch))
  BY <1>1, CarriedAreDelegated
<1>3. votes = Delegated(d, dels2, all2, After(UpcomingEpoch)) /\ votes \in Nat
  BY <1>2, DelegatedType
<1>4. new = IF ckpts # <<>> /\ ckpts[n].epochStart = UpcomingEpoch
            THEN [ckpts EXCEPT ![n] = ckpt] ELSE Append(ckpts, ckpt)
  BY DEF CheckpointDelegate
<1> HIDE DEF votes
<1>5. ckpt \in DelegateeCheckpoint /\ ckpt.votes = votes /\ ckpt.epochStart = UpcomingEpoch
  BY <1>1, <1>3 DEF DelegateeCheckpoint
<1> HIDE DEF ckpt, new
<1>6. new # <<>> /\ new[Len(new)] = ckpt
  <2>1. CASE ckpts # <<>> /\ ckpts[n].epochStart = UpcomingEpoch
    <3>1. n \in 1..n
      BY <2>1
    <3>2. /\ Len([ckpts EXCEPT ![n] = ckpt]) = n /\ [ckpts EXCEPT ![n] = ckpt][n] = ckpt
          /\ [ckpts EXCEPT ![n] = ckpt] \in Seq(DelegateeCheckpoint)
      BY <3>1, <1>5, ExceptSeq
    <3>3. new = [ckpts EXCEPT ![n] = ckpt]
      BY <2>1, <1>4
    <3>4. new \in Seq(DelegateeCheckpoint) /\ Len(new) = n /\ new[n] = ckpt /\ n # 0
      BY <3>1, <3>2, <3>3
    <3> QED BY <3>4, EmptySeq
  <2>2. CASE ~(ckpts # <<>> /\ ckpts[n].epochStart = UpcomingEpoch)
    <3>1. /\ Append(ckpts, ckpt) \in Seq(DelegateeCheckpoint)
          /\ Len(Append(ckpts, ckpt)) = n + 1 /\ Append(ckpts, ckpt)[n + 1] = ckpt
      BY <1>5, AppendProperties
    <3>2. new = Append(ckpts, ckpt)
      BY <2>2, <1>4
    <3>3. new \in Seq(DelegateeCheckpoint) /\ Len(new) = n + 1 /\ new[n + 1] = ckpt /\ n + 1 # 0
      BY <3>1, <3>2, <1>1
    <3> QED BY <3>3, EmptySeq
  <2> QED BY <2>1, <2>2
<1>7. VotesMatchAt(d, new, unlocks2, dels2, all2)
  BY <1>3, <1>5, <1>6 DEF VotesMatchAt
<1> QED BY <1>2, <1>7 DEF new

\* What other accounts do is not a delegatee's concern.
LEMMA MatchFrame ==
  ASSUME NEW d, NEW dels, NEW all, NEW dels2, NEW all2, NEW ckpts, NEW unlocks,
         VotesMatchAt(d, ckpts, unlocks, dels, all),
         \A a \in Accounts : /\ dels2[a] = d <=> dels[a] = d
                             /\ dels[a] = d => all2[a] = all[a]
  PROVE  VotesMatchAt(d, ckpts, unlocks, dels2, all2)
<1>1. ASSUME NEW W PROVE Delegated(d, dels2, all2, W) = Delegated(d, dels, all, W)
  <2>1. \A u \in Accounts : Share(d, dels2, all2, W, u) = Share(d, dels, all, W, u)
    BY DEF Share
  <2> QED BY <2>1, DelegatedCongruence
<1>2. CASE ckpts = <<>>
  BY <1>2 DEF VotesMatchAt
<1>3. CASE ckpts # <<>>
  <2> DEFINE last == ckpts[Len(ckpts)]
  <2>1. /\ last.votes = Delegated(d, dels, all, After(last.epochStart))
        /\ UnlocksMatchAfter(d, unlocks, dels, all, last.epochStart)
        /\ \A u \in Accounts : dels[u] = d =>
             \A i \in 1..Len(all[u]) : all[u][i].unlockTime <= last.epochStart + LockDuration
    BY <1>3 DEF VotesMatchAt
  <2> HIDE DEF last
  <2>2. /\ last.votes = Delegated(d, dels2, all2, After(last.epochStart))
        /\ UnlocksMatchAfter(d, unlocks, dels2, all2, last.epochStart)
    BY <2>1, <1>1 DEF UnlocksMatchAfter
  <2>3. \A u \in Accounts : dels2[u] = d =>
          \A i \in 1..Len(all2[u]) : all2[u][i].unlockTime <= last.epochStart + LockDuration
    BY <2>1
  <2> QED BY <2>2, <2>3, <1>3 DEF VotesMatchAt, last
<1> QED BY <1>2, <1>3

\* A delegation moves exactly the locks that outlive the upcoming epoch.
LEMMA MovedLocks ==
  ASSUME NEW locks \in Seq(LockedBalance), UpcomingEpoch \in Weeks, NEW latest, Dated(locks, latest)
  PROVE  /\ LockSum(locks, FirstMoved(locks) - 1, Len(locks)) = Ending(locks, After(UpcomingEpoch))
         /\ \A w \in Weeks : MovedAt(locks, w) = IF w \in After(UpcomingEpoch) THEN Ending(locks, {w}) ELSE 0
<1> DEFINE n == Len(locks)
           fm == FirstMoved(locks)
           T == {i \in 1..(n + 1) : \A k \in i..n : locks[k].unlockTime > UpcomingEpoch}
<1>1. /\ n \in Nat /\ UpcomingEpoch \in Nat
      /\ \A i \in 1..n : /\ locks[i] \in LockedBalance /\ locks[i].amount \in Nat
                         /\ locks[i].unlockTime \in Weeks /\ locks[i].unlockTime \in Nat
      /\ \A i, j \in 1..n : i < j => locks[i].unlockTime < locks[j].unlockTime
  BY EndingType, WeekIsNat DEF Dated
<1>2. fm \in 1..(n + 1) /\ fm \in T /\ \A i \in T : fm <= i
  <2>1. FirstMoved(locks) = Min(T)
    BY DEF FirstMoved
  <2>2. T \in SUBSET (0..(n + 1)) /\ n + 1 \in T /\ n + 1 \in Nat
    BY <1>1
  <2>3. \E i \in T : \A k \in T : i <= k
    <3> HIDE DEF T
    <3> QED BY <2>2, LeastElement
  <2>4. T \in SUBSET (1..(n + 1))
    OBVIOUS
  <2> HIDE DEF T
  <2>5. Min(T) \in T /\ \A k \in T : Min(T) <= k
    BY <2>3, <2>4 DEF Min
  <2> QED BY <2>1, <2>4, <2>5
<1>3. ASSUME NEW i \in 1..n PROVE i >= fm <=> locks[i].unlockTime \in After(UpcomingEpoch)
  <2>1. ASSUME i >= fm PROVE locks[i].unlockTime > UpcomingEpoch
    <3>1. i \in fm..n
      BY <2>1, <1>1, <1>2
    <3>2. \A k \in fm..n : locks[k].unlockTime > UpcomingEpoch
      BY <1>2
    <3> QED BY <3>1, <3>2
  <2>2. ASSUME locks[i].unlockTime > UpcomingEpoch PROVE i >= fm
    <3>1. ASSUME NEW k \in i..n PROVE locks[k].unlockTime > UpcomingEpoch
      <4>1. k \in 1..n /\ (k = i \/ i < k)
        BY <1>1
      <4>2. locks[k].unlockTime = locks[i].unlockTime \/ locks[i].unlockTime < locks[k].unlockTime
        BY <4>1, <1>1
      <4> QED BY <4>1, <4>2, <2>2, <1>1
    <3>2. i \in T
      BY <3>1, <1>1
    <3> HIDE DEF T, fm
    <3> QED BY <3>2, <1>1, <1>2
  <2>3. locks[i].unlockTime \in Weeks
    BY <1>1
  <2> QED BY <2>1, <2>2, <2>3 DEF After
<1> HIDE DEF T, fm
<1>4. LockSum(locks, fm - 1, n) = Ending(locks, After(UpcomingEpoch))
  <2> DEFINE f == [i \in 1..n |-> locks[i].amount]
             g == [i \in 1..n |-> IF locks[i].unlockTime \in After(UpcomingEpoch)
                                  THEN locks[i].amount ELSE 0]
  <2>1. \A i \in 1..n : f[i] \in Int /\ g[i] \in Int
    BY <1>1
  <2>2. fm - 1 \in 0..n /\ fm - 1 \in Nat
    BY <1>1, <1>2
  <2>3. ASSUME NEW i \in ((fm - 1) + 1)..n PROVE f[i] = g[i]
    <3>1. i \in 1..n /\ i >= fm
      BY <1>1, <1>2
    <3> QED BY <3>1, <1>3
  <2>4. \A i \in 1..(fm - 1) : g[i] = 0
    <3>1. ASSUME NEW i \in 1..(fm - 1) PROVE g[i] = 0
      <4>1. i \in 1..n /\ ~(i >= fm)
        BY <1>1, <1>2
      <4> QED BY <4>1, <1>3
    <3> QED BY <3>1
  <2>5. /\ LockSum(locks, fm - 1, n) = SumBetween(f, fm - 1, n)
        /\ Ending(locks, After(UpcomingEpoch)) = SumTo(g, n)
    BY DEF LockSum, Ending
  <2> HIDE DEF f, g
  <2>6. SumBetween(f, fm - 1, n) = SumBetween(g, fm - 1, n)
    BY <2>1, <2>2, <2>3, <1>1, SumBetweenCongruence
  <2>7. SumTo(g, fm - 1) = 0
    <3> DEFINE z == [i \in 1..(fm - 1) |-> 0]
    <3>1. \A i \in 1..(fm - 1) : z[i] \in Int /\ g[i] = z[i]
      BY <2>4
    <3>2. SumTo(z, fm - 1) = 0
      BY <2>2, SumOfZeros
    <3> HIDE DEF z
    <3> QED BY <3>1, <3>2, <2>2, SumToCongruence
  <2>8. SumTo(g, n) \in Int
    BY <2>1, <1>1, SumToUnfold
  <2> QED BY <2>5, <2>6, <2>7, <2>8 DEF SumBetween
<1>5. ASSUME NEW w \in Weeks
      PROVE  MovedAt(locks, w) = IF w \in After(UpcomingEpoch) THEN Ending(locks, {w}) ELSE 0
  <2> DEFINE W == IF w \in After(UpcomingEpoch) THEN {w} ELSE {}
             at == [i \in 1..n |-> IF i >= FirstMoved(locks) /\ locks[i].unlockTime = w THEN locks[i]
                                   ELSE [amount |-> 0, unlockTime |-> w]]
             f == [i \in 1..n |-> at[i].amount]
             g == [i \in 1..n |-> IF locks[i].unlockTime \in W THEN locks[i].amount ELSE 0]
  <2>1. MovedAt(locks, w) = LockSum(at, 0, n) /\ Len(at) = n
    BY <1>1 DEF MovedAt
  <2>2. ASSUME NEW i \in 1..n PROVE f[i] = g[i]
    <3>1. i >= fm <=> locks[i].unlockTime \in After(UpcomingEpoch)
      BY <1>3
    <3>2. at[i].amount = IF i >= fm /\ locks[i].unlockTime = w THEN locks[i].amount ELSE 0
      BY DEF fm
    <3>3. f[i] = at[i].amount /\ g[i] = IF locks[i].unlockTime \in W THEN locks[i].amount ELSE 0
      OBVIOUS
    <3>4. (i >= fm /\ locks[i].unlockTime = w) <=> locks[i].unlockTime \in W
      BY <3>1
    <3> HIDE DEF at, f, g, W
    <3> QED BY <3>2, <3>3, <3>4
  <2>3. f = g
    BY <2>2
  <2>4. LockSum(at, 0, n) = SumTo(f, n) - SumTo(f, 0) /\ Ending(locks, W) = SumTo(g, n)
    BY <2>1 DEF LockSum, SumBetween, Ending
  <2>5. Ending(locks, W) \in Nat
    BY EndingType
  <2> HIDE DEF at, f, g
  <2>6. MovedAt(locks, w) = Ending(locks, W)
    BY <2>1, <2>3, <2>4, <2>5, SumToZero
  <2>7. Ending(locks, {}) = 0
    BY EndingNever
  <2> QED BY <2>6, <2>7
<1> QED BY <1>4, <1>5 DEF fm

\* All delegatees' checkpoints and unlocks.
AllMatch(ckpts, unlocks, dels, all) ==
  \A d \in Delegatees : VotesMatchAt(d, ckpts[d], unlocks[d], dels, all)

VotesMatch == AllMatch(checkpointedVotes, delegateeUnlocks, delegates, userLocks)

\* What the votes are made of, as far as the invariant says.
LEMMA VoteFacts ==
  ASSUME IInv, DatesOK
  PROVE  /\ userLocks \in [Accounts -> Seq(LockedBalance)]
         /\ delegates \in [Accounts -> Delegatees \cup {NoOne}] /\ NoOne \notin Delegatees
         /\ delegateeUnlocks \in [Delegatees -> [Weeks -> Nat]]
         /\ now \in StartTime..MaxTime
         /\ UpcomingEpoch \in Weeks /\ UnlockTime \in Weeks /\ UnlockTime \in After(UpcomingEpoch)
         /\ UnlockTime <= UpcomingEpoch + LockDuration
         /\ \A u \in Accounts : /\ Dated(userLocks[u], UnlockTime)
                                /\ \A i \in 1..Len(userLocks[u]) :
                                     userLocks[u][i].unlockTime <= UpcomingEpoch + LockDuration
<1>1. /\ userLocks \in [Accounts -> Seq(LockedBalance)]
      /\ delegates \in [Accounts -> Delegatees \cup {NoOne}] /\ NoOne \notin Delegatees
      /\ delegateeUnlocks \in [Delegatees -> [Weeks -> Nat]]
      /\ now \in StartTime..MaxTime
  BY AccountsAssumption DEF IInv, LocksOK, VotesOK, AdminOK
<1>2. /\ UpcomingEpoch \in Weeks /\ UnlockTime \in Weeks /\ CurrentEpoch \in Weeks
      /\ UpcomingEpoch = CurrentEpoch + RewardsDuration
      /\ CurrentEpoch + 2 * RewardsDuration <= UnlockTime
      /\ UnlockTime = CurrentEpoch + LockDuration
  BY <1>1, Calendar DEF UnlockTime
<1>3. UpcomingEpoch \in Nat /\ UnlockTime \in Nat /\ CurrentEpoch \in Nat /\ LockDuration \in Nat
      /\ RewardsDuration \in Nat \ {0}
  BY <1>2, WeekIsNat, LockAssumption, RewardsDurationAssumption DEF LockDuration
<1>4. UnlockTime \in After(UpcomingEpoch) /\ UnlockTime <= UpcomingEpoch + LockDuration
  BY <1>2, <1>3 DEF After
<1>5. ASSUME NEW u \in Accounts, NEW i \in 1..Len(userLocks[u])
      PROVE  userLocks[u][i].unlockTime <= UpcomingEpoch + LockDuration
  <2>1. userLocks[u][i].unlockTime \in Nat /\ userLocks[u][i].unlockTime <= UnlockTime
    BY LockFacts DEF DatesOK, Dated
  <2> QED BY <2>1, <1>3, <1>4
<1> QED BY <1>1, <1>2, <1>4, <1>5 DEF DatesOK

\* _lock adds the new lock to the votes of the account's delegatee.
LEMMA LockTokensMatch ==
  ASSUME IInv, DatesOK, UNCHANGED <<now, delegates>>,
         NEW sender, NEW u \in Accounts, NEW amount \in Nat, NEW bals, NEW supply,
         NEW ckpts, CheckpointsOK(ckpts),
         AllMatch(ckpts, delegateeUnlocks, delegates, userLocks),
         LockTokens(sender, u, amount, bals, supply, ckpts)
  PROVE  VotesMatch'
<1> DEFINE locks == userLocks[u]
           all2 == [userLocks EXCEPT ![u] = WithLock(@, amount)]
           d == delegates[u]
           unlocks == delegateeUnlocks[d]
           unlocks2 == [unlocks EXCEPT ![UnlockTime] = @ + amount]
<1>1. /\ userLocks \in [Accounts -> Seq(LockedBalance)] /\ locks \in Seq(LockedBalance)
      /\ delegates \in [Accounts -> Delegatees \cup {NoOne}] /\ NoOne \notin Delegatees
      /\ delegateeUnlocks \in [Delegatees -> [Weeks -> Nat]]
      /\ now \in StartTime..MaxTime
      /\ UpcomingEpoch \in Weeks /\ UnlockTime \in Weeks /\ UnlockTime \in After(UpcomingEpoch)
      /\ UnlockTime <= UpcomingEpoch + LockDuration
      /\ \A a \in Accounts : /\ Dated(userLocks[a], UnlockTime)
                             /\ \A i \in 1..Len(userLocks[a]) :
                                  userLocks[a][i].unlockTime <= UpcomingEpoch + LockDuration
  BY VoteFacts
<1>2. userLocks' = all2 /\ delegates' = delegates
  BY DEF LockTokens
<1>3. WithLock(locks, amount) \in Seq(LockedBalance) /\ Dated(WithLock(locks, amount), UnlockTime)
  BY <1>1, WithLockEntries, WithLockDated
<1>4. /\ all2 \in [Accounts -> Seq(LockedBalance)] /\ all2[u] = WithLock(locks, amount)
      /\ \A a \in Accounts : a # u => all2[a] = userLocks[a]
  BY <1>1, <1>3
<1> HIDE DEF all2
<1>5. ASSUME NEW c \in Delegatees, c # d
      PROVE  VotesMatchAt(c, checkpointedVotes'[c], delegateeUnlocks'[c], delegates, all2)
  <2>1. checkpointedVotes'[c] = ckpts[c] /\ delegateeUnlocks'[c] = delegateeUnlocks[c]
    BY <1>1, <1>5 DEF LockTokens, CheckpointsOK
  <2>2. VotesMatchAt(c, ckpts[c], delegateeUnlocks[c], delegates, userLocks)
    BY DEF AllMatch
  <2>3. \A a \in Accounts : delegates[a] = c => all2[a] = userLocks[a]
    BY <1>4, <1>5
  <2> QED BY <2>1, <2>2, <2>3, MatchFrame
<1>6. ASSUME d \in Delegatees
      PROVE  VotesMatchAt(d, checkpointedVotes'[d], delegateeUnlocks'[d], delegates, all2)
  <2>1. /\ delegateeUnlocks' = [delegateeUnlocks EXCEPT ![d][UnlockTime] = @ + amount]
        /\ checkpointedVotes' = [ckpts EXCEPT ![d] = CheckpointDelegate(@, delegateeUnlocks'[d], amount, 0)]
    BY <1>1, <1>6 DEF LockTokens
  <2>2. delegateeUnlocks'[d] = unlocks2 /\ unlocks \in [Weeks -> Nat]
    BY <2>1, <1>1, <1>6
  <2>3. /\ ckpts[d] \in Seq(DelegateeCheckpoint)
        /\ ckpts[d] # <<>> => ckpts[d][Len(ckpts[d])].epochStart <= UpcomingEpoch
        /\ checkpointedVotes'[d] = CheckpointDelegate(ckpts[d], unlocks2, amount, 0)
    BY <2>1, <2>2, <1>6 DEF CheckpointsOK
  <2>4. VotesMatchAt(d, ckpts[d], unlocks, delegates, userLocks)
    BY <1>6 DEF AllMatch
  <2>5. ASSUME NEW W
        PROVE  Delegated(d, delegates, all2, W)
                 = Delegated(d, delegates, userLocks, W) + (IF UnlockTime \in W THEN amount ELSE 0)
    <3>1. Delegated(d, delegates, all2, W)
            = Delegated(d, delegates, userLocks, W) + Ending(all2[u], W) - Ending(locks, W)
      <4>1. userLocks \in [Accounts -> Seq(LockedBalance)] /\ all2 \in [Accounts -> Seq(LockedBalance)]
            /\ \A a \in Accounts : a # u => delegates[a] = delegates[a] /\ all2[a] = userLocks[a]
        BY <1>1, <1>4
      <4>2. Delegated(d, delegates, all2, W)
              = Delegated(d, delegates, userLocks, W) + Share(d, delegates, all2, W, u)
                                                      - Share(d, delegates, userLocks, W, u)
        <5> HIDE DEF d
        <5> QED BY <4>1, DelegatedUpdate
      <4> QED BY <4>2 DEF Share
    <3>2. Ending(all2[u], W) = Ending(locks, W) + (IF UnlockTime \in W THEN amount ELSE 0)
      BY <1>1, <1>4, WithLockEnding
    <3>3. Ending(locks, W) \in Nat /\ Delegated(d, delegates, userLocks, W) \in Nat
      BY <1>1, EndingType, DelegatedType
    <3> QED BY <3>1, <3>2, <3>3
  <2>6. /\ unlocks2[UnlockTime] = unlocks[UnlockTime] + amount
        /\ \A x \in Weeks : x # UnlockTime => unlocks2[x] = unlocks[x]
    BY <2>2, <1>1
  <2> HIDE DEF d, unlocks, unlocks2
  <2>7. \A x \in Weeks : x <= UpcomingEpoch => unlocks2[x] = unlocks[x]
    <3>1. UpcomingEpoch \in Nat /\ UnlockTime \in Nat /\ UnlockTime > UpcomingEpoch
      BY <1>1, WeekIsNat DEF After
    <3> QED BY <3>1, <2>6
  <2>8. Delegated(d, delegates, all2, After(UpcomingEpoch))
          = Delegated(d, delegates, userLocks, After(UpcomingEpoch)) + amount - 0
    <3>1. Delegated(d, delegates, userLocks, After(UpcomingEpoch)) \in Nat
      BY <1>1, DelegatedType
    <3> QED BY <3>1, <2>5, <1>1
  <2>9. UnlocksMatchAfter(d, unlocks2, delegates, all2, UpcomingEpoch)
    <3>1. UnlocksMatchAfter(d, unlocks, delegates, userLocks, UpcomingEpoch)
      BY <1>1, <2>3, <2>4, UnlocksMatch
    <3>2. ASSUME NEW w \in After(UpcomingEpoch) PROVE unlocks2[w] = Delegated(d, delegates, all2, {w})
      <4>1. unlocks[w] = Delegated(d, delegates, userLocks, {w}) /\ w \in Weeks
        BY <3>1 DEF UnlocksMatchAfter, After
      <4>2. Delegated(d, delegates, userLocks, {w}) \in Nat
        BY <1>1, DelegatedType
      <4>3. CASE w = UnlockTime
        <5>1. Delegated(d, delegates, all2, {w}) = Delegated(d, delegates, userLocks, {w}) + amount
          BY <2>5, <4>3
        <5> QED BY <5>1, <4>1, <4>3, <2>6
      <4>4. CASE w # UnlockTime
        <5>1. Delegated(d, delegates, all2, {w}) = Delegated(d, delegates, userLocks, {w}) + 0
          BY <2>5, <4>4
        <5> QED BY <5>1, <4>1, <4>2, <4>4, <2>6
      <4> QED BY <4>3, <4>4
    <3> QED BY <3>2 DEF UnlocksMatchAfter
  <2>10. ASSUME NEW a \in Accounts, NEW i \in 1..Len(all2[a])
         PROVE  all2[a][i].unlockTime <= UpcomingEpoch + LockDuration
    <3>1. CASE a # u
      BY <3>1, <1>1, <1>4, <2>10
    <3>2. CASE a = u
      <4>1. all2[u][i].unlockTime <= UnlockTime /\ all2[u] \in Seq(LockedBalance)
        BY <3>2, <1>3, <1>4, <2>10 DEF Dated
      <4>2. all2[u][i].unlockTime \in Nat
        BY <4>1, <3>2, <2>10, EndingType
      <4>3. UnlockTime \in Nat /\ UpcomingEpoch \in Nat /\ LockDuration \in Nat
        BY <1>1, WeekIsNat, LockAssumption, RewardsDurationAssumption DEF LockDuration
      <4> QED BY <4>1, <4>2, <4>3, <3>2, <1>1
    <3> QED BY <3>1, <3>2
  <2>11. VotesMatchAt(d, CheckpointDelegate(ckpts[d], unlocks2, amount, 0), unlocks2, delegates, all2)
    BY <1>1, <1>4, <2>3, <2>4, <2>7, <2>8, <2>9, <2>10, CheckpointMatches
  <2> QED BY <2>2, <2>3, <2>11
<1> QED BY <1>2, <1>5, <1>6 DEF VotesMatch, AllMatch

\* _processExpiredLocks checkpoints the account's delegatee; the votes of processed
\* locks have ended by themselves.
LEMMA ProcessedMatch ==
  ASSUME IInv, DatesOK, VotesMatch,
         NEW u \in Accounts, NEW relock \in BOOLEAN, NEW rewardAddress \in Accounts,
         NEW delay \in Nat, NEW amount \in Nat, NEW reward \in Nat, NEW next \in Nat,
         Processed(u, relock, rewardAddress, delay, amount, reward, next)
  PROVE  VotesMatch'
<1> DEFINE d == delegates[u]
           new == CheckpointDelegate(checkpointedVotes[d], delegateeUnlocks[d], 0, 0)
           ckpts == IF d = NoOne THEN checkpointedVotes ELSE [checkpointedVotes EXCEPT ![d] = new]
           bals == [balances EXCEPT ![u] = [locked |-> balances[u].locked - amount, nextUnlockIndex |-> next]]
<1>1. /\ userLocks \in [Accounts -> Seq(LockedBalance)]
      /\ delegates \in [Accounts -> Delegatees \cup {NoOne}] /\ NoOne \notin Delegatees
      /\ delegateeUnlocks \in [Delegatees -> [Weeks -> Nat]]
      /\ now \in StartTime..MaxTime /\ UpcomingEpoch \in Weeks
      /\ \A a \in Accounts : \A i \in 1..Len(userLocks[a]) :
           userLocks[a][i].unlockTime <= UpcomingEpoch + LockDuration
  BY VoteFacts
<1>2. CheckpointsOK(checkpointedVotes) /\ checkpointedVotes \in [Delegatees -> Seq(DelegateeCheckpoint)]
  BY DEF IInv, VotesOK, CheckpointsOK
<1>3. d # NoOne => CanCheckpoint(checkpointedVotes[d], delegateeUnlocks[d], 0, 0)
  BY DEF Processed
<1>4. CheckpointsOK(ckpts)
  <2>1. CASE d = NoOne
    BY <2>1, <1>2
  <2>2. CASE d # NoOne
    <3>1. d \in Delegatees /\ delegateeUnlocks[d] \in [Weeks -> Nat]
      BY <2>2, <1>1
    <3>2. CheckpointsOK([checkpointedVotes EXCEPT ![d] = CheckpointDelegate(@, delegateeUnlocks[d], 0, 0)])
      <4> HIDE DEF d
      <4> QED BY <3>1, <2>2, <1>1, <1>2, <1>3, CheckpointKeeps
    <3> QED BY <3>2, <2>2
  <2> QED BY <2>1, <2>2
<1>5. AllMatch(ckpts, delegateeUnlocks, delegates, userLocks)
  <2>1. ASSUME NEW c \in Delegatees, c # d
        PROVE  VotesMatchAt(c, ckpts[c], delegateeUnlocks[c], delegates, userLocks)
    <3>1. ckpts[c] = checkpointedVotes[c]
      BY <2>1, <1>2
    <3>2. VotesMatchAt(c, checkpointedVotes[c], delegateeUnlocks[c], delegates, userLocks)
      BY DEF VotesMatch, AllMatch
    <3> QED BY <3>1, <3>2
  <2>2. ASSUME d \in Delegatees
        PROVE  VotesMatchAt(d, ckpts[d], delegateeUnlocks[d], delegates, userLocks)
    <3>1. ckpts[d] = new
      BY <2>2, <1>1, <1>2
    <3>2. VotesMatchAt(d, checkpointedVotes[d], delegateeUnlocks[d], delegates, userLocks)
      BY <2>2 DEF VotesMatch, AllMatch
    <3>3. /\ checkpointedVotes[d] \in Seq(DelegateeCheckpoint)
          /\ checkpointedVotes[d] # <<>>
               => checkpointedVotes[d][Len(checkpointedVotes[d])].epochStart <= UpcomingEpoch
      BY <2>2, <1>2 DEF CheckpointsOK
    <3> HIDE DEF d
    <3>4. UnlocksMatchAfter(d, delegateeUnlocks[d], delegates, userLocks, UpcomingEpoch)
      BY <3>2, <3>3, <1>1, UnlocksMatch
    <3>5. Delegated(d, delegates, userLocks, After(UpcomingEpoch))
            = Delegated(d, delegates, userLocks, After(UpcomingEpoch)) + 0 - 0
      <4>1. Delegated(d, delegates, userLocks, After(UpcomingEpoch)) \in Nat
        BY <1>1, DelegatedType
      <4> QED BY <4>1
    <3>6. VotesMatchAt(d, new, delegateeUnlocks[d], delegates, userLocks)
      BY <3>2, <3>3, <3>4, <3>5, <1>1, CheckpointMatches
    <3> QED BY <3>1, <3>6
  <2> QED BY <2>1, <2>2 DEF AllMatch
<1>6. CASE relock
  <2>1. LockTokens(rewardAddress, u, amount, bals, lockedSupply - amount, ckpts)
        /\ UNCHANGED <<now, delegates>>
    BY <1>6 DEF Processed
  <2> HIDE DEF bals, ckpts
  <2> QED BY <2>1, <1>4, <1>5, LockTokensMatch
<1>7. CASE ~relock
  <2>1. checkpointedVotes' = ckpts /\ UNCHANGED <<userLocks, delegateeUnlocks, delegates>>
    BY <1>7 DEF Processed
  <2> QED BY <2>1, <1>5 DEF VotesMatch, AllMatch
<1> QED BY <1>6, <1>7

\* The delegatees that gain and lose by a delegation gain and lose the same locks.
LEMMA DelegationMatches ==
  ASSUME IInv, DatesOK, VotesMatch, NEW u \in Accounts, NEW newDelegatee \in Delegatees,
         newDelegatee # delegates[u], NEW d \in {newDelegatee, delegates[u]}, d \in Delegatees,
         NEW dels2, dels2 = [delegates EXCEPT ![u] = newDelegatee],
         NEW moved, moved = LockSum(userLocks[u], FirstMoved(userLocks[u]) - 1, Len(userLocks[u])),
         NEW unlocks2,
         \A w \in Weeks : unlocks2[w] = delegateeUnlocks[d][w]
                                          + (IF d = newDelegatee THEN MovedAt(userLocks[u], w)
                                             ELSE - MovedAt(userLocks[u], w)),
         NEW addition, addition = IF d = newDelegatee THEN moved ELSE 0,
         NEW deduction, deduction = IF d = newDelegatee THEN 0 ELSE moved
  PROVE  VotesMatchAt(d, CheckpointDelegate(checkpointedVotes[d], unlocks2, addition, deduction),
                      unlocks2, dels2, userLocks)
<1> DEFINE locks == userLocks[u]
           unlocks == delegateeUnlocks[d]
           at == UpcomingEpoch
<1>1. /\ userLocks \in [Accounts -> Seq(LockedBalance)] /\ locks \in Seq(LockedBalance)
      /\ delegates \in [Accounts -> Delegatees \cup {NoOne}]
      /\ unlocks \in [Weeks -> Nat]
      /\ now \in StartTime..MaxTime /\ at \in Weeks
      /\ Dated(locks, UnlockTime)
      /\ \A a \in Accounts : \A i \in 1..Len(userLocks[a]) :
           userLocks[a][i].unlockTime <= at + LockDuration
  BY VoteFacts
<1>2. /\ checkpointedVotes[d] \in Seq(DelegateeCheckpoint)
      /\ checkpointedVotes[d] # <<>>
           => checkpointedVotes[d][Len(checkpointedVotes[d])].epochStart <= at
      /\ VotesMatchAt(d, checkpointedVotes[d], unlocks, delegates, userLocks)
  BY DEF IInv, VotesOK, CheckpointsOK, VotesMatch, AllMatch
<1>3. /\ moved = Ending(locks, After(at))
      /\ \A w \in Weeks : MovedAt(locks, w) = IF w \in After(at) THEN Ending(locks, {w}) ELSE 0
  BY <1>1, MovedLocks
<1>4. dels2[u] = newDelegatee /\ \A a \in Accounts : a # u => dels2[a] = delegates[a]
  BY <1>1
<1> HIDE DEF locks, unlocks, at
<1>5. ASSUME NEW W
      PROVE  Delegated(d, dels2, userLocks, W)
               = Delegated(d, delegates, userLocks, W)
                 + (IF d = newDelegatee THEN Ending(locks, W) ELSE - Ending(locks, W))
  <2>1. Delegated(d, dels2, userLocks, W)
          = Delegated(d, delegates, userLocks, W) + Share(d, dels2, userLocks, W, u)
                                                  - Share(d, delegates, userLocks, W, u)
    <3>1. userLocks \in [Accounts -> Seq(LockedBalance)] /\ u \in Accounts
          /\ \A a \in Accounts : a # u => dels2[a] = delegates[a] /\ userLocks[a] = userLocks[a]
      BY <1>1, <1>4
    <3> HIDE DEF locks
    <3> QED BY ONLY <3>1, DelegatedUpdate
  <2>2. Ending(locks, W) \in Nat /\ Delegated(d, delegates, userLocks, W) \in Nat
    BY <1>1, EndingType, DelegatedType
  <2>3. /\ Share(d, dels2, userLocks, W, u) = IF d = newDelegatee THEN Ending(locks, W) ELSE 0
        /\ Share(d, delegates, userLocks, W, u) = IF d = newDelegatee THEN 0 ELSE Ending(locks, W)
    BY <1>4 DEF Share, locks
  <2> QED BY <2>1, <2>2, <2>3
<1>6. \A x \in Weeks : x <= at => unlocks2[x] = unlocks[x]
  <2>1. ASSUME NEW x \in Weeks, x <= at PROVE unlocks2[x] = unlocks[x]
    <3>1. x \notin After(at)
      <4>1. x \in Nat /\ at \in Nat
        BY <1>1, WeekIsNat
      <4> QED BY <4>1, <2>1 DEF After
    <3>2. MovedAt(locks, x) = 0 /\ unlocks[x] \in Nat
      BY <3>1, <1>1, <1>3
    <3>3. unlocks2[x] = unlocks[x] + (IF d = newDelegatee THEN MovedAt(locks, x) ELSE - MovedAt(locks, x))
      BY DEF locks, unlocks
    <3> QED BY <3>2, <3>3
  <2> QED BY <2>1
<1>7. Delegated(d, dels2, userLocks, After(at))
        = Delegated(d, delegates, userLocks, After(at)) + addition - deduction
  <2>1. Ending(locks, After(at)) \in Nat /\ Delegated(d, delegates, userLocks, After(at)) \in Nat
    BY <1>1, EndingType, DelegatedType
  <2>2. Delegated(d, dels2, userLocks, After(at))
          = Delegated(d, delegates, userLocks, After(at))
            + (IF d = newDelegatee THEN Ending(locks, After(at)) ELSE - Ending(locks, After(at)))
    BY <1>5
  <2> QED BY <2>1, <2>2, <1>3
<1>8. UnlocksMatchAfter(d, unlocks2, dels2, userLocks, at)
  <2>1. UnlocksMatchAfter(d, unlocks, delegates, userLocks, at)
    BY <1>1, <1>2, UnlocksMatch
  <2>2. ASSUME NEW w \in After(at) PROVE unlocks2[w] = Delegated(d, dels2, userLocks, {w})
    <3>1. w \in Weeks /\ unlocks[w] = Delegated(d, delegates, userLocks, {w})
      BY <2>1 DEF UnlocksMatchAfter, After
    <3>2. MovedAt(locks, w) = Ending(locks, {w})
      BY <3>1, <1>3
    <3>3. unlocks2[w] = unlocks[w] + (IF d = newDelegatee THEN MovedAt(locks, w) ELSE - MovedAt(locks, w))
      BY <3>1 DEF locks, unlocks
    <3>4. Delegated(d, dels2, userLocks, {w})
            = Delegated(d, delegates, userLocks, {w})
              + (IF d = newDelegatee THEN Ending(locks, {w}) ELSE - Ending(locks, {w}))
      BY <1>5
    <3>5. unlocks[w] \in Nat /\ Ending(locks, {w}) \in Nat
      BY <3>1, <1>1, EndingType
    <3>6. unlocks2[w] = unlocks[w] + (IF d = newDelegatee THEN Ending(locks, {w}) ELSE - Ending(locks, {w}))
      BY <3>2, <3>3
    <3> QED BY <3>1, <3>4, <3>6
  <2> QED BY <2>2 DEF UnlocksMatchAfter
<1>9. VotesMatchAt(d, CheckpointDelegate(checkpointedVotes[d], unlocks2, addition, deduction),
                   unlocks2, dels2, userLocks)
  <2> DEFINE ckpts == checkpointedVotes[d]
  <2>1. /\ now \in StartTime..MaxTime
        /\ userLocks \in [Accounts -> Seq(LockedBalance)]
        /\ ckpts \in Seq(DelegateeCheckpoint)
        /\ ckpts # <<>> => ckpts[Len(ckpts)].epochStart <= UpcomingEpoch
        /\ VotesMatchAt(d, ckpts, unlocks, delegates, userLocks)
    BY <1>1, <1>2 DEF at
  <2>2. \A x \in Weeks : x <= UpcomingEpoch => unlocks2[x] = unlocks[x]
    BY <1>6 DEF at
  <2>3. Delegated(d, dels2, userLocks, After(UpcomingEpoch))
          = Delegated(d, delegates, userLocks, After(UpcomingEpoch)) + addition - deduction
    BY <1>7 DEF at
  <2>4. UnlocksMatchAfter(d, unlocks2, dels2, userLocks, UpcomingEpoch)
    BY <1>8 DEF at
  <2>5. \A a \in Accounts : dels2[a] = d =>
          \A i \in 1..Len(userLocks[a]) : userLocks[a][i].unlockTime <= UpcomingEpoch + LockDuration
    BY <1>1 DEF at
  <2>6. VotesMatchAt(d, CheckpointDelegate(ckpts, unlocks2, addition, deduction),
                     unlocks2, dels2, userLocks)
    <3> HIDE DEF ckpts
    <3> QED BY ONLY <2>1, <2>2, <2>3, <2>4, <2>5, CheckpointMatches
  <2> QED BY <2>6
<1> QED BY <1>9

\* A delegation moves the votes from the old delegatee to the new one.
LEMMA DelegateMatch ==
  ASSUME IInv, DatesOK, VotesMatch, NEW u \in Accounts, NEW newDelegatee \in Delegatees,
         Delegate(u, newDelegatee)
  PROVE  VotesMatch'
<1> DEFINE locks   == userLocks[u]
           old     == delegates[u]
           moved   == LockSum(locks, FirstMoved(locks) - 1, Len(locks))
           unlocks == [d \in Delegatees |-> [w \in Weeks |->
                         delegateeUnlocks[d][w] + (CASE d = newDelegatee -> MovedAt(locks, w)
                                                     [] d = old -> - MovedAt(locks, w)
                                                     [] OTHER -> 0)]]
           given   == IF old = NoOne THEN checkpointedVotes
                      ELSE [checkpointedVotes EXCEPT
                              ![old] = CheckpointDelegate(@, unlocks[old], 0, moved)]
<1>1. /\ newDelegatee # old
      /\ delegates' = [delegates EXCEPT ![u] = newDelegatee]
      /\ delegateeUnlocks' = unlocks
      /\ checkpointedVotes' =
           [given EXCEPT ![newDelegatee] = CheckpointDelegate(@, unlocks[newDelegatee], moved, 0)]
      /\ userLocks' = userLocks
  BY DEF Delegate, lockVars
<1>2. /\ delegates \in [Accounts -> Delegatees \cup {NoOne}] /\ NoOne \notin Delegatees
      /\ delegateeUnlocks \in [Delegatees -> [Weeks -> Nat]]
      /\ checkpointedVotes \in [Delegatees -> Seq(DelegateeCheckpoint)]
      /\ locks \in Seq(LockedBalance) /\ old \in Delegatees \cup {NoOne}
  BY VoteFacts DEF IInv, VotesOK, CheckpointsOK
<1>3. \A w \in Weeks : MovedAt(locks, w) \in Nat
  BY <1>2, MovedType
<1>4. \A w \in Weeks : unlocks[newDelegatee][w] = delegateeUnlocks[newDelegatee][w] + MovedAt(locks, w)
  BY <1>1
<1>5. old \in Delegatees =>
        \A w \in Weeks : unlocks[old][w] = delegateeUnlocks[old][w] + (- MovedAt(locks, w))
  BY <1>1
<1>6. ASSUME NEW d \in Delegatees, d # newDelegatee, d # old PROVE unlocks[d] = delegateeUnlocks[d]
  <2>1. delegateeUnlocks[d] \in [Weeks -> Nat]
    BY <1>2
  <2>2. \A w \in Weeks : unlocks[d][w] = delegateeUnlocks[d][w]
    BY <2>1, <1>6
  <2>3. unlocks[d] = [w \in Weeks |-> unlocks[d][w]]
    OBVIOUS
  <2> HIDE DEF unlocks
  <2> QED BY <2>1, <2>2, <2>3
<1> HIDE DEF unlocks, moved
<1>7. /\ checkpointedVotes'[newDelegatee]
           = CheckpointDelegate(checkpointedVotes[newDelegatee], unlocks[newDelegatee], moved, 0)
      /\ old \in Delegatees =>
           checkpointedVotes'[old] = CheckpointDelegate(checkpointedVotes[old], unlocks[old], 0, moved)
      /\ \A d \in Delegatees : d # newDelegatee /\ d # old => checkpointedVotes'[d] = checkpointedVotes[d]
  BY <1>1, <1>2
<1> HIDE DEF given
<1>8. VotesMatchAt(newDelegatee, checkpointedVotes'[newDelegatee], unlocks[newDelegatee],
                   delegates', userLocks)
  <2>1. VotesMatchAt(newDelegatee,
                     CheckpointDelegate(checkpointedVotes[newDelegatee], unlocks[newDelegatee], moved, 0),
                     unlocks[newDelegatee], delegates', userLocks)
    BY <1>1, <1>4, DelegationMatches DEF moved
  <2> QED BY <2>1, <1>7
<1>9. ASSUME old \in Delegatees
      PROVE  VotesMatchAt(old, checkpointedVotes'[old], unlocks[old], delegates', userLocks)
  <2>1. VotesMatchAt(old, CheckpointDelegate(checkpointedVotes[old], unlocks[old], 0, moved),
                     unlocks[old], delegates', userLocks)
    BY <1>1, <1>5, <1>9, DelegationMatches DEF moved
  <2> QED BY <2>1, <1>7, <1>9
<1>10. ASSUME NEW d \in Delegatees, d # newDelegatee, d # old
       PROVE  VotesMatchAt(d, checkpointedVotes'[d], unlocks[d], delegates', userLocks)
  <2>1. VotesMatchAt(d, checkpointedVotes[d], delegateeUnlocks[d], delegates, userLocks)
    BY DEF VotesMatch, AllMatch
  <2>2. \A a \in Accounts : delegates'[a] = d <=> delegates[a] = d
    BY <1>1, <1>2, <1>10
  <2>3. VotesMatchAt(d, checkpointedVotes[d], delegateeUnlocks[d], delegates', userLocks)
    BY <2>1, <2>2, MatchFrame
  <2> QED BY <2>3, <1>6, <1>7, <1>10
<1> QED BY <1>1, <1>8, <1>9, <1>10 DEF VotesMatch, AllMatch

\* Nobody has delegated yet.
LEMMA InitVotesMatch == Init => VotesMatch
<1> SUFFICES ASSUME Init, NEW d \in Delegatees
             PROVE  VotesMatchAt(d, checkpointedVotes[d], delegateeUnlocks[d], delegates, userLocks)
  BY DEF VotesMatch, AllMatch
<1>1. /\ checkpointedVotes[d] = <<>>
      /\ \A w \in Weeks : delegateeUnlocks[d][w] = 0
      /\ \A u \in Accounts : delegates[u] = NoOne
  BY DEF Init
<1>2. d # NoOne
  BY AccountsAssumption
<1> QED BY <1>1, <1>2 DEF VotesMatchAt

\* The checkpoints match the locks after every transaction.
LEMMA NextKeepsVotes == IInv /\ DatesOK /\ VotesMatch /\ [Next]_vars => VotesMatch'
<1> SUFFICES ASSUME IInv, DatesOK, VotesMatch, [Next]_vars PROVE VotesMatch'
  OBVIOUS
<1>1. ASSUME UNCHANGED <<userLocks, voteVars>> PROVE VotesMatch'
  BY <1>1 DEF VotesMatch, AllMatch, voteVars
<1>2. CASE Next
  <2>1. LocksMove
    BY <1>2, LocksStep
  <2>2. CASE Tick
    BY <2>2, <1>1 DEF Tick, lockVars
  <2>3. ASSUME NEW u \in Accounts, NEW sender \in Accounts, NEW amount \in Nat, Lock(sender, u, amount)
        PROVE  VotesMatch'
    <3>1. /\ LockTokens(sender, u, amount, balances, lockedSupply, checkpointedVotes)
          /\ UNCHANGED <<now, delegates>>
      BY <2>3 DEF Lock
    <3>2. CheckpointsOK(checkpointedVotes)
      BY DEF IInv, VotesOK
    <3>3. AllMatch(checkpointedVotes, delegateeUnlocks, delegates, userLocks)
      BY DEF VotesMatch
    <3> QED BY <3>1, <3>2, <3>3, LockTokensMatch
  <2>4. ASSUME NEW u \in Accounts, NEW relock \in BOOLEAN, NEW rewardAddress \in Accounts,
               NEW delay \in Nat, NEW amount \in Nat, NEW reward \in Nat, NEW next \in Nat,
               Processed(u, relock, rewardAddress, delay, amount, reward, next)
        PROVE  VotesMatch'
    BY <2>4, ProcessedMatch
  <2>5. ASSUME NEW u \in Accounts, EmergencyWithdraw(u) PROVE VotesMatch'
    BY <2>5, <1>1 DEF EmergencyWithdraw
  <2>6. ASSUME NEW u \in Accounts, NEW d \in Delegatees, Delegate(u, d) PROVE VotesMatch'
    BY <2>6, DelegateMatch
  <2>7. CASE CheckpointEpoch
    BY <2>7, <1>1 DEF CheckpointEpoch
  <2>8. CASE UNCHANGED <<now, lockVars, voteVars, wallet>>
    BY <2>8, <1>1 DEF lockVars
  <2> QED BY <2>1, <2>2, <2>3, <2>4, <2>5, <2>6, <2>7, <2>8 DEF LocksMove
<1>3. CASE UNCHANGED vars
  BY <1>3, <1>1 DEF vars, lockVars
<1> QED BY <1>2, <1>3

\* The inductive invariant of the votes.
THEOREM VotesFollowLocks == Spec => [](IInv /\ DatesOK /\ VotesMatch)
<1>1. Init => VotesMatch
  BY InitVotesMatch
<1>2. IInv /\ DatesOK /\ VotesMatch /\ [Next]_vars => VotesMatch'
  BY NextKeepsVotes
<1> QED BY <1>1, <1>2, LocksInOrder, PTL DEF Spec

\* The locks of u that still count at w are those that end after it.
LEMMA LockedBeyondIsEnding ==
  ASSUME userLocks \in [Accounts -> Seq(LockedBalance)], NEW u \in Accounts, NEW w
  PROVE  LockedBeyond(u, w) = Ending(userLocks[u], After(w))
<1> DEFINE locks == userLocks[u]
           f == [i \in 1..Len(locks) |-> IF locks[i].unlockTime > w THEN locks[i].amount ELSE 0]
           g == [i \in 1..Len(locks) |-> IF locks[i].unlockTime \in After(w)
                                         THEN locks[i].amount ELSE 0]
<1>1. \A i \in 1..Len(locks) : locks[i].unlockTime \in Weeks
  BY EndingType
<1>2. \A i \in 1..Len(locks) : f[i] = g[i]
  BY <1>1 DEF After
<1>3. f = g
  BY <1>2
<1>4. LockedBeyond(u, w) = SumTo(f, Len(locks)) /\ Ending(locks, After(w)) = SumTo(g, Len(locks))
  BY DEF LockedBeyond, Ending
<1> HIDE DEF f, g
<1> QED BY <1>3, <1>4

\* PendingVotesMatchLocks: whatever order of locks, delegations, expiries, relocks,
\* kicks and withdrawals led here, a checkpoint made now would give a delegatee
\* exactly the delegated locks that outlive the upcoming epoch.
THEOREM VotesAreLocks == Spec => []PendingVotesMatchLocks
<1>1. IInv /\ DatesOK /\ VotesMatch => PendingVotesMatchLocks
  <2> SUFFICES ASSUME IInv, DatesOK, VotesMatch, NEW d \in Delegatees
               PROVE  CarriedVotes(checkpointedVotes[d], delegateeUnlocks[d], UpcomingEpoch)
                        = SumTo([u \in Accounts |-> IF delegates[u] = d
                                                    THEN LockedBeyond(u, UpcomingEpoch) ELSE 0],
                                NumAccounts)
    BY DEF PendingVotesMatchLocks
  <2>1. userLocks \in [Accounts -> Seq(LockedBalance)] /\ UpcomingEpoch \in Weeks
    BY VoteFacts
  <2> DEFINE ckpts == checkpointedVotes[d]
             unlocks == delegateeUnlocks[d]
  <2>2. /\ ckpts \in Seq(DelegateeCheckpoint)
        /\ ckpts # <<>> => ckpts[Len(ckpts)].epochStart <= UpcomingEpoch
        /\ VotesMatchAt(d, ckpts, unlocks, delegates, userLocks)
        /\ \A x \in Weeks : x <= UpcomingEpoch => unlocks[x] = unlocks[x]
    BY DEF IInv, VotesOK, CheckpointsOK, VotesMatch, AllMatch
  <2>3. CarriedVotes(ckpts, unlocks, UpcomingEpoch)
          = Delegated(d, delegates, userLocks, After(UpcomingEpoch))
    <3> HIDE DEF ckpts, unlocks
    <3> QED BY ONLY <2>1, <2>2, CarriedAreDelegated
  <2>4. \A u \in Accounts : Share(d, delegates, userLocks, After(UpcomingEpoch), u)
          = IF delegates[u] = d THEN LockedBeyond(u, UpcomingEpoch) ELSE 0
    BY <2>1, LockedBeyondIsEnding DEF Share
  <2>5. [u \in Accounts |-> Share(d, delegates, userLocks, After(UpcomingEpoch), u)]
          = [u \in Accounts |-> IF delegates[u] = d THEN LockedBeyond(u, UpcomingEpoch) ELSE 0]
    BY <2>4
  <2> QED BY <2>3, <2>5 DEF Delegated
<1> QED BY <1>1, VotesFollowLocks, PTL

----------------------------------------------------------------------------------
(* The history: what the epochs say of the locks *)

\* What the locks of all accounts that end in W add up to.
AllEnding(all, W) == SumTo([u \in Accounts |-> Ending(all[u], W)], NumAccounts)

\* The epochs follow each other by the week, each says how much was locked in its
\* week, and there is an epoch for every week in which something was locked.
EpochsMatchAt(es, all) ==
  /\ \A j \in 1..Len(es) : es[j].date = es[1].date + (j - 1) * RewardsDuration
  /\ \A j \in 1..Len(es) : es[j].supply = AllEnding(all, {es[j].date + LockDuration})
  /\ \A u \in Accounts : \A i \in 1..Len(all[u]) :
       /\ es[1].date + LockDuration <= all[u][i].unlockTime
       /\ all[u][i].unlockTime <= es[Len(es)].date + LockDuration

EpochsMatch == EpochsMatchAt(epochs, userLocks)

\* It is what a delegatee would have to whom everybody delegates.
LEMMA AllEndingIsDelegated ==
  ASSUME NEW all, NEW W
  PROVE  AllEnding(all, W) = Delegated(NoOne, [u \in Accounts |-> NoOne], all, W)
<1> DEFINE dels == [u \in Accounts |-> NoOne]
<1>1. \A u \in Accounts : Share(NoOne, dels, all, W, u) = Ending(all[u], W)
  BY DEF Share
<1>2. [u \in Accounts |-> Share(NoOne, dels, all, W, u)] = [u \in Accounts |-> Ending(all[u], W)]
  BY <1>1
<1> HIDE DEF dels
<1>3. AllEnding(all, W) = Delegated(NoOne, dels, all, W)
  BY <1>2 DEF AllEnding, Delegated
<1> QED BY <1>3 DEF dels

\* Locks that end at no week of W do not count, and all of them add up to a number.
LEMMA AllEndingType ==
  ASSUME NEW all \in [Accounts -> Seq(LockedBalance)], NEW W
  PROVE  /\ AllEnding(all, W) \in Nat
         /\ (\A u \in Accounts : \A i \in 1..Len(all[u]) : all[u][i].unlockTime \notin W)
              => AllEnding(all, W) = 0
<1> DEFINE dels == [u \in Accounts |-> NoOne]
<1>1. AllEnding(all, W) = Delegated(NoOne, dels, all, W)
  BY AllEndingIsDelegated
<1> HIDE DEF dels
<1> QED BY <1>1, DelegatedType, DelegatedNever

\* What a lock made now adds to the locks that end in W.
NewIn(W, amount) == IF UnlockTime \in W THEN amount ELSE 0

\* One more lock adds its amount in the week it ends.
LEMMA AllEndingGrows ==
  ASSUME NEW all \in [Accounts -> Seq(LockedBalance)], NEW u \in Accounts, NEW amount \in Nat,
         UnlockTime \in Weeks, Dated(all[u], UnlockTime), NEW W,
         NEW all2 \in [Accounts -> Seq(LockedBalance)], all2[u] = WithLock(all[u], amount),
         \A a \in Accounts : a # u => all2[a] = all[a]
  PROVE  AllEnding(all2, W) = AllEnding(all, W) + NewIn(W, amount)
<1> DEFINE dels == [a \in Accounts |-> NoOne]
           new == WithLock(all[u], amount)
<1>1. AllEnding(all, W) = Delegated(NoOne, dels, all, W)
      /\ AllEnding(all2, W) = Delegated(NoOne, dels, all2, W)
  BY AllEndingIsDelegated
<1>2. new \in Seq(LockedBalance)
  BY WithLockEntries
<1>3. /\ all2 \in [Accounts -> Seq(LockedBalance)] /\ all2[u] = new
      /\ \A a \in Accounts : a # u => dels[a] = dels[a] /\ all2[a] = all[a]
  BY <1>2
<1>4. Ending(new, W) = Ending(all[u], W) + (IF UnlockTime \in W THEN amount ELSE 0)
  BY WithLockEnding
<1>5. /\ Share(NoOne, dels, all, W, u) = Ending(all[u], W)
      /\ Share(NoOne, dels, all2, W, u) = Ending(new, W)
  BY <1>3 DEF Share
<1>6. Ending(all[u], W) \in Nat
  BY EndingType
<1> HIDE DEF dels, new
<1>7. Delegated(NoOne, dels, all2, W)
        = Delegated(NoOne, dels, all, W) + Share(NoOne, dels, all2, W, u) - Share(NoOne, dels, all, W, u)
  BY ONLY all \in [Accounts -> Seq(LockedBalance)], u \in Accounts, <1>3, DelegatedUpdate
<1>8. Delegated(NoOne, dels, all, W) \in Nat
  BY DelegatedType
<1> QED BY <1>1, <1>4, <1>5, <1>6, <1>7, <1>8 DEF NewIn

\* The same of the locks of the locker.
LEMMA AllLocksGrow ==
  ASSUME userLocks \in [Accounts -> Seq(LockedBalance)], NEW u \in Accounts, NEW amount \in Nat,
         UnlockTime \in Weeks, \A a \in Accounts : Dated(userLocks[a], UnlockTime), NEW W
  PROVE  AllEnding([userLocks EXCEPT ![u] = WithLock(@, amount)], W)
           = AllEnding(userLocks, W) + NewIn(W, amount)
<1> DEFINE all2 == [userLocks EXCEPT ![u] = WithLock(@, amount)]
<1>1. WithLock(userLocks[u], amount) \in Seq(LockedBalance)
  BY WithLockEntries
<1>2. all2 \in [Accounts -> Seq(LockedBalance)]
  BY <1>1
<1>3. Dated(userLocks[u], UnlockTime) /\ all2[u] = WithLock(userLocks[u], amount)
  OBVIOUS
<1>4. \A a \in Accounts : a # u => all2[a] = userLocks[a]
  OBVIOUS
<1> HIDE DEF all2
<1>5. AllEnding(all2, W) = AllEnding(userLocks, W) + NewIn(W, amount)
  BY <1>1, <1>2, <1>3, <1>4, AllEndingGrows
<1> QED BY <1>5 DEF all2

\* _checkpointEpoch adds an empty epoch for each week since the last one.
LEMMA CheckpointedEntries ==
  ASSUME EpochsOK, now \in StartTime..MaxTime
  PROVE  LET n    == Len(epochs)
             last == epochs[n].date
             m    == (CurrentEpoch - last) \div RewardsDuration
             es   == CheckpointedEpochs
         IN  /\ n \in Nat /\ n > 0 /\ m \in Nat /\ Len(es) = n + m
             /\ last \in Weeks /\ last + m * RewardsDuration = CurrentEpoch
             /\ \A j \in 1..n : es[j] = epochs[j]
             /\ \A j \in (n + 1)..(n + m) :
                  es[j] = [supply |-> 0, date |-> last + (j - n) * RewardsDuration]
<1> DEFINE n == Len(epochs)
           last == epochs[n].date
           m == (CurrentEpoch - last) \div RewardsDuration
           missing == [i \in 1..m |-> [supply |-> 0, date |-> last + i * RewardsDuration]]
<1>1. epochs \in Seq(Epoch) /\ epochs # <<>> /\ last <= now /\ n \in Nat /\ n > 0
  BY DEF EpochsOK
<1>2. last \in Weeks
  <2>1. epochs[n] \in Epoch
    BY <1>1
  <2> QED BY <2>1 DEF Epoch
<1>3. /\ m \in Nat
      /\ last + m * RewardsDuration = CurrentEpoch
      /\ \A k \in 1..m : last + k * RewardsDuration \in Weeks
  BY <1>1, <1>2, Calendar, WeekSteps
<1>4. CheckpointedEpochs = epochs \o missing
  BY DEF CheckpointedEpochs
<1> HIDE DEF last, m
<1>5. missing \in Seq(Epoch) /\ Len(missing) = m
  <2>1. \A i \in 1..m : [supply |-> 0, date |-> last + i * RewardsDuration] \in Epoch
    BY <1>3 DEF Epoch
  <2> QED BY <2>1, <1>3
<1>6. \A i \in 1..m : missing[i] = [supply |-> 0, date |-> last + i * RewardsDuration]
  OBVIOUS
<1> HIDE DEF missing
<1>7. /\ Len(epochs \o missing) = n + m
      /\ \A i \in 1..(n + m) :
           (epochs \o missing)[i] = IF i <= n THEN epochs[i] ELSE missing[i - n]
  BY <1>1, <1>5, ConcatProperties
<1>8. \A j \in 1..n : (epochs \o missing)[j] = epochs[j]
  BY <1>1, <1>3, <1>7
<1>9. ASSUME NEW j \in (n + 1)..(n + m)
      PROVE  (epochs \o missing)[j] = [supply |-> 0, date |-> last + (j - n) * RewardsDuration]
  <2>1. j \in 1..(n + m) /\ ~(j <= n) /\ j - n \in 1..m
    BY <1>1, <1>3
  <2> QED BY <2>1, <1>6, <1>7
<1> QED BY <1>1, <1>2, <1>3, <1>4, <1>7, <1>8, <1>9 DEF last, m

\* The missing weeks are weeks in which nothing was locked.
LEMMA CheckpointedMatch ==
  ASSUME EpochsOK, now \in StartTime..MaxTime, EpochsMatch,
         userLocks \in [Accounts -> Seq(LockedBalance)]
  PROVE  /\ EpochsMatchAt(CheckpointedEpochs, userLocks)
         /\ CheckpointedEpochs[1].date = epochs[1].date
         /\ CheckpointedEpochs[Len(CheckpointedEpochs)].date = CurrentEpoch
<1> DEFINE n == Len(epochs)
           last == epochs[n].date
           m == (CurrentEpoch - last) \div RewardsDuration
           es == CheckpointedEpochs
           R == RewardsDuration
<1>1. /\ n \in Nat /\ n > 0 /\ m \in Nat /\ Len(es) = n + m
      /\ last \in Weeks /\ last + m * R = CurrentEpoch
      /\ \A j \in 1..n : es[j] = epochs[j]
      /\ \A j \in (n + 1)..(n + m) : es[j] = [supply |-> 0, date |-> last + (j - n) * R]
  BY CheckpointedEntries
<1>2. /\ \A j \in 1..n : epochs[j].date = epochs[1].date + (j - 1) * R
      /\ \A j \in 1..n : epochs[j].supply = AllEnding(userLocks, {epochs[j].date + LockDuration})
      /\ \A u \in Accounts : \A i \in 1..Len(userLocks[u]) :
           /\ epochs[1].date + LockDuration <= userLocks[u][i].unlockTime
           /\ userLocks[u][i].unlockTime <= last + LockDuration
  BY DEF EpochsMatch, EpochsMatchAt
<1>3. /\ last \in Nat /\ R \in Nat /\ R > 0 /\ LockDuration \in Nat /\ CurrentEpoch \in Nat
  BY <1>1, WeekIsNat, Calendar, RewardsDurationAssumption, LockAssumption DEF LockDuration
<1> HIDE DEF R
<1>4. epochs[1].date \in Nat
  <2>1. epochs[1] \in Epoch
    BY <1>1 DEF EpochsOK
  <2> QED BY <2>1, WeekIsNat DEF Epoch
<1> HIDE DEF m, last, es, n
<1>5. 1 \in 1..n /\ es[1] = epochs[1] /\ n \in 1..n /\ Len(es) \in Nat
  BY <1>1
<1>6. last = epochs[1].date + (n - 1) * R
  BY <1>2, <1>5 DEF last
<1>7. es[Len(es)].date = CurrentEpoch
  <2>1. CASE m = 0
    <3>1. es[Len(es)] = epochs[n] /\ m * R = 0
      BY <2>1, <1>1, <1>3, <1>5
    <3> QED BY <3>1, <1>1, <1>3 DEF last
  <2>2. CASE m > 0
    <3>1. n + m \in (n + 1)..(n + m)
      BY <2>2, <1>1
    <3>2. es[n + m].date = last + ((n + m) - n) * R
      <4>1. es[n + m] = [supply |-> 0, date |-> last + ((n + m) - n) * R]
        BY <3>1, <1>1
      <4> QED BY <4>1
    <3>3. (n + m) - n = m
      BY <1>1
    <3> QED BY <3>2, <3>3, <1>1
  <2> QED BY <2>1, <2>2, <1>1
<1>8. last <= CurrentEpoch
  <2>1. m * R \in Nat
    BY <1>1, <1>3
  <2> QED BY <2>1, <1>1, <1>3
<1>9. ASSUME NEW j \in 1..Len(es) PROVE es[j].date = es[1].date + (j - 1) * R
  <2>1. CASE j \in 1..n
    BY <2>1, <1>1, <1>2, <1>5
  <2>2. CASE j \in (n + 1)..(n + m)
    <3>1. es[j].date = last + (j - n) * R
      <4>1. es[j] = [supply |-> 0, date |-> last + (j - n) * R]
        BY <2>2, <1>1
      <4> QED BY <4>1
    <3>2. (n - 1) * R + (j - n) * R = (j - 1) * R
      BY <1>1, <1>3, <2>2
    <3>3. (n - 1) * R \in Int /\ (j - n) * R \in Int
      BY <1>1, <1>3, <2>2
    <3> QED BY <3>1, <3>2, <3>3, <1>4, <1>5, <1>6
  <2> QED BY <2>1, <2>2, <1>1
<1>10. ASSUME NEW j \in 1..Len(es)
       PROVE  es[j].supply = AllEnding(userLocks, {es[j].date + LockDuration})
  <2>1. CASE j \in 1..n
    BY <2>1, <1>1, <1>2
  <2>2. CASE j \in (n + 1)..(n + m)
    <3>1. es[j].supply = 0 /\ es[j].date = last + (j - n) * R
      <4>1. es[j] = [supply |-> 0, date |-> last + (j - n) * R]
        BY <2>2, <1>1
      <4> QED BY <4>1
    <3>2. (j - n) * R > 0 /\ (j - n) * R \in Nat
      BY <1>1, <1>3, <2>2
    <3>3. \A u \in Accounts : \A i \in 1..Len(userLocks[u]) :
            userLocks[u][i].unlockTime \notin {es[j].date + LockDuration}
      <4>1. ASSUME NEW u \in Accounts, NEW i \in 1..Len(userLocks[u])
            PROVE  userLocks[u][i].unlockTime # es[j].date + LockDuration
        BY <1>2, <1>3, <3>1, <3>2
      <4> QED BY <4>1
    <3> QED BY <3>1, <3>3, AllEndingType
  <2> QED BY <2>1, <2>2, <1>1
<1>11. ASSUME NEW u \in Accounts, NEW i \in 1..Len(userLocks[u])
       PROVE  /\ es[1].date + LockDuration <= userLocks[u][i].unlockTime
              /\ userLocks[u][i].unlockTime <= es[Len(es)].date + LockDuration
  <2>1. userLocks[u][i].unlockTime \in Nat
    BY EndingType
  <2> QED BY <2>1, <1>2, <1>3, <1>5, <1>7, <1>8
<1> QED BY <1>5, <1>7, <1>9, <1>10, <1>11 DEF EpochsMatchAt, es, R

\* A lock is added to the epoch of its week.
LEMMA LockedEpochsMatch ==
  ASSUME IInv, DatesOK, EpochsMatch, NEW u \in Accounts, NEW amount \in Nat
  PROVE  EpochsMatchAt(WithEpochSupply(amount), [userLocks EXCEPT ![u] = WithLock(@, amount)])
<1> DEFINE es == CheckpointedEpochs
           n == Len(es)
           es2 == WithEpochSupply(amount)
           all2 == [userLocks EXCEPT ![u] = WithLock(@, amount)]
<1>1. /\ userLocks \in [Accounts -> Seq(LockedBalance)] /\ now \in StartTime..MaxTime
      /\ UnlockTime \in Weeks /\ UnlockTime = CurrentEpoch + LockDuration
      /\ \A a \in Accounts : Dated(userLocks[a], UnlockTime)
  BY VoteFacts DEF UnlockTime
<1>2. EpochsMatchAt(es, userLocks) /\ es[n].date = CurrentEpoch
  BY <1>1, CheckpointedMatch DEF IInv
<1>3. es \in Seq(Epoch) /\ es # <<>>
  BY <1>1, CheckpointedEpochsType DEF IInv
<1> DEFINE newest == [es[n] EXCEPT !.supply = @ + amount]
<1>4. es2 = [es EXCEPT ![n] = newest]
  BY DEF WithEpochSupply
<1> HIDE DEF es
<1>5. n \in Nat /\ n > 0 /\ \A j \in 1..n : es[j] \in Epoch /\ es[j].supply \in Nat /\ es[j].date \in Weeks
  <2>1. n \in Nat /\ n > 0 /\ \A j \in 1..n : es[j] \in Epoch
    BY <1>3
  <2> QED BY <2>1 DEF Epoch
<1>6. newest \in Epoch /\ newest.date = es[n].date /\ newest.supply = es[n].supply + amount
  <2>1. n \in 1..n /\ es[n] \in Epoch /\ es[n].supply \in Nat
    BY <1>5
  <2> QED BY <2>1 DEF Epoch
<1> HIDE DEF n, newest
<1>7. /\ Len(es2) = n
      /\ \A j \in 1..n : es2[j] = IF j = n THEN newest ELSE es[j]
  <2>1. n \in 1..Len(es)
    BY <1>5 DEF n
  <2> QED BY <2>1, <1>3, <1>4, <1>6, ExceptSeq DEF n
<1> HIDE DEF es2
<1>8. \A j \in 1..n : es2[j].date = es[j].date
  BY <1>6, <1>7
<1>9. /\ \A j \in 1..n : es[j].date = es[1].date + (j - 1) * RewardsDuration
      /\ \A j \in 1..n : es[j].supply = AllEnding(userLocks, {es[j].date + LockDuration})
      /\ \A a \in Accounts : \A i \in 1..Len(userLocks[a]) :
           /\ es[1].date + LockDuration <= userLocks[a][i].unlockTime
           /\ userLocks[a][i].unlockTime <= es[n].date + LockDuration
  BY <1>2 DEF EpochsMatchAt, n
<1>10. 1 \in 1..n /\ n \in 1..n
  BY <1>5
<1>11. /\ CurrentEpoch \in Nat /\ LockDuration \in Nat /\ RewardsDuration \in Nat /\ RewardsDuration > 0
       /\ \A j \in 1..n : es[j].date \in Nat
  <2>1. CurrentEpoch \in Nat
    BY <1>1, Calendar, WeekIsNat
  <2>2. LockDuration \in Nat /\ RewardsDuration \in Nat /\ RewardsDuration > 0
    BY RewardsDurationAssumption, LockAssumption DEF LockDuration
  <2>3. \A j \in 1..n : es[j].date \in Nat
    BY <1>5, WeekIsNat
  <2> QED BY <2>1, <2>2, <2>3
<1>12. ASSUME NEW j \in 1..n
       PROVE  es2[j].supply = AllEnding(all2, {es2[j].date + LockDuration})
  <2>1. \A W : AllEnding(all2, W) = AllEnding(userLocks, W) + NewIn(W, amount)
    BY <1>1, AllLocksGrow
  <2> HIDE DEF all2
  <2>4. AllEnding(all2, {es[j].date + LockDuration})
          = es[j].supply + NewIn({es[j].date + LockDuration}, amount)
    BY <2>1, <1>9
  <2>2. CASE j = n
    <3>1. UnlockTime \in {es[j].date + LockDuration}
      BY <2>2, <1>1, <1>2
    <3> QED BY <3>1, <2>4, <2>2, <1>6, <1>7 DEF NewIn
  <2>3. CASE j # n
    <3>1. (n - 1) * RewardsDuration = (j - 1) * RewardsDuration + (n - j) * RewardsDuration
          /\ (n - j) * RewardsDuration > 0 /\ (n - j) * RewardsDuration \in Nat
          /\ (j - 1) * RewardsDuration \in Nat
      BY <2>3, <1>5, <1>11
    <3>2. es[j].date < es[n].date
      <4>1. /\ es[j].date = es[1].date + (j - 1) * RewardsDuration
            /\ es[n].date = es[1].date + (n - 1) * RewardsDuration
            /\ es[1].date \in Nat
        BY <1>9, <1>10, <1>11
      <4> DEFINE before == (j - 1) * RewardsDuration
                 between == (n - j) * RewardsDuration
                 whole == (n - 1) * RewardsDuration
      <4>2. whole = before + between /\ between > 0 /\ between \in Nat /\ before \in Nat
        BY <3>1
      <4>3. es[j].date = es[1].date + before /\ es[n].date = es[1].date + whole
        BY <4>1
      <4> HIDE DEF before, between, whole
      <4> QED BY <4>1, <4>2, <4>3
    <3>3. UnlockTime \notin {es[j].date + LockDuration}
      BY <3>2, <1>1, <1>2, <1>10, <1>11
    <3>4. es2[j] = es[j] /\ es[j].supply \in Nat
      BY <2>3, <1>5, <1>7
    <3> QED BY <3>3, <3>4, <2>4, <1>7, <1>8 DEF NewIn
  <2> QED BY <2>2, <2>3 DEF all2
<1>13. ASSUME NEW a \in Accounts, NEW i \in 1..Len(all2[a])
       PROVE  /\ es[1].date + LockDuration <= all2[a][i].unlockTime
              /\ all2[a][i].unlockTime <= es[n].date + LockDuration
  <2>1. CASE a # u
    BY <2>1, <1>1, <1>9, <1>13
  <2>2. CASE a = u
    <3>1. all2[u] = WithLock(userLocks[u], amount)
      BY <1>1
    <3> DEFINE len == Len(userLocks[u])
               new == WithLock(userLocks[u], amount)
    <3>2. /\ new \in Seq(LockedBalance) /\ len \in Nat
          /\ \/ /\ Len(new) = len + 1
                /\ \A k \in 1..len : new[k] = userLocks[u][k]
                /\ new[len + 1] = [amount |-> amount, unlockTime |-> UnlockTime]
             \/ /\ Len(new) = len /\ len > 0
                /\ \A k \in 1..len : k # len => new[k] = userLocks[u][k]
                /\ new[len] = [amount |-> userLocks[u][len].amount + amount, unlockTime |-> UnlockTime]
      BY <1>1, WithLockEntries
    <3>3. i \in 1..Len(new)
      BY <2>2, <3>1, <1>13
    <3> HIDE DEF new
    <3>4. new[i].unlockTime = UnlockTime
          \/ (i \in 1..len /\ new[i] = userLocks[u][i])
      BY <3>2, <3>3
    <3>5. es[1].date <= es[n].date
      <4>1. (n - 1) * RewardsDuration \in Nat
        BY <1>5, <1>11
      <4> QED BY <4>1, <1>9, <1>10, <1>11
    <3>6. es[1].date + LockDuration <= UnlockTime /\ UnlockTime <= es[n].date + LockDuration
      BY <3>5, <1>1, <1>2, <1>10, <1>11
    <3> HIDE DEF len
    <3>7. CASE new[i].unlockTime = UnlockTime
      BY <3>6, <3>7, <2>2, <3>1 DEF new
    <3>8. CASE i \in 1..len /\ new[i] = userLocks[u][i]
      BY <3>8, <2>2, <3>1, <1>9 DEF new, len
    <3> QED BY <3>4, <3>7, <3>8
  <2> QED BY <2>1, <2>2
<1> QED BY <1>7, <1>8, <1>9, <1>10, <1>12, <1>13 DEF EpochsMatchAt, es2

\* What a transaction may do to the history: the clock ticks, the missing epochs are
\* checkpointed, or a lock is made of tokens that somebody has or that are locked
\* already.
HistoryMoves ==
  \/ Tick
  \/ UNCHANGED <<now, epochs, userLocks>>
  \/ CheckpointEpoch
  \/ \E u \in Accounts, amount \in Nat :
       /\ amount > 0
       /\ amount <= held[StakingToken] \/ \E a \in Accounts : amount <= wallet[a]
       /\ epochs' = WithEpochSupply(amount)
       /\ userLocks' = [userLocks EXCEPT ![u] = WithLock(@, amount)]
       /\ now' = now

\* Every transaction is one of these.
LEMMA HistoryStep == IInv /\ [Next]_vars => HistoryMoves
<1> SUFFICES ASSUME IInv, [Next]_vars PROVE HistoryMoves
  OBVIOUS
<1>1. CASE UNCHANGED vars
  BY <1>1 DEF vars, lockVars, HistoryMoves
<1>2. CASE Next
  <2>1. LocksMove
    BY <1>2, LocksStep
  <2>2. CASE Tick
    BY <2>2 DEF HistoryMoves
  <2>3. ASSUME NEW u \in Accounts, NEW sender \in Accounts, NEW amount \in Nat, Lock(sender, u, amount)
        PROVE  HistoryMoves
    <3>1. /\ amount > 0 /\ amount <= wallet[sender]
          /\ epochs' = WithEpochSupply(amount)
          /\ userLocks' = [userLocks EXCEPT ![u] = WithLock(@, amount)]
          /\ now' = now
      BY <2>3 DEF Lock, LockTokens
    <3> QED BY <3>1 DEF HistoryMoves
  <2>4. ASSUME NEW u \in Accounts, NEW relock \in BOOLEAN, NEW rewardAddress \in Accounts,
               NEW delay \in Nat, NEW amount \in Nat, NEW reward \in Nat, NEW next \in Nat,
               Processed(u, relock, rewardAddress, delay, amount, reward, next)
        PROVE  HistoryMoves
    <3>1. now' = now /\ amount > 0 /\ amount <= lockedSupply
      BY <2>4 DEF Processed
    <3>2. amount <= held[StakingToken]
      <4>1. lockedSupply <= held[StakingToken] /\ held[StakingToken] \in Nat
        BY DEF IInv, SupplyOK, TokensOK, AllTokens
      <4>2. lockedSupply \in Nat
        BY SupplyIsNat DEF IInv, SupplyOK, LocksOK
      <4> QED BY <4>1, <4>2, <3>1
    <3>3. CASE relock
      <4>1. /\ epochs' = WithEpochSupply(amount)
            /\ userLocks' = [userLocks EXCEPT ![u] = WithLock(@, amount)]
        BY <2>4, <3>3 DEF Processed, LockTokens
      <4> QED BY <4>1, <3>1, <3>2 DEF HistoryMoves
    <3>4. CASE ~relock
      <4>1. UNCHANGED <<epochs, userLocks>>
        BY <2>4, <3>4 DEF Processed
      <4> QED BY <4>1, <3>1 DEF HistoryMoves
    <3> QED BY <3>3, <3>4
  <2>5. ASSUME NEW u \in Accounts, EmergencyWithdraw(u) PROVE HistoryMoves
    BY <2>5 DEF EmergencyWithdraw, HistoryMoves
  <2>6. ASSUME NEW u \in Accounts, NEW d \in Delegatees, Delegate(u, d) PROVE HistoryMoves
    BY <2>6 DEF Delegate, lockVars, HistoryMoves
  <2>7. CASE CheckpointEpoch
    BY <2>7 DEF HistoryMoves
  <2>8. CASE UNCHANGED <<now, lockVars, voteVars, wallet>>
    BY <2>8 DEF lockVars, HistoryMoves
  <2> QED BY <2>1, <2>2, <2>3, <2>4, <2>5, <2>6, <2>7, <2>8 DEF LocksMove
<1> QED BY <1>1, <1>2

\* The first epoch is the week of the deployment, and nothing is locked.
HistoryOK == EpochsMatch /\ epochs[1].date = WeekStart(StartTime)

\* Without locks every week of every account is empty.
LEMMA InitHistory == Init => HistoryOK
<1> SUFFICES ASSUME Init PROVE HistoryOK
  OBVIOUS
<1>1. /\ epochs = <<[supply |-> 0, date |-> WeekStart(StartTime)]>>
      /\ userLocks = [u \in Accounts |-> <<>>]
  BY DEF Init
<1>2. Len(epochs) = 1 /\ epochs[1] = [supply |-> 0, date |-> WeekStart(StartTime)]
  BY <1>1
<1>3. WeekStart(StartTime) \in Nat
  BY TimeAssumption, RewardsDurationAssumption DEF WeekStart
<1>4. userLocks \in [Accounts -> Seq(LockedBalance)] /\ \A u \in Accounts : Len(userLocks[u]) = 0
  BY <1>1
<1>5. AllEnding(userLocks, {epochs[1].date + LockDuration}) = 0
  BY <1>4, AllEndingType
<1>6. epochs[1].date = epochs[1].date + (1 - 1) * RewardsDuration
  BY <1>2, <1>3, RewardsDurationAssumption
<1>7. EpochsMatchAt(epochs, userLocks)
  <2>1. \A j \in 1..Len(epochs) : j = 1
    BY <1>2
  <2>2. epochs[1].supply = AllEnding(userLocks, {epochs[1].date + LockDuration})
    BY <1>2, <1>5
  <2>3. \A u \in Accounts : 1..Len(userLocks[u]) = {}
    BY <1>4
  <2> QED BY <2>1, <2>2, <2>3, <1>6 DEF EpochsMatchAt
<1> QED BY <1>2, <1>7 DEF HistoryOK, EpochsMatch

\* Locks, relocks and checkpoints keep the history in step with the locks.
LEMMA NextKeepsHistory == IInv /\ DatesOK /\ HistoryOK /\ [Next]_vars => HistoryOK'
<1> SUFFICES ASSUME IInv, DatesOK, HistoryOK, [Next]_vars PROVE HistoryOK'
  OBVIOUS
<1>1. HistoryMoves
  BY HistoryStep
<1>2. /\ EpochsOK /\ now \in StartTime..MaxTime /\ userLocks \in [Accounts -> Seq(LockedBalance)]
      /\ EpochsMatch /\ epochs[1].date = WeekStart(StartTime)
  BY VoteFacts DEF IInv, HistoryOK
<1>3. ASSUME UNCHANGED <<epochs, userLocks>> PROVE HistoryOK'
  BY <1>2, <1>3 DEF HistoryOK, EpochsMatch
<1>4. CASE Tick
  BY <1>4, <1>3 DEF Tick, lockVars
<1>5. CASE CheckpointEpoch
  <2>1. epochs' = CheckpointedEpochs /\ userLocks' = userLocks
    BY <1>5 DEF CheckpointEpoch
  <2>2. EpochsMatchAt(CheckpointedEpochs, userLocks) /\ CheckpointedEpochs[1].date = epochs[1].date
    BY <1>2, CheckpointedMatch
  <2> QED BY <2>1, <2>2, <1>2 DEF HistoryOK, EpochsMatch
<1>6. ASSUME NEW u \in Accounts, NEW amount \in Nat,
             epochs' = WithEpochSupply(amount),
             userLocks' = [userLocks EXCEPT ![u] = WithLock(@, amount)]
      PROVE  HistoryOK'
  <2>1. EpochsMatchAt(WithEpochSupply(amount), [userLocks EXCEPT ![u] = WithLock(@, amount)])
    BY <1>2, LockedEpochsMatch
  <2>2. EpochsMatchAt(epochs', userLocks')
    BY <2>1, <1>6
  <2>3. WithEpochSupply(amount)[1].date = CheckpointedEpochs[1].date
    <3> DEFINE es == CheckpointedEpochs
               newest == [es[Len(es)] EXCEPT !.supply = @ + amount]
    <3>1. es \in Seq(Epoch) /\ es # <<>>
      BY <1>2, CheckpointedEpochsType
    <3>2. WithEpochSupply(amount) = [es EXCEPT ![Len(es)] = newest]
      BY DEF WithEpochSupply
    <3> HIDE DEF es
    <3>3. Len(es) \in Nat /\ Len(es) \in 1..Len(es) /\ 1 \in 1..Len(es)
      BY <3>1
    <3>4. newest \in Epoch /\ newest.date = es[Len(es)].date
      <4>1. es[Len(es)] \in Epoch
        BY <3>1, <3>3
      <4> QED BY <4>1 DEF Epoch
    <3> HIDE DEF newest
    <3>5. WithEpochSupply(amount)[1] = IF 1 = Len(es) THEN newest ELSE es[1]
      BY <3>1, <3>2, <3>3, <3>4, ExceptSeq
    <3> QED BY <3>4, <3>5 DEF es
  <2>4. CheckpointedEpochs[1].date = epochs[1].date
    BY <1>2, CheckpointedMatch
  <2> QED BY <2>2, <2>3, <2>4, <1>2, <1>6 DEF HistoryOK, EpochsMatch
<1> QED BY <1>1, <1>3, <1>4, <1>5, <1>6 DEF HistoryMoves

\* The inductive invariant of the history.
THEOREM HistoryFollowsLocks == Spec => [](IInv /\ DatesOK /\ HistoryOK)
<1>1. Init => HistoryOK
  BY InitHistory
<1>2. IInv /\ DatesOK /\ HistoryOK /\ [Next]_vars => HistoryOK'
  BY NextKeepsHistory
<1> QED BY <1>1, <1>2, LocksInOrder, PTL DEF Spec

\* The unlock times of the locks that count in the week that starts at E.
Counting(E) == (E + 1)..(E + LockDuration - 1)

\* The dates of the history are numbers.
LEMMA HistoryFacts ==
  ASSUME IInv, DatesOK, HistoryOK
  PROVE  /\ userLocks \in [Accounts -> Seq(LockedBalance)]
         /\ now \in Nat /\ LockDuration \in Nat /\ RewardsDuration \in Nat /\ RewardsDuration > 0
         /\ Len(epochs) \in Nat /\ Len(epochs) > 0
         /\ epochs[1].date = WeekStart(StartTime) /\ epochs[1].date \in Nat
         /\ \A j \in 1..Len(epochs) : /\ epochs[j].date \in Weeks /\ epochs[j].date \in Nat
                                      /\ epochs[j].supply \in Nat
                                      /\ epochs[j].date = epochs[1].date + (j - 1) * RewardsDuration
         /\ \A e \in Nat : EpochStart(e) \in Nat
<1>1. epochs \in Seq(Epoch) /\ epochs # <<>> /\ now \in StartTime..MaxTime
      /\ userLocks \in [Accounts -> Seq(LockedBalance)]
  BY VoteFacts DEF IInv, EpochsOK
<1>2. Len(epochs) \in Nat /\ Len(epochs) > 0 /\ 1 \in 1..Len(epochs)
      /\ \A j \in 1..Len(epochs) : epochs[j] \in Epoch
  BY <1>1
<1>3. \A j \in 1..Len(epochs) : epochs[j].date \in Weeks /\ epochs[j].supply \in Nat
  BY <1>2 DEF Epoch
<1>4. \A j \in 1..Len(epochs) : epochs[j].date \in Nat
  BY <1>3, WeekIsNat
<1>5. /\ epochs[1].date = WeekStart(StartTime)
      /\ \A j \in 1..Len(epochs) : epochs[j].date = epochs[1].date + (j - 1) * RewardsDuration
  BY DEF HistoryOK, EpochsMatch, EpochsMatchAt
<1>6. /\ LockDuration \in Nat /\ RewardsDuration \in Nat /\ RewardsDuration > 0 /\ now \in Nat
  BY <1>1, TimeAssumption, RewardsDurationAssumption, LockAssumption DEF LockDuration
<1>7. ASSUME NEW e \in Nat PROVE EpochStart(e) \in Nat
  <2>1. e * RewardsDuration \in Nat
    BY <1>6
  <2> QED BY <2>1, <1>2, <1>4 DEF EpochStart
<1> QED BY <1>1, <1>2, <1>3, <1>4, <1>5, <1>6, <1>7

\* balanceAtEpochOf stops at the first lock that is too old and counts what ends in
\* time: that is every lock that counts in the epoch's week.
LEMMA BalanceIsEnding ==
  ASSUME IInv, DatesOK, HistoryOK, NEW e \in Nat, NEW u \in Accounts
  PROVE  BalanceAtEpochOf(e, u) = Ending(userLocks[u], Counting(EpochStart(e)))
<1> DEFINE E == EpochStart(e)
           D == LockDuration
           locks == userLocks[u]
           n == Len(locks)
           T == {0} \cup {i \in 1..n : locks[i].unlockTime - D <= E - D}
           stop == Max(T)
           f == [i \in 1..n |-> IF locks[i].unlockTime - D < E THEN locks[i].amount ELSE 0]
           g == [i \in 1..n |-> IF locks[i].unlockTime \in Counting(E) THEN locks[i].amount ELSE 0]
<1>1. E \in Nat /\ D \in Nat /\ locks \in Seq(LockedBalance)
  BY HistoryFacts
<1>2. /\ n \in Nat
      /\ \A i \in 1..n : locks[i].unlockTime \in Nat /\ locks[i].amount \in Nat
      /\ \A i, j \in 1..n : i < j => locks[i].unlockTime < locks[j].unlockTime
  BY <1>1, EndingType DEF DatesOK, Dated
<1>3. BalanceAtEpochOf(e, u) = SumBetween(f, stop, n) /\ Ending(locks, Counting(E)) = SumTo(g, n)
  BY DEF BalanceAtEpochOf, Ending
<1> HIDE DEF E, D, locks
<1>4. stop \in 0..n /\ stop \in T /\ \A i \in T : i <= stop
  <2>1. T \in SUBSET (0..n) /\ T # {}
    BY <1>2
  <2> HIDE DEF T
  <2>2. \E m \in T : \A k \in T : k <= m
    BY <2>1, <1>2, GreatestElement
  <2>3. \A k, m \in T : k <= m <=> m >= k
    BY <2>1
  <2>4. stop \in T /\ \A k \in T : stop >= k
    BY <2>2, <2>3 DEF Max
  <2> QED BY <2>1, <2>3, <2>4
<1> HIDE DEF stop
<1>5. \A i \in 1..n : f[i] \in Int /\ g[i] \in Int
  BY <1>2
<1>6. ASSUME NEW i \in 1..stop PROVE g[i] = 0
  <2>1. i \in 1..n /\ stop \in 1..n
    BY <1>2, <1>4
  <2>2. locks[stop].unlockTime - D <= E - D
    BY <2>1, <1>4
  <2>3. i = stop \/ locks[i].unlockTime < locks[stop].unlockTime
    BY <2>1, <1>2
  <2>4. locks[i].unlockTime <= E
    BY <2>1, <2>2, <2>3, <1>1, <1>2
  <2>5. locks[i].unlockTime \notin Counting(E)
    BY <2>1, <2>4, <1>1, <1>2 DEF Counting
  <2> QED BY <2>1, <2>5
<1>7. ASSUME NEW i \in (stop + 1)..n PROVE f[i] = g[i]
  <2>1. i \in 1..n /\ i \notin T
    BY <1>2, <1>4
  <2>2. ~(locks[i].unlockTime - D <= E - D)
    BY <2>1
  <2>3. locks[i].unlockTime \in Counting(E) <=> locks[i].unlockTime - D < E
    BY <2>1, <2>2, <1>1, <1>2, LockDuration = D DEF Counting, D
  <2> QED BY <2>1, <2>3
<1> HIDE DEF f, g, T
<1>8. SumBetween(f, stop, n) = SumTo(g, n)
  BY <1>2, <1>4, <1>5, <1>6, <1>7, SumOfTail
<1> QED BY <1>3, <1>8 DEF E, locks

\* The sums over all accounts, week by week.
LEMMA AllEndingUnion ==
  ASSUME NEW all \in [Accounts -> Seq(LockedBalance)], NEW V, NEW W, V \cap W = {}
  PROVE  AllEnding(all, V \cup W) = AllEnding(all, V) + AllEnding(all, W)
<1> DEFINE dels == [u \in Accounts |-> NoOne]
<1>1. \A X : AllEnding(all, X) = Delegated(NoOne, dels, all, X)
  BY AllEndingIsDelegated
<1> HIDE DEF dels
<1>2. Delegated(NoOne, dels, all, V \cup W) = Delegated(NoOne, dels, all, V) + Delegated(NoOne, dels, all, W)
  BY DelegatedUnion
<1> QED BY <1>1, <1>2

\* Only the weeks in which locks end matter.
LEMMA AllEndingCongruence ==
  ASSUME NEW all \in [Accounts -> Seq(LockedBalance)], NEW V, NEW W,
         \A u \in Accounts : \A i \in 1..Len(all[u]) :
           all[u][i].unlockTime \in V <=> all[u][i].unlockTime \in W
  PROVE  AllEnding(all, V) = AllEnding(all, W)
<1>1. ASSUME NEW u \in Accounts PROVE Ending(all[u], V) = Ending(all[u], W)
  <2>1. all[u] \in Seq(LockedBalance)
    OBVIOUS
  <2> QED BY <2>1, EndingCongruence
<1>2. [u \in Accounts |-> Ending(all[u], V)] = [u \in Accounts |-> Ending(all[u], W)]
  BY <1>1
<1> QED BY <1>2 DEF AllEnding

\* Every lock is in the epoch of the week it was made in.
LEMMA LockHasEpoch ==
  ASSUME IInv, DatesOK, HistoryOK, NEW u \in Accounts, NEW i \in 1..Len(userLocks[u])
  PROVE  \E j \in 1..Len(epochs) : userLocks[u][i].unlockTime = epochs[j].date + LockDuration
<1> DEFINE n == Len(epochs)
           v == epochs[1].date + LockDuration
           w == userLocks[u][i].unlockTime
           k == (w - v) \div RewardsDuration
<1>1. /\ n \in Nat /\ n > 0 /\ RewardsDuration \in Nat /\ RewardsDuration > 0
      /\ LockDuration \in Nat /\ epochs[1].date \in Nat /\ epochs[1].date \in Weeks /\ epochs[n].date \in Nat
      /\ epochs[n].date = epochs[1].date + (n - 1) * RewardsDuration
      /\ \A j \in 1..n : epochs[j].date = epochs[1].date + (j - 1) * RewardsDuration
  <2>1. /\ n \in Nat /\ n > 0 /\ RewardsDuration \in Nat /\ RewardsDuration > 0
        /\ LockDuration \in Nat
    BY HistoryFacts
  <2>2. \A j \in 1..n : /\ epochs[j].date \in Weeks /\ epochs[j].date \in Nat
                         /\ epochs[j].date = epochs[1].date + (j - 1) * RewardsDuration
    BY HistoryFacts
  <2>3. 1 \in 1..n /\ n \in 1..n
    BY <2>1
  <2> HIDE DEF n
  <2>4. epochs[n].date = epochs[1].date + (n - 1) * RewardsDuration
    BY <2>2, <2>3
  <2> QED BY <2>1, <2>2, <2>3, <2>4
<1>2. w \in Weeks /\ w \in Nat
  BY LockFacts
<1>3. v <= w /\ w <= epochs[n].date + LockDuration
  BY DEF HistoryOK, EpochsMatch, EpochsMatchAt
<1>4. v \in Weeks
  <2>1. PICK a \in Nat : epochs[1].date = a * RewardsDuration
    BY <1>1, WeeksAreMultiples
  <2>2. v = (a + LockEpochs) * RewardsDuration /\ a + LockEpochs \in Nat
    BY <2>1, RewardsDurationAssumption, LockAssumption DEF LockDuration
  <2>3. w <= MaxTime + LockDuration + RewardsDuration
    BY <1>2, WeeksAreMultiples
  <2>4. v <= MaxTime + LockDuration + RewardsDuration
    BY <2>3, <1>1, <1>2, <1>3, TimeAssumption
  <2> QED BY <2>2, <2>4, WeeksAreMultiples
<1>5. k \in Nat /\ v + k * RewardsDuration = w
  BY <1>2, <1>3, <1>4, WeekSteps
<1> HIDE DEF k, n, w
<1>6. k <= n - 1
  <2>1. k * RewardsDuration <= (n - 1) * RewardsDuration
    <3> DEFINE a == k * RewardsDuration
               b == (n - 1) * RewardsDuration
    <3>1. a \in Int /\ b \in Int
      BY <1>1, <1>5
    <3>2. epochs[1].date + LockDuration + a <= epochs[1].date + b + LockDuration
      BY <1>1, <1>3, <1>5
    <3> HIDE DEF a, b
    <3>3. a <= b
      BY <3>1, <3>2, <1>1
    <3> QED BY <3>3 DEF a, b
  <2>2. CASE k >= n
    <3>1. n * RewardsDuration <= k * RewardsDuration
      BY <2>2, <1>1, <1>5, WeeksMonotone
    <3>2. n * RewardsDuration = (n - 1) * RewardsDuration + RewardsDuration
      BY <1>1
    <3>3. (n - 1) * RewardsDuration \in Nat /\ k * RewardsDuration \in Nat
      BY <1>1, <1>5
    <3> QED BY <3>1, <3>2, <3>3, <2>1, <1>1
  <2> QED BY <2>2, <1>1, <1>5
<1>7. k + 1 \in 1..n /\ (k + 1) - 1 = k
  BY <1>1, <1>5, <1>6
<1>8. epochs[k + 1].date = epochs[1].date + k * RewardsDuration
  BY <1>1, <1>7
<1>9. k * RewardsDuration \in Nat
  BY <1>1, <1>5
<1>10. w = epochs[k + 1].date + LockDuration
  BY <1>1, <1>5, <1>8, <1>9
<1> QED BY <1>7, <1>10 DEF n, w

\* totalSupplyAtEpoch adds up the epochs from the newest that counts down to the
\* first that is too old: that is every lock that counts in the epoch's week.
LEMMA SupplyIsEnding ==
  ASSUME IInv, DatesOK, HistoryOK, NEW e \in Nat
  PROVE  TotalSupplyAtEpoch(e) = AllEnding(userLocks, Counting(EpochStart(e)))
<1> DEFINE E == EpochStart(e)
           D == LockDuration
           n == Len(epochs)
           newest == AtMost(e + 1, n)
           T == {0} \cup {i \in 1..newest : epochs[i].date <= E - D}
           stop == Max(T)
           f == [i \in 1..n |-> IF epochs[i].date = E THEN 0 ELSE epochs[i].supply]
           g == [i \in 1..n |-> IF epochs[i].date + D \in Counting(E) THEN epochs[i].supply ELSE 0]
           upTo(k) == {epochs[j].date + D : j \in 1..k} \cap Counting(E)
           S == {k \in 0..n : SumTo(g, k) = AllEnding(userLocks, upTo(k))}
<1>1. /\ n \in Nat /\ n > 0 /\ RewardsDuration \in Nat /\ RewardsDuration > 0
      /\ E \in Nat /\ D \in Nat /\ userLocks \in [Accounts -> Seq(LockedBalance)]
      /\ \A j \in 1..n : epochs[j].date \in Nat /\ epochs[j].supply \in Nat
      /\ \A j \in 1..n : epochs[j].date = epochs[1].date + (j - 1) * RewardsDuration
      /\ E = epochs[1].date + e * RewardsDuration /\ epochs[1].date \in Nat
  BY HistoryFacts DEF EpochStart
<1>2. ASSUME NEW i \in 1..n, NEW j \in Nat, i < j
      PROVE  epochs[i].date < epochs[1].date + (j - 1) * RewardsDuration
  <2> DEFINE a == (i - 1) * RewardsDuration
             b == (j - 1) * RewardsDuration
             c == (j - i) * RewardsDuration
  <2>1. b = a + c /\ a \in Nat /\ b \in Nat /\ c \in Nat /\ c > 0
    BY <1>1, <1>2
  <2>2. epochs[i].date = epochs[1].date + a
    BY <1>1
  <2> HIDE DEF a, b, c
  <2>3. epochs[i].date < epochs[1].date + b
    BY <2>1, <2>2, <1>1
  <2> QED BY <2>3 DEF b
<1>3. \A i, j \in 1..n : i < j => epochs[i].date < epochs[j].date
  <2>1. ASSUME NEW i \in 1..n, NEW j \in 1..n, i < j PROVE epochs[i].date < epochs[j].date
    <3>1. j \in Nat
      OBVIOUS
    <3> QED BY <3>1, <2>1, <1>1, <1>2
  <2> QED BY <2>1
<1>4. TotalSupplyAtEpoch(e) = SumBetween(f, stop, newest)
  BY DEF TotalSupplyAtEpoch
<1>5. newest \in 1..n /\ newest <= e + 1 /\ (newest = e + 1 \/ newest = n)
  BY <1>1 DEF AtMost
<1> HIDE DEF E, D, n, newest
<1>6. stop \in 0..newest /\ stop \in T /\ \A i \in T : i <= stop
  <2>1. T \in SUBSET (0..newest) /\ T # {} /\ newest \in Nat
    BY <1>5
  <2> HIDE DEF T
  <2>2. \E m \in T : \A k \in T : k <= m
    BY <2>1, GreatestElement
  <2>3. \A k, m \in T : k <= m <=> m >= k
    BY <2>1
  <2>4. stop \in T /\ \A k \in T : stop >= k
    BY <2>2, <2>3 DEF Max
  <2> QED BY <2>1, <2>3, <2>4
<1> HIDE DEF stop
<1>7. \A i \in 1..n : f[i] \in Int /\ g[i] \in Int
  BY <1>1
<1>8. ASSUME NEW i \in 1..n
      PROVE  epochs[i].date + D \in Counting(E) <=> epochs[i].date < E /\ ~(epochs[i].date <= E - D)
  BY <1>1 DEF Counting, D
<1>9. ASSUME NEW i \in 1..stop PROVE g[i] = 0
  <2>1. i \in 1..n /\ stop \in 1..n /\ stop \in 1..newest
    BY <1>1, <1>5, <1>6
  <2>2. epochs[stop].date <= E - D
    BY <2>1, <1>6
  <2>3. i = stop \/ epochs[i].date < epochs[stop].date
    BY <2>1, <1>3
  <2>4. epochs[i].date <= E - D
    BY <2>1, <2>2, <2>3, <1>1
  <2> QED BY <2>1, <2>4, <1>8
<1>10. ASSUME NEW i \in 1..newest PROVE epochs[i].date <= E
  <2>1. i \in 1..n /\ e \in Nat /\ (i - 1 = e \/ i < e + 1)
    BY <1>1, <1>5
  <2>2. CASE i - 1 = e
    BY <2>1, <2>2, <1>1
  <2>3. CASE i < e + 1
    <3>1. e + 1 \in Nat /\ (e + 1) - 1 = e
      BY <2>1
    <3>2. epochs[i].date < epochs[1].date + ((e + 1) - 1) * RewardsDuration
      BY <3>1, <2>1, <2>3, <1>2
    <3>3. epochs[i].date < E
      BY <3>1, <3>2, <1>1
    <3> QED BY <3>3, <2>1, <1>1
  <2> QED BY <2>1, <2>2, <2>3
<1>11. ASSUME NEW i \in (stop + 1)..newest PROVE f[i] = g[i]
  <2>1. i \in 1..n /\ i \in 1..newest /\ i \notin T
    BY <1>1, <1>5, <1>6
  <2>2. ~(epochs[i].date <= E - D)
    BY <2>1
  <2>3. epochs[i].date <= E
    BY <2>1, <1>10
  <2>4. epochs[i].date = E \/ epochs[i].date < E
    BY <2>1, <2>3, <1>1
  <2>5. epochs[i].date + D \in Counting(E) <=> ~(epochs[i].date = E)
    BY <2>1, <2>2, <2>4, <1>1, <1>8
  <2> QED BY <2>1, <2>5
<1>12. ASSUME NEW i \in (newest + 1)..n PROVE g[i] = 0
  <2>1. newest = e + 1 /\ i \in 1..n /\ e + 1 \in 1..n
    BY <1>1, <1>5
  <2>2. epochs[e + 1].date = E
    <3>1. (e + 1) - 1 = e
      OBVIOUS
    <3> QED BY <3>1, <2>1, <1>1
  <2>3. epochs[e + 1].date < epochs[i].date
    BY <2>1, <1>3
  <2>4. ~(epochs[i].date < E)
    BY <2>1, <2>2, <2>3, <1>1
  <2> QED BY <2>1, <2>4, <1>8
<1>13. upTo(0) = {} /\ \A k \in 0..n : k < n =>
         LET here == {epochs[k + 1].date + D} \cap Counting(E)
         IN  upTo(k + 1) = upTo(k) \cup here /\ upTo(k) \cap here = {}
  <2>1. upTo(0) = {}
    OBVIOUS
  <2>2. ASSUME NEW k \in 0..n, k < n
        PROVE  LET here == {epochs[k + 1].date + D} \cap Counting(E)
               IN  upTo(k + 1) = upTo(k) \cup here /\ upTo(k) \cap here = {}
    <3>1. 1..(k + 1) = (1..k) \cup {k + 1}
      BY <2>2
    <3>2. \A j \in 1..k : epochs[j].date + D # epochs[k + 1].date + D
      <4>1. ASSUME NEW j \in 1..k PROVE epochs[j].date + D # epochs[k + 1].date + D
        <5>1. j \in 1..n /\ k + 1 \in 1..n /\ j < k + 1
          BY <2>2, <1>1
        <5>2. epochs[j].date < epochs[k + 1].date
          BY <5>1, <1>3
        <5>3. epochs[j].date \in Nat /\ epochs[k + 1].date \in Nat /\ D \in Nat
          BY <5>1, <1>1
        <5> QED BY <5>2, <5>3
      <4> QED BY <4>1
    <3> QED BY <3>1, <3>2
  <2> QED BY <2>1, <2>2
<1>14. \A i \in 1..n : g[i] = IF epochs[i].date + D \in Counting(E) THEN epochs[i].supply ELSE 0
  OBVIOUS
<1> HIDE DEF f, g, T, upTo
<1>15. SumBetween(f, stop, newest) = SumTo(g, newest)
  <2>1. newest \in Nat /\ \A i \in 1..newest : f[i] \in Int /\ g[i] \in Int
    BY <1>1, <1>5, <1>7
  <2> QED BY <2>1, <1>6, <1>9, <1>11, SumOfTail
<1>16. SumTo(g, newest) = SumTo(g, n)
  <2>1. newest \in 0..n /\ \A i \in 1..n : g[i] \in Int
    BY <1>5, <1>7
  <2> QED BY <2>1, <1>1, <1>12, SumOfHead
<1>17. 0 \in S
  <2>1. AllEnding(userLocks, {}) = 0
    BY <1>1, AllEndingType
  <2>2. AllEnding(userLocks, upTo(0)) = 0
    BY <2>1, <1>13
  <2>3. SumTo(g, 0) = 0 /\ 0 \in 0..n
    BY <1>1, SumToZero
  <2> QED BY <2>2, <2>3
<1>18. ASSUME NEW k \in 0..n, k \in S, k < n PROVE k + 1 \in S
  <2> DEFINE here == {epochs[k + 1].date + D} \cap Counting(E)
  <2>1. SumTo(g, k + 1) = SumTo(g, k) + g[k + 1]
    BY <1>1, <1>7, <1>18, SumToStep
  <2>2. upTo(k + 1) = upTo(k) \cup here /\ upTo(k) \cap here = {}
    BY <1>13, <1>18
  <2>3. k + 1 \in 1..n /\ k + 1 \in 0..n
    BY <1>1, <1>18
  <2>4. g[k + 1] = AllEnding(userLocks, here)
    <3>1. CASE epochs[k + 1].date + D \in Counting(E)
      <4>1. here = {epochs[k + 1].date + D}
        BY <3>1
      <4>2. epochs[k + 1].supply = AllEnding(userLocks, {epochs[k + 1].date + D})
        BY <2>3 DEF HistoryOK, EpochsMatch, EpochsMatchAt, D, n
      <4> QED BY <4>1, <4>2, <3>1, <2>3, <1>14
    <3>2. CASE epochs[k + 1].date + D \notin Counting(E)
      <4>1. here = {} /\ g[k + 1] = 0
        BY <3>2, <2>3, <1>14
      <4>2. AllEnding(userLocks, {}) = 0
        BY <1>1, AllEndingType
      <4> QED BY <4>1, <4>2
    <3> QED BY <3>1, <3>2
  <2> HIDE DEF here
  <2>5. AllEnding(userLocks, upTo(k) \cup here) = AllEnding(userLocks, upTo(k)) + AllEnding(userLocks, here)
    <3> DEFINE V == upTo(k)
    <3>1. V \cap here = {} /\ userLocks \in [Accounts -> Seq(LockedBalance)]
      BY <2>2, <1>1
    <3> HIDE DEF V
    <3>2. AllEnding(userLocks, V \cup here) = AllEnding(userLocks, V) + AllEnding(userLocks, here)
      BY ONLY <3>1, AllEndingUnion
    <3> QED BY <3>2 DEF V
  <2> QED BY <2>1, <2>2, <2>3, <2>4, <2>5, <1>18
<1>19. n \in S
  <2> HIDE DEF S
  <2>1. 0..n \subseteq S
    BY <1>1, <1>17, <1>18, BoundedInduction
  <2> QED BY <2>1, <1>1
<1>20. AllEnding(userLocks, upTo(n)) = AllEnding(userLocks, Counting(E))
  <2>1. ASSUME NEW u \in Accounts, NEW i \in 1..Len(userLocks[u])
        PROVE  userLocks[u][i].unlockTime \in upTo(n) <=> userLocks[u][i].unlockTime \in Counting(E)
    <3>1. \E j \in 1..n : userLocks[u][i].unlockTime = epochs[j].date + D
      BY LockHasEpoch DEF D, n
    <3> QED BY <3>1 DEF upTo
  <2> DEFINE V == upTo(n)
             W == Counting(E)
  <2>2. \A u \in Accounts : \A i \in 1..Len(userLocks[u]) :
          userLocks[u][i].unlockTime \in V <=> userLocks[u][i].unlockTime \in W
    BY <2>1
  <2> HIDE DEF V, W
  <2>3. AllEnding(userLocks, V) = AllEnding(userLocks, W)
    BY <2>2, <1>1, AllEndingCongruence
  <2> QED BY <2>3 DEF V, W
<1> QED BY <1>4, <1>15, <1>16, <1>19, <1>20 DEF E

\* SupplyIsSumOfBalances: at every epoch that can be asked for, the supply that the
\* epochs give is the sum of the balances that the locks give, whatever was locked,
\* relocked, withdrawn, kicked or left unchecked for weeks.
THEOREM SupplyAddsUp == Spec => []SupplyIsSumOfBalances
<1>1. IInv /\ DatesOK /\ HistoryOK => SupplyIsSumOfBalances
  <2> SUFFICES ASSUME IInv, DatesOK, HistoryOK, NEW e \in Viewable
               PROVE  TotalSupplyAtEpoch(e)
                        = SumTo([u \in Accounts |-> BalanceAtEpochOf(e, u)], NumAccounts)
    BY DEF SupplyIsSumOfBalances
  <2>1. e \in Nat
    BY DEF Viewable
  <2>2. \A u \in Accounts : BalanceAtEpochOf(e, u) = Ending(userLocks[u], Counting(EpochStart(e)))
    BY <2>1, BalanceIsEnding
  <2>3. [u \in Accounts |-> BalanceAtEpochOf(e, u)]
          = [u \in Accounts |-> Ending(userLocks[u], Counting(EpochStart(e)))]
    BY <2>2
  <2>4. TotalSupplyAtEpoch(e) = AllEnding(userLocks, Counting(EpochStart(e)))
    BY <2>1, SupplyIsEnding
  <2> QED BY <2>3, <2>4 DEF AllEnding
<1> QED BY <1>1, HistoryFollowsLocks, PTL

----------------------------------------------------------------------------------
(* The history is the one EpochShares promises *)

\* Staking tokens only move between the accounts and the locker.
Conserved == SumTo(wallet, NumAccounts) + held[StakingToken] = NumAccounts * InitialWallet

\* One account is paid.
LEMMA WalletsGrow ==
  ASSUME NEW w, NEW v, NEW a \in Accounts, NEW c \in Int,
         \A x \in Accounts : w[x] \in Int /\ v[x] = w[x] + (IF x = a THEN c ELSE 0)
  PROVE  SumTo(v, NumAccounts) = SumTo(w, NumAccounts) + c
<1>1. NumAccounts \in Nat /\ a \in 1..NumAccounts
  BY AccountsRange
<1>2. \A i \in 1..NumAccounts : w[i] \in Int /\ v[i] \in Int
  BY AccountsRange
<1>3. \A i \in 1..NumAccounts : i # a => v[i] = w[i]
  BY AccountsRange
<1>4. v[a] = w[a] + c /\ w[a] \in Int
  OBVIOUS
<1>5. SumTo(v, NumAccounts) = SumTo(w, NumAccounts) + v[a] - w[a]
  BY <1>1, <1>2, <1>3, SumToUpdate
<1>6. SumTo(w, NumAccounts) \in Int
  BY <1>1, <1>2, SumToUnfold
<1> QED BY <1>4, <1>5, <1>6

\* All staking tokens are in wallets at first.
LEMMA InitConserved == Init => Conserved
<1> SUFFICES ASSUME Init PROVE Conserved
  OBVIOUS
<1>1. wallet = [u \in Accounts |-> InitialWallet] /\ held[StakingToken] = 0
  BY DEF Init, AllTokens
<1> DEFINE one == [u \in 1..NumAccounts |-> 1]
           S == {k \in 0..NumAccounts : SumTo(one, k) = k}
<1>2. NumAccounts \in Nat /\ InitialWallet \in Nat
  BY AccountsRange, TokenAssumption
<1>3. 0 \in S
  BY <1>2, SumToZero
<1>4. ASSUME NEW k \in 0..NumAccounts, k \in S, k < NumAccounts PROVE k + 1 \in S
  <2>1. (\A i \in 1..NumAccounts : one[i] \in Int) /\ one[k + 1] = 1
    BY <1>2, <1>4
  <2> HIDE DEF one
  <2>2. SumTo(one, k + 1) = SumTo(one, k) + one[k + 1]
    BY <2>1, <1>2, <1>4, SumToStep
  <2> QED BY <2>1, <2>2, <1>2, <1>4
<1>5. SumTo(one, NumAccounts) = NumAccounts
  <2> HIDE DEF S
  <2>1. 0..NumAccounts \subseteq S
    BY <1>2, <1>3, <1>4, BoundedInduction
  <2> QED BY <2>1, <1>2 DEF S
<1>6. \A i \in 1..NumAccounts : one[i] \in Int /\ wallet[i] = InitialWallet * one[i]
  BY <1>1, <1>2, AccountsRange
<1> HIDE DEF one
<1>7. SumTo(wallet, NumAccounts) = InitialWallet * SumTo(one, NumAccounts)
  BY <1>2, <1>6, SumToScale
<1> QED BY <1>1, <1>2, <1>5, <1>7 DEF Conserved

\* Locks, withdrawals, kicks and exits move tokens; nothing else touches them.
LEMMA NextConserves == IInv /\ Conserved /\ [Next]_vars => Conserved'
<1> SUFFICES ASSUME IInv, Conserved, [Next]_vars PROVE Conserved'
  OBVIOUS
<1> DEFINE total == SumTo(wallet, NumAccounts)
<1>1. /\ wallet \in [Accounts -> Nat] /\ \A a \in Accounts : wallet[a] \in Int
      /\ held \in [AllTokens -> Nat] /\ StakingToken \in AllTokens /\ held[StakingToken] \in Nat
  BY DEF IInv, TokensOK, AllTokens
<1>2. total \in Int
  <2>1. NumAccounts \in Nat /\ \A i \in 1..NumAccounts : wallet[i] \in Int
    BY <1>1, AccountsRange
  <2> QED BY <2>1, SumToUnfold
<1>3. ASSUME wallet' = wallet, held'[StakingToken] = held[StakingToken] PROVE Conserved'
  BY <1>3 DEF Conserved
<1>4. CASE UNCHANGED vars
  BY <1>4, <1>3 DEF vars, tokenVars
<1>5. CASE Next
  <2>1. LocksMove
    BY <1>5, LocksStep
  <2>2. CASE Tick
    BY <2>2, <1>3 DEF Tick, tokenVars
  <2>3. ASSUME NEW u \in Accounts, NEW sender \in Accounts, NEW amount \in Nat, Lock(sender, u, amount)
        PROVE  Conserved'
    <3>1. /\ wallet' = [wallet EXCEPT ![sender] = @ - amount]
          /\ held' = [held EXCEPT ![StakingToken] = @ + amount]
      BY <2>3 DEF Lock
    <3>2. held'[StakingToken] = held[StakingToken] + amount
      BY <3>1, <1>1
    <3>3. SumTo(wallet', NumAccounts) = total + (- amount)
      <4>1. - amount \in Int
            /\ \A a \in Accounts : wallet[a] \in Int
                                   /\ wallet'[a] = wallet[a] + (IF a = sender THEN - amount ELSE 0)
        BY <3>1, <1>1
      <4> QED BY <4>1, WalletsGrow
    <3> HIDE DEF total
    <3> QED BY <3>2, <3>3, <1>1, <1>2 DEF Conserved, total
  <2>4. ASSUME NEW u \in Accounts, NEW relock \in BOOLEAN, NEW rewardAddress \in Accounts,
               NEW delay \in Nat, NEW amount \in Nat, NEW reward \in Nat, NEW next \in Nat,
               Processed(u, relock, rewardAddress, delay, amount, reward, next)
        PROVE  Conserved'
    <3> DEFINE returned == IF relock THEN 0 ELSE amount - reward
               paid == [a \in Accounts |-> wallet[a] + (IF a = rewardAddress THEN reward ELSE 0)]
    <3>1. /\ returned \in Nat
          /\ wallet' = [a \in Accounts |-> wallet[a] + (IF a = rewardAddress THEN reward ELSE 0)
                                                     + (IF a = u THEN returned ELSE 0)]
          /\ held' = [held EXCEPT ![StakingToken] = @ - reward - returned]
      BY <2>4 DEF Processed
    <3> HIDE DEF returned
    <3>2. held'[StakingToken] = held[StakingToken] - reward - returned
      BY <3>1, <1>1
    <3>3. SumTo(paid, NumAccounts) = total + reward
      <4>1. \A a \in Accounts : wallet[a] \in Int
                                /\ paid[a] = wallet[a] + (IF a = rewardAddress THEN reward ELSE 0)
        BY <1>1
      <4> HIDE DEF paid
      <4> QED BY <4>1, WalletsGrow
    <3>4. SumTo(wallet', NumAccounts) = SumTo(paid, NumAccounts) + returned
      <4>1. \A a \in Accounts : paid[a] \in Int
                                /\ wallet'[a] = paid[a] + (IF a = u THEN returned ELSE 0)
        BY <3>1, <1>1
      <4> HIDE DEF paid
      <4> QED BY <4>1, <3>1, WalletsGrow
    <3> HIDE DEF total, paid
    <3> QED BY <3>1, <3>2, <3>3, <3>4, <1>1, <1>2 DEF Conserved, total
  <2>5. ASSUME NEW u \in Accounts, EmergencyWithdraw(u) PROVE Conserved'
    <3> DEFINE amount == balances[u].locked
    <3>1. /\ wallet' = [wallet EXCEPT ![u] = @ + amount]
          /\ held' = [held EXCEPT ![StakingToken] = @ - amount]
      BY <2>5 DEF EmergencyWithdraw
    <3>2. amount \in Nat
      BY LockFacts
    <3> HIDE DEF amount
    <3>3. held'[StakingToken] = held[StakingToken] - amount
      BY <3>1, <3>2, <1>1
    <3>4. SumTo(wallet', NumAccounts) = total + amount
      <4>1. \A a \in Accounts : wallet[a] \in Int
                                /\ wallet'[a] = wallet[a] + (IF a = u THEN amount ELSE 0)
        BY <3>1, <3>2, <1>1
      <4> QED BY <4>1, <3>2, WalletsGrow
    <3> HIDE DEF total
    <3> QED BY <3>2, <3>3, <3>4, <1>1, <1>2 DEF Conserved, total
  <2>6. ASSUME NEW u \in Accounts, NEW d \in Delegatees, Delegate(u, d) PROVE Conserved'
    BY <2>6, <1>3 DEF Delegate, tokenVars
  <2>7. CASE CheckpointEpoch
    BY <2>7, <1>3 DEF CheckpointEpoch, tokenVars
  <2>8. CASE UNCHANGED <<now, lockVars, voteVars, wallet>> /\ held'[StakingToken] = held[StakingToken]
    BY <2>8, <1>3
  <2> QED BY <2>1, <2>2, <2>3, <2>4, <2>5, <2>6, <2>7, <2>8 DEF LocksMove
<1> QED BY <1>4, <1>5

\* No lock is larger than all staking tokens there are.
LEMMA LocksAreBounded ==
  ASSUME IInv, Conserved, NEW amount \in Nat,
         amount <= held[StakingToken] \/ \E a \in Accounts : amount <= wallet[a]
  PROVE  amount <= NumAccounts * InitialWallet
<1>1. /\ \A a \in Accounts : wallet[a] \in Nat
      /\ held[StakingToken] \in Nat
  BY DEF IInv, TokensOK, AllTokens
<1>2. NumAccounts \in Nat /\ \A i \in 1..NumAccounts : wallet[i] \in Nat
  BY <1>1, AccountsRange
<1>3. SumTo(wallet, NumAccounts) \in Nat
  <2>1. NumAccounts \in 0..NumAccounts
    BY <1>2
  <2> QED BY <2>1, <1>2, SumToNat
<1>4. SumTo(wallet, NumAccounts) + held[StakingToken] = NumAccounts * InitialWallet
  BY DEF Conserved
<1>5. \A a \in Accounts : wallet[a] <= SumTo(wallet, NumAccounts)
  BY <1>2, AccountsRange, SumToMember
<1> QED BY <1>1, <1>3, <1>4, <1>5

\* Weeks are in the order of their numbers.
LEMMA WeekOrder ==
  ASSUME NEW a \in Nat, NEW b \in Nat
  PROVE  /\ a * RewardsDuration < b * RewardsDuration <=> a < b
         /\ a * RewardsDuration = b * RewardsDuration <=> a = b
<1> USE RewardsDurationAssumption
<1>1. ASSUME NEW x \in Nat, NEW y \in Nat, x < y PROVE x * RewardsDuration < y * RewardsDuration
  <2>1. (x + 1) * RewardsDuration <= y * RewardsDuration
    BY <1>1, WeeksMonotone
  <2>2. (x + 1) * RewardsDuration = x * RewardsDuration + RewardsDuration
    OBVIOUS
  <2>3. x * RewardsDuration \in Nat /\ y * RewardsDuration \in Nat
    OBVIOUS
  <2> QED BY <2>1, <2>2, <2>3
<1>2. a * RewardsDuration \in Nat /\ b * RewardsDuration \in Nat
  OBVIOUS
<1>3. a < b => a * RewardsDuration < b * RewardsDuration
  BY <1>1
<1>4. b < a => b * RewardsDuration < a * RewardsDuration
  BY <1>1
<1> DEFINE x == a * RewardsDuration
           y == b * RewardsDuration
<1>5. a = b => x = y
  OBVIOUS
<1>6. x \in Nat /\ y \in Nat /\ (a < b => x < y) /\ (b < a => y < x)
  BY <1>2, <1>3, <1>4
<1> HIDE DEF x, y
<1>7. (x < y <=> a < b) /\ (x = y <=> a = b)
  BY <1>5, <1>6
<1> QED BY <1>7 DEF x, y

\* The week a time lies in, counted from the week of the deployment.
LEMMA WeekNumber ==
  ASSUME NEW t \in StartTime..MaxTime
  PROVE  LET first == WeekStart(StartTime)
             k     == (t - first) \div RewardsDuration
         IN  k \in 0..LastEpoch /\ LastEpoch \in Nat /\ first + k * RewardsDuration = WeekStart(t)
<1> USE RewardsDurationAssumption, TimeAssumption
<1> DEFINE R == RewardsDuration
           p == StartTime \div R
           q == t \div R
           first == WeekStart(StartTime)
           k == (t - first) \div R
           last == (MaxTime - first) \div R
<1>0. LockDuration \in Nat
  BY LockAssumption DEF LockDuration
<1>1. /\ StartTime \in Nat /\ MaxTime \in Nat /\ t \in Nat /\ StartTime <= t /\ t <= MaxTime
      /\ R \in Nat /\ R > 0
  BY <1>0
<1>2. /\ p \in Nat /\ p * R <= StartTime /\ first = p * R
      /\ q \in Nat /\ q * R <= t /\ t < q * R + R /\ WeekStart(t) = q * R
  BY <1>1 DEF WeekStart
<1>3. first \in Nat /\ t - first \in Nat /\ MaxTime - first \in Nat
  <2>1. p * R \in Nat
    BY <1>1, <1>2
  <2> HIDE DEF p
  <2> QED BY <2>1, <1>1, <1>2
<1> HIDE DEF p, q, first
<1>4. /\ k \in Nat /\ k * R <= t - first /\ t - first < k * R + R
      /\ last \in Nat /\ last * R <= MaxTime - first /\ MaxTime - first < last * R + R
  BY <1>1, <1>3
<1> HIDE DEF k, last, R
<1>5. /\ (q + 1) * R = q * R + R /\ (k + 1) * R = k * R + R /\ (last + 1) * R = last * R + R
      /\ (p + k) * R = p * R + k * R /\ (p + k + 1) * R = p * R + k * R + R
      /\ q * R \in Nat /\ k * R \in Nat /\ last * R \in Nat /\ p * R \in Nat
      /\ (q + 1) * R \in Nat /\ (k + 1) * R \in Nat /\ (last + 1) * R \in Nat
      /\ (p + k) * R \in Nat /\ (p + k + 1) * R \in Nat
  BY <1>1, <1>2, <1>4
<1>6. (p + k) * R < (q + 1) * R /\ q * R < (p + k + 1) * R /\ k * R < (last + 1) * R
  <2> DEFINE qR == q * R
             kR == k * R
             pR == p * R
             lR == last * R
  <2>1. /\ qR \in Nat /\ kR \in Nat /\ pR \in Nat /\ lR \in Nat
        /\ first = pR /\ qR <= t /\ t < qR + R
        /\ kR <= t - first /\ t - first < kR + R /\ MaxTime - first < lR + R
    BY <1>2, <1>4, <1>5
  <2> HIDE DEF qR, kR, pR, lR
  <2>2. pR + kR < qR + R /\ qR < pR + kR + R /\ kR < lR + R
    BY <2>1, <1>1
  <2> QED BY <2>2, <1>5 DEF qR, kR, pR, lR
<1>7. p + k < q + 1 /\ q < p + k + 1 /\ k < last + 1
  <2>1. q + 1 \in Nat /\ p + k \in Nat /\ p + k + 1 \in Nat /\ last + 1 \in Nat /\ q \in Nat /\ k \in Nat
    BY <1>2, <1>4
  <2> QED BY <2>1, <1>6, WeekOrder DEF R
<1>8. q = p + k /\ k <= last
  BY <1>2, <1>4, <1>7
<1>9. last = LastEpoch
  BY DEF last, LastEpoch, first, R
<1>10. first + k * R = WeekStart(t)
  BY <1>2, <1>5, <1>8
<1> QED BY <1>4, <1>8, <1>9, <1>10 DEF k, first, R

\* What the views answer, in terms of the locks and the calendar.
Views ==
  /\ LastEpoch \in Nat /\ FindEpochId(now) \in 0..LastEpoch
  /\ WeekStart(StartTime) + FindEpochId(now) * RewardsDuration = CurrentEpoch
  /\ EpochStart(FindEpochId(now)) = CurrentEpoch
  /\ WeekStart(StartTime) \in Nat /\ CurrentEpoch \in Nat /\ now \in Nat
  /\ CurrentEpoch <= now /\ now < CurrentEpoch + RewardsDuration
  /\ userLocks \in [Accounts -> Seq(LockedBalance)]
  /\ \A e \in 0..LastEpoch, u \in Accounts :
       BalanceAtEpochOf(e, u)
         = Ending(userLocks[u], Counting(WeekStart(StartTime) + e * RewardsDuration))

\* The invariant says so.
LEMMA ViewsHold == IInv /\ DatesOK /\ HistoryOK => Views
<1> SUFFICES ASSUME IInv, DatesOK, HistoryOK PROVE Views
  OBVIOUS
<1> DEFINE first == WeekStart(StartTime)
           k == (now - first) \div RewardsDuration
<1>1. now \in StartTime..MaxTime /\ epochs[1].date = first /\ first \in Nat
      /\ userLocks \in [Accounts -> Seq(LockedBalance)]
  BY VoteFacts, HistoryFacts
<1>2. k \in 0..LastEpoch /\ LastEpoch \in Nat /\ first + k * RewardsDuration = CurrentEpoch
  BY <1>1, WeekNumber DEF CurrentEpoch
<1>3. FindEpochId(now) = k /\ \A e : EpochStart(e) = first + e * RewardsDuration
  BY <1>1 DEF FindEpochId, EpochStart
<1>4. CurrentEpoch \in Nat /\ now \in Nat /\ CurrentEpoch <= now /\ now < CurrentEpoch + RewardsDuration
  BY <1>1, Calendar, WeekIsNat, HistoryFacts
<1>5. ASSUME NEW e \in 0..LastEpoch, NEW u \in Accounts
      PROVE  BalanceAtEpochOf(e, u) = Ending(userLocks[u], Counting(first + e * RewardsDuration))
  <2>1. e \in Nat
    OBVIOUS
  <2> HIDE DEF first, k
  <2>2. BalanceAtEpochOf(e, u) = Ending(userLocks[u], Counting(EpochStart(e)))
    BY <2>1, BalanceIsEnding
  <2> QED BY <2>2, <1>3
<1> HIDE DEF k
<1> QED BY <1>1, <1>2, <1>3, <1>4, <1>5 DEF Views

\* After a checkpoint the newest epoch is the running one.
LEMMA LatestEpoch ==
  ASSUME IInv, DatesOK, HistoryOK, Views
  PROVE  /\ Len(CheckpointedEpochs) - 1 = FindEpochId(now)
         /\ \A amount \in Nat : Len(WithEpochSupply(amount)) = Len(CheckpointedEpochs)
<1> DEFINE es == CheckpointedEpochs
           first == WeekStart(StartTime)
           k == FindEpochId(now)
<1>1. EpochsOK /\ now \in StartTime..MaxTime /\ EpochsMatch /\ epochs[1].date = first
      /\ userLocks \in [Accounts -> Seq(LockedBalance)]
  BY VoteFacts DEF IInv, HistoryOK
<1>2. es \in Seq(Epoch) /\ es # <<>>
  BY <1>1, CheckpointedEpochsType
<1>3. EpochsMatchAt(es, userLocks) /\ es[1].date = first /\ es[Len(es)].date = CurrentEpoch
  BY <1>1, CheckpointedMatch
<1>4. k \in Nat /\ first \in Nat /\ first + k * RewardsDuration = CurrentEpoch
  BY DEF Views
<1> HIDE DEF es, first, k
<1>5. Len(es) \in Nat /\ Len(es) > 0 /\ Len(es) \in 1..Len(es)
  BY <1>2
<1>6. es[Len(es)].date = es[1].date + (Len(es) - 1) * RewardsDuration
  BY <1>3, <1>5 DEF EpochsMatchAt
<1>7. (Len(es) - 1) * RewardsDuration = k * RewardsDuration
  <2>1. Len(es) - 1 \in Nat
    BY <1>5
  <2>2. (Len(es) - 1) * RewardsDuration \in Nat /\ k * RewardsDuration \in Nat
    BY <2>1, <1>4, RewardsDurationAssumption
  <2> QED BY <2>2, <1>3, <1>4, <1>6
<1>8. Len(es) - 1 = k
  <2>1. Len(es) - 1 \in Nat
    BY <1>5
  <2> QED BY <2>1, <1>4, <1>7, WeekOrder
<1>9. ASSUME NEW amount \in Nat PROVE Len(WithEpochSupply(amount)) = Len(es)
  <2> DEFINE newest == [es[Len(es)] EXCEPT !.supply = @ + amount]
  <2>1. WithEpochSupply(amount) = [es EXCEPT ![Len(es)] = newest]
    BY DEF WithEpochSupply, es
  <2>2. newest \in Epoch
    <3>1. es[Len(es)] \in Epoch
      BY <1>2, <1>5
    <3> QED BY <3>1 DEF Epoch
  <2> HIDE DEF newest
  <2> QED BY <2>1, <2>2, <1>2, <1>5, ExceptSeq
<1> QED BY <1>8, <1>9 DEF es, k

\* The variables of EpochShares, read off the views.
LEMMA InitShares == Init => Shares!ShareInit
<1> SUFFICES ASSUME Init PROVE Shares!ShareInit
  OBVIOUS
<1>1. IInv /\ DatesOK /\ HistoryOK
  BY InitIInv, InitDates, InitHistory
<1>2. Views
  BY <1>1, ViewsHold
<1>3. /\ now = StartTime /\ epochs = <<[supply |-> 0, date |-> WeekStart(StartTime)]>>
      /\ userLocks = [u \in Accounts |-> <<>>]
  BY DEF Init
<1>4. FindEpochId(now) = 0
  <2> DEFINE k == FindEpochId(now)
             first == WeekStart(StartTime)
  <2>1. k \in Nat /\ first \in Nat /\ first + k * RewardsDuration = first
    BY <1>2, <1>3 DEF Views, CurrentEpoch
  <2> HIDE DEF k, first
  <2>2. k * RewardsDuration \in Nat
    BY <2>1, RewardsDurationAssumption
  <2>3. k * RewardsDuration = 0
    BY <2>1, <2>2
  <2>4. 0 * RewardsDuration = 0
    BY RewardsDurationAssumption
  <2>5. k = 0
    BY <2>1, <2>3, <2>4, WeekOrder
  <2> QED BY <2>5 DEF k
<1>5. Len(epochs) - 1 = 0
  BY <1>3
<1>6. ASSUME NEW e \in 0..LastEpoch, NEW u \in Accounts PROVE BalanceAtEpochOf(e, u) = 0
  <2> DEFINE W == Counting(WeekStart(StartTime) + e * RewardsDuration)
  <2>1. BalanceAtEpochOf(e, u) = Ending(userLocks[u], W)
    BY <1>2 DEF Views
  <2>2. userLocks[u] \in Seq(LockedBalance) /\ Len(userLocks[u]) = 0
    BY <1>3
  <2> HIDE DEF W
  <2> QED BY <2>1, <2>2, EndingNever
<1>7. [e \in 0..LastEpoch |-> [u \in Accounts |-> BalanceAtEpochOf(e, u)]]
        = [e \in 0..LastEpoch |-> [u \in Accounts |-> 0]]
  BY <1>6
<1>8. (EpochStart(FindEpochId(now)) < now) \in BOOLEAN
  OBVIOUS
<1> QED BY <1>4, <1>5, <1>7, <1>8
        DEF Shares!ShareInit, Shares!Epochs, Shares!Accounts, Accounts

\* A new lock counts in the weeks after its own until it ends.
LEMMA NewLockCounts ==
  ASSUME Views, NEW e \in Nat
  PROVE  UnlockTime \in Counting(WeekStart(StartTime) + e * RewardsDuration)
           <=> e \in (FindEpochId(now) + 1)..(FindEpochId(now) + LockEpochs - 1)
<1> DEFINE R == RewardsDuration
           first == WeekStart(StartTime)
           k == FindEpochId(now)
           L == LockEpochs
<1>1. /\ k \in Nat /\ first \in Nat /\ first + k * R = CurrentEpoch
      /\ L \in Nat /\ L >= 2 /\ R \in Nat /\ R > 0
  BY LockAssumption, RewardsDurationAssumption DEF Views
<1>2. UnlockTime = CurrentEpoch + R * L /\ LockDuration = R * L
  BY DEF UnlockTime, LockDuration
<1> HIDE DEF first, k, L
<1>3. /\ e * R \in Nat /\ k * R \in Nat /\ R * L \in Nat
      /\ (k + L) * R = k * R + R * L /\ (e + L) * R = e * R + R * L
      /\ k + L \in Nat /\ e + L \in Nat
  BY <1>1
<1>4. e * R < (k + L) * R <=> e < k + L
  BY <1>3, WeekOrder
<1>5. (k + L) * R < (e + L) * R <=> k + L < e + L
  BY <1>3, WeekOrder
<1> DEFINE eR == e * R
           kR == k * R
           D == R * L
<1>6. /\ eR \in Nat /\ kR \in Nat /\ D \in Nat
      /\ eR < kR + D <=> e < k + L
      /\ kR + D < eR + D <=> k + L < e + L
      /\ UnlockTime = first + kR + D /\ LockDuration = D
  BY <1>1, <1>2, <1>3, <1>4, <1>5
<1>7. UnlockTime \in Counting(first + eR) <=> first + kR + D \in (first + eR + 1)..(first + eR + D - 1)
  BY <1>6 DEF Counting
<1> HIDE DEF eR, kR, D, R
<1>8. UnlockTime \in Counting(first + eR) <=> eR < kR + D /\ kR + D < eR + D
  BY <1>1, <1>6, <1>7
<1>9. UnlockTime \in Counting(first + eR) <=> e \in (k + 1)..(k + L - 1)
  BY <1>1, <1>6, <1>8
<1> QED BY <1>9 DEF eR, R, k, L, first

\* At time t the week number k runs, which starts at c.
Running(first, k, c, t) ==
  /\ first + k * RewardsDuration = c
  /\ c <= t /\ t < c + RewardsDuration

\* With a tick either the week goes on or the next one starts.
LEMMA EpochPasses ==
  ASSUME Views, Views', now' \in {now, now + 1}
  PROVE  /\ FindEpochId(now) \in Nat /\ LastEpoch \in Nat /\ FindEpochId(now)' <= LastEpoch
         /\ now' = now =>
              /\ FindEpochId(now)' = FindEpochId(now)
              /\ EpochStart(FindEpochId(now))' = EpochStart(FindEpochId(now))
         /\ now' = now + 1 =>
              \/ /\ FindEpochId(now)' = FindEpochId(now)
                 /\ (EpochStart(FindEpochId(now)) < now)'
              \/ /\ FindEpochId(now)' = FindEpochId(now) + 1
                 /\ ~(EpochStart(FindEpochId(now)) < now)'
<1> DEFINE first == WeekStart(StartTime)
<1>1. PICK f \in Nat, k \in Nat, c \in Nat, t \in Nat :
        /\ k = FindEpochId(now) /\ c = CurrentEpoch /\ t = now /\ f = first
        /\ Running(f, k, c, t) /\ EpochStart(FindEpochId(now)) = c
  BY DEF Views, Running
<1>2. PICK k2 \in Nat, c2 \in Nat, t2 \in Nat :
        /\ k2 = FindEpochId(now)' /\ c2 = CurrentEpoch' /\ t2 = now'
        /\ k2 <= LastEpoch /\ Running(f, k2, c2, t2) /\ EpochStart(FindEpochId(now))' = c2
  BY <1>1 DEF Views, Running
<1>3. LastEpoch \in Nat
  BY DEF Views
<1> HIDE DEF first
<1>4. /\ c2 = c => k2 = k
      /\ t2 = t + 1 => (k2 = k /\ c2 < t2) \/ (k2 = k + 1 /\ c2 = t2)
  <2> DEFINE R == RewardsDuration
             a == k * R
             b == k2 * R
  <2>1. /\ R \in Nat /\ R > 0 /\ k + 1 \in Nat /\ k + 2 \in Nat /\ k2 + 1 \in Nat
        /\ a \in Nat /\ b \in Nat
        /\ (k + 1) * R = a + R /\ (k + 2) * R = a + R + R /\ (k2 + 1) * R = b + R
    BY RewardsDurationAssumption
  <2>2. f + a = c /\ c <= t /\ t < c + R /\ f + b = c2 /\ c2 <= t2 /\ t2 < c2 + R
    BY <1>1, <1>2 DEF Running
  <2>3. /\ a = b <=> k = k2
        /\ a + R = b <=> k + 1 = k2
        /\ b < a + R + R <=> k2 < k + 2
        /\ a < b + R <=> k < k2 + 1
    BY <2>1, WeekOrder DEF R
  <2> HIDE DEF a, b, R
  <2>4. c2 = c => k2 = k
    BY <2>1, <2>2, <2>3
  <2>5. ASSUME t2 = t + 1 PROVE (k2 = k /\ c2 < t2) \/ (k2 = k + 1 /\ c2 = t2)
    <3>1. b < a + R + R /\ a < b + R
      BY <2>1, <2>2, <2>5
    <3>2. k2 = k \/ k2 = k + 1
      BY <3>1, <2>1, <2>2, <2>3
    <3>3. CASE k2 = k
      BY <3>3, <2>1, <2>2, <2>3, <2>5
    <3>4. CASE k2 = k + 1
      <4>1. a + R = b
        BY <3>4, <2>3
      <4>2. c2 = t2
        BY <4>1, <2>1, <2>2, <2>5
      <4> QED BY <4>2, <3>4
    <3> QED BY <3>2, <3>3, <3>4
  <2> QED BY <2>4, <2>5
<1>5. now' = now => k2 = k /\ c2 = c
  BY <1>1, <1>2, <1>4, SameDates
<1>6. (EpochStart(FindEpochId(now)) < now)' <=> c2 < t2
  BY <1>2
<1> QED BY <1>1, <1>2, <1>3, <1>4, <1>5, <1>6

\* Every transaction changes the history as EpochShares allows, or not at all.
LEMMA StepShares ==
  ASSUME IInv, DatesOK, HistoryOK, Conserved, Views, Views', HistoryOK', [Next]_vars
  PROVE  [Shares!ShareNext]_(Shares!shareVars)
<1> DEFINE R == RewardsDuration
           first == WeekStart(StartTime)
           k == FindEpochId(now)
           begun == EpochStart(k) < now
           latest == Len(epochs) - 1
           shares == [e \in 0..LastEpoch |-> [u \in Accounts |-> BalanceAtEpochOf(e, u)]]
<1>1. userLocks \in [Accounts -> Seq(LockedBalance)]
  BY DEF Views
<1>3. /\ \A e \in 0..LastEpoch, u \in Accounts :
           BalanceAtEpochOf(e, u) = Ending(userLocks[u], Counting(first + e * R))
      /\ \A e \in 0..LastEpoch, u \in Accounts :
           BalanceAtEpochOf(e, u)' = Ending(userLocks'[u], Counting(first + e * R))
  BY DEF Views
<1>4. /\ shares = [e \in 0..LastEpoch |-> [u \in Accounts |-> Ending(userLocks[u], Counting(first + e * R))]]
      /\ shares' = [e \in 0..LastEpoch |-> [u \in Accounts |-> Ending(userLocks'[u], Counting(first + e * R))]]
  BY <1>3
<1>5. HistoryMoves
  BY HistoryStep
<1> HIDE DEF R, first, k, begun, latest, shares
<1>6. now' \in {now, now + 1}
  BY <1>5 DEF HistoryMoves, Tick, CheckpointEpoch
<1>7. ASSUME now' = now PROVE k' = k /\ begun' = begun
  BY <1>6, <1>7, EpochPasses DEF k, begun
<1>8. userLocks' = userLocks => shares' = shares
  BY <1>4
<1>9. CASE UNCHANGED <<now, epochs, userLocks>>
  <2>1. k' = k /\ begun' = begun /\ latest' = latest /\ shares' = shares
    BY <1>7, <1>8, <1>9 DEF latest
  <2> QED BY <2>1 DEF Shares!shareVars, k, begun, latest, shares
<1>10. CASE Tick
  <2>1. now' = now + 1 /\ latest' = latest /\ shares' = shares
    BY <1>8, <1>10 DEF Tick, lockVars, latest
  <2>2. /\ k \in Nat /\ k' <= LastEpoch /\ LastEpoch \in Nat
        /\ (k' = k /\ begun') \/ (k' = k + 1 /\ ~begun')
    BY <1>6, <2>1, EpochPasses DEF k, begun
  <2>3. CASE k' = k /\ begun' /\ begun
    <3>1. UNCHANGED <<k, latest, shares>> /\ begun /\ begun'
      BY <2>1, <2>3
    <3> QED BY <3>1 DEF Shares!shareVars, k, begun, latest, shares
  <2>4. CASE k' = k /\ begun' /\ ~begun
    <3>1. ~begun /\ begun' /\ UNCHANGED <<k, latest, shares>>
      BY <2>1, <2>4
    <3> QED BY <3>1 DEF Shares!ShareNext, Shares!Begin, k, begun, latest, shares
  <2>5. CASE k' = k + 1 /\ ~begun'
    <3>1. k < LastEpoch /\ k' = k + 1 /\ ~begun' /\ UNCHANGED <<latest, shares>>
      BY <2>1, <2>5, <2>2
    <3> QED BY <3>1 DEF Shares!ShareNext, Shares!NextEpoch, k, begun, latest, shares
  <2> QED BY <2>3, <2>4, <2>5, <2>2
<1>11. CASE CheckpointEpoch
  <2>1. now' = now /\ userLocks' = userLocks /\ epochs' = CheckpointedEpochs
    BY <1>11 DEF CheckpointEpoch
  <2>2. latest' = k
    BY <2>1, LatestEpoch DEF latest, k
  <2>3. latest' = k /\ UNCHANGED <<k, begun, shares>>
    BY <2>1, <2>2, <1>7, <1>8
  <2> QED BY <2>3 DEF Shares!ShareNext, Shares!Checkpoint, k, begun, latest, shares
<1>12. ASSUME NEW u \in Accounts, NEW amount \in Nat, amount > 0,
              amount <= held[StakingToken] \/ \E a \in Accounts : amount <= wallet[a],
              epochs' = WithEpochSupply(amount),
              userLocks' = [userLocks EXCEPT ![u] = WithLock(@, amount)],
              now' = now
       PROVE  Shares!LockShare(u, amount) /\ amount \in 1..(NumAccounts * InitialWallet)
  <2>1. amount \in 1..(NumAccounts * InitialWallet)
    <3>1. amount <= NumAccounts * InitialWallet
      BY <1>12, LocksAreBounded
    <3>2. NumAccounts * InitialWallet \in Nat
      BY AccountsRange, TokenAssumption
    <3> QED BY <3>1, <3>2, <1>12
  <2>2. latest' = k
    <3>1. Len(WithEpochSupply(amount)) - 1 = k
      BY LatestEpoch DEF k
    <3> QED BY <3>1, <1>12 DEF latest
  <2>3. k' = k /\ begun' = begun
    BY <1>7, <1>12
  <2> DEFINE weeks == (k + 1)..(k + LockEpochs - 1)
  <2>4. ASSUME NEW e \in 0..LastEpoch
        PROVE  shares'[e] = IF e \in weeks THEN [shares[e] EXCEPT ![u] = @ + amount] ELSE shares[e]
    <3> DEFINE W == Counting(first + e * R)
    <3>1. UnlockTime \in W <=> e \in weeks
      <4>1. e \in Nat
        OBVIOUS
      <4> QED BY <4>1, NewLockCounts DEF k, first, R
    <3>2. UnlockTime \in Weeks /\ Dated(userLocks[u], UnlockTime)
      BY VoteFacts
    <3>3. shares[e] = [a \in Accounts |-> Ending(userLocks[a], W)]
          /\ shares'[e] = [a \in Accounts |-> Ending(userLocks'[a], W)]
      BY <1>4
    <3> HIDE DEF W, weeks
    <3>4. Ending(WithLock(userLocks[u], amount), W)
            = Ending(userLocks[u], W) + (IF UnlockTime \in W THEN amount ELSE 0)
      BY <3>2, <1>1, WithLockEnding
    <3>5. Ending(userLocks[u], W) \in Nat
      BY <1>1, EndingType
    <3>6. \A a \in Accounts : userLocks'[a] = IF a = u THEN WithLock(userLocks[u], amount) ELSE userLocks[a]
      BY <1>1, <1>12
    <3>7. CASE e \in weeks
      <4>1. shares'[e] = [a \in Accounts |-> IF a = u THEN Ending(userLocks[a], W) + amount
                                             ELSE Ending(userLocks[a], W)]
        BY <3>1, <3>3, <3>4, <3>6, <3>7
      <4> QED BY <4>1, <3>3, <3>7
    <3>8. CASE e \notin weeks
      <4>1. shares'[e] = [a \in Accounts |-> Ending(userLocks[a], W)]
        BY <3>1, <3>3, <3>4, <3>5, <3>6, <3>8
      <4> QED BY <4>1, <3>3, <3>8
    <3> QED BY <3>7, <3>8
  <2>5. shares' = [e \in 0..LastEpoch |-> IF e \in weeks
                                          THEN [shares[e] EXCEPT ![u] = @ + amount] ELSE shares[e]]
    <3>1. shares' = [e \in 0..LastEpoch |-> shares'[e]]
      BY <1>4
    <3> HIDE DEF weeks
    <3> QED BY <3>1, <2>4
  <2>6. latest' = k /\ UNCHANGED <<k, begun>>
    BY <2>2, <2>3
  <2> QED BY <2>1, <2>5, <2>6 DEF Shares!LockShare, Shares!Epochs, k, begun, latest, shares
<1>13. ASSUME NEW u \in Accounts, NEW amount \in 1..(NumAccounts * InitialWallet),
              Shares!LockShare(u, amount)
       PROVE  Shares!ShareNext
  BY <1>13 DEF Shares!ShareNext, Shares!Accounts, Accounts
<1> QED BY <1>5, <1>9, <1>10, <1>11, <1>12, <1>13 DEF HistoryMoves

\* The history that the views answer from is the one EpochShares describes.
THEOREM HistoryRefines == Spec => HistoryAsPromised
<1>1. Init => Shares!ShareInit
  BY InitShares
<1>2. Init => Conserved
  BY InitConserved
<1>3. IInv /\ Conserved /\ [Next]_vars => Conserved'
  BY NextConserves
<1>4. IInv /\ DatesOK /\ HistoryOK => Views
  BY ViewsHold
<1>5. /\ IInv /\ DatesOK /\ HistoryOK /\ Conserved /\ Views /\ Views' /\ HistoryOK' /\ [Next]_vars
      => [Shares!ShareNext]_(Shares!shareVars)
  BY StepShares
<1> QED BY <1>1, <1>2, <1>3, <1>4, <1>5, HistoryFollowsLocks, PTL
        DEF Spec, HistoryAsPromised, Shares!ShareSpec

----------------------------------------------------------------------------------
(* Past votes *)

\* The pairs of bounds a search of n entries goes through.
Ranges(n) == (0..n) \X (0..n)

\* One turn of the binary search with the function s for the rest of it.
SearchTurn(s, ckpts, e, range) ==
  LET low  == range[1]
      high == range[2]
      mid  == (low + high) \div 2
  IN  IF low >= high THEN high
      ELSE IF ckpts[mid + 1].epochStart > e THEN s[<<low, mid>>]
      ELSE s[<<mid + 1, high>>]

IsSearch(s, ckpts, e) == s = [range \in Ranges(Len(ckpts)) |-> SearchTurn(s, ckpts, e, range)]

\* What the search finds between two bounds when the first c checkpoints are early enough.
Found(c, low, high) == IF high <= low THEN high ELSE IF c <= low THEN low ELSE AtMost(c, high)

\* The middle lies between the bounds.
LEMMA Middle ==
  ASSUME NEW low \in Nat, NEW high \in Nat, low < high
  PROVE  /\ (low + high) \div 2 \in Nat
         /\ low <= (low + high) \div 2 /\ (low + high) \div 2 < high
OBVIOUS

\* _checkpointsLookup is one such search over all the checkpoints.
LEMMA SearchUnfolds ==
  ASSUME NEW ckpts, NEW e
  PROVE CheckpointsUpTo(ckpts, e) = (CHOOSE s : IsSearch(s, ckpts, e))[<<0, Len(ckpts)>>]
BY DEF CheckpointsUpTo, IsSearch, SearchTurn, Ranges

\* What a search finds between two bounds is what its next turn finds.
LEMMA OneTurn ==
  ASSUME NEW s, NEW ckpts, NEW e, Len(ckpts) \in Nat, IsSearch(s, ckpts, e),
         NEW low \in 0..Len(ckpts), NEW high \in 0..Len(ckpts)
  PROVE  s[<<low, high>>] = IF low >= high THEN high
             ELSE IF ckpts[(low + high) \div 2 + 1].epochStart > e THEN s[<<low, (low + high) \div 2>>]
             ELSE s[<<(low + high) \div 2 + 1, high>>]
<1>1. <<low, high>> \in Ranges(Len(ckpts))  BY DEF Ranges
<1>2. s[<<low, high>>] = SearchTurn(s, ckpts, e, <<low, high>>)
  BY <1>1 DEF IsSearch
<1>. QED BY <1>2 DEF SearchTurn

\* The first c of ckpts are those that start no later than e.
Counts(c, ckpts, e) ==
  /\ c \in 0..Len(ckpts)
  /\ \A i \in 1..Len(ckpts) : i <= c <=> ckpts[i].epochStart <= e

\* Found solves the search: one turn of it leads from Found to Found.
LEMMA FoundTurns ==
  ASSUME NEW ckpts, NEW e \in Int, NEW c, Len(ckpts) \in Nat, Counts(c, ckpts, e),
         \A i \in 1..Len(ckpts) : ckpts[i].epochStart \in Int,
         NEW low \in 0..Len(ckpts), NEW high \in 0..Len(ckpts)
  PROVE  Found(c, low, high) =
           IF low >= high THEN high
           ELSE IF ckpts[(low + high) \div 2 + 1].epochStart > e
                THEN Found(c, low, (low + high) \div 2)
                ELSE Found(c, (low + high) \div 2 + 1, high)
<1>. DEFINE mid == (low + high) \div 2
<1>1. CASE low >= high
  BY <1>1 DEF Found
<1>2. CASE low < high
  <2>1. mid \in Nat /\ low <= mid /\ mid < high
    BY <1>2, Middle
  <2>2. mid + 1 \in 1..Len(ckpts)
    BY <2>1
  <2>3. ckpts[mid + 1].epochStart > e <=> c <= mid
    BY <2>1, <2>2 DEF Counts
  <2>4. c \in Nat
    BY DEF Counts
  <2>. HIDE DEF mid
  <2>5. c <= mid => Found(c, low, high) = Found(c, low, mid)
    BY <1>2, <2>1, <2>4 DEF Found, AtMost
  <2>6. c > mid => Found(c, low, high) = Found(c, mid + 1, high)
    BY <1>2, <2>1, <2>4 DEF Found, AtMost
  <2>7. Found(c, low, high) = IF low >= high THEN high
           ELSE IF ckpts[mid + 1].epochStart > e THEN Found(c, low, mid)
           ELSE Found(c, mid + 1, high)
    BY <1>2, <2>1, <2>3, <2>4, <2>5, <2>6
  <2>. QED BY <2>7 DEF mid
<1>. QED BY <1>1, <1>2

\* A search there is.
LEMMA SearchExists ==
  ASSUME NEW ckpts, NEW e \in Int, NEW c, Len(ckpts) \in Nat, Counts(c, ckpts, e),
         \A i \in 1..Len(ckpts) : ckpts[i].epochStart \in Int
  PROVE  \E s : IsSearch(s, ckpts, e)
<1>. DEFINE n == Len(ckpts)
            s == [range \in Ranges(n) |-> Found(c, range[1], range[2])]
<1>1. ASSUME NEW range \in Ranges(n)
      PROVE  s[range] = SearchTurn(s, ckpts, e, range)
  <2>1. PICK low \in 0..n, high \in 0..n : range = <<low, high>>
    BY <1>1 DEF Ranges
  <2>. DEFINE mid == (low + high) \div 2
  <2>2. s[range] = Found(c, low, high)
    BY <2>1, <1>1
  <2>3. CASE low >= high
    BY <2>1, <2>2, <2>3 DEF SearchTurn, Found
  <2>4. CASE low < high
    <3>1. mid \in 0..n /\ mid + 1 \in 0..n
      <4>1. mid \in Nat /\ low <= mid /\ mid < high
        BY ONLY <2>4, low \in 0..n, high \in 0..n, n \in Nat, Middle
      <4>. HIDE DEF mid, s
      <4>. QED BY <4>1
    <3>2. <<low, mid>> \in Ranges(n) /\ <<mid + 1, high>> \in Ranges(n)
      BY <3>1 DEF Ranges
    <3>3. s[<<low, mid>>] = Found(c, low, mid) /\ s[<<mid + 1, high>>] = Found(c, mid + 1, high)
      BY <3>2
    <3>4. Found(c, low, high) = IF ckpts[mid + 1].epochStart > e THEN Found(c, low, mid)
                                ELSE Found(c, mid + 1, high)
      BY <2>4, FoundTurns
    <3>5. SearchTurn(s, ckpts, e, <<low, high>>) =
            IF ckpts[mid + 1].epochStart > e THEN s[<<low, mid>>] ELSE s[<<mid + 1, high>>]
      <4>. HIDE DEF s
      <4>. QED BY <2>4 DEF SearchTurn
    <3>. HIDE DEF s, mid
    <3>. QED BY <2>1, <2>2, <3>3, <3>4, <3>5
  <2>. QED BY <2>3, <2>4
<1>2. s = [range \in Ranges(n) |-> SearchTurn(s, ckpts, e, range)]
  <2>1. s = [range \in Ranges(n) |-> s[range]]
    OBVIOUS
  <2>. HIDE DEF s
  <2>. QED BY <1>1, <2>1
<1>. QED BY <1>2 DEF IsSearch

\* Every search finds Found.
LEMMA SearchIsFound ==
  ASSUME NEW ckpts, NEW e \in Int, NEW c, Len(ckpts) \in Nat, Counts(c, ckpts, e),
         \A i \in 1..Len(ckpts) : ckpts[i].epochStart \in Int,
         NEW s, IsSearch(s, ckpts, e)
  PROVE  \A low, high \in 0..Len(ckpts) : s[<<low, high>>] = Found(c, low, high)
<1>. DEFINE n == Len(ckpts)
            S == {k \in 0..n : \A low, high \in 0..n :
                                 high - low <= k => s[<<low, high>>] = Found(c, low, high)}
<1>1. ASSUME NEW low \in 0..n, NEW high \in 0..n, low >= high
      PROVE  s[<<low, high>>] = Found(c, low, high)
  <2>1. s[<<low, high>>] = high
    BY <1>1, OneTurn
  <2>. QED BY <1>1, <2>1 DEF Found
<1>2. 0 \in S
  BY <1>1
<1>3. ASSUME NEW k \in 0..n, k \in S, k < n
      PROVE  k + 1 \in S
  <2>1. ASSUME NEW low \in 0..n, NEW high \in 0..n, high - low <= k + 1, low < high
        PROVE  s[<<low, high>>] = Found(c, low, high)
    <3>. DEFINE mid == (low + high) \div 2
    <3>1. mid \in Nat /\ low <= mid /\ mid < high
      BY <2>1, Middle
    <3>. HIDE DEF mid
    <3>2. mid \in 0..n /\ mid + 1 \in 0..n /\ mid - low <= k /\ high - (mid + 1) <= k
      BY <2>1, <3>1
    <3>3. s[<<low, mid>>] = Found(c, low, mid) /\ s[<<mid + 1, high>>] = Found(c, mid + 1, high)
      BY <1>3, <3>2
    <3>4. s[<<low, high>>] = IF ckpts[mid + 1].epochStart > e THEN s[<<low, mid>>]
                             ELSE s[<<mid + 1, high>>]
      BY <2>1, OneTurn DEF mid
    <3>5. Found(c, low, high) = IF ckpts[mid + 1].epochStart > e THEN Found(c, low, mid)
                                ELSE Found(c, mid + 1, high)
      BY <2>1, FoundTurns DEF mid
    <3>. QED BY <3>3, <3>4, <3>5
  <2>2. \A low, high \in 0..n : high - low <= k + 1 => s[<<low, high>>] = Found(c, low, high)
    BY <1>1, <2>1
  <2>3. k + 1 \in 0..n
    BY <1>3
  <2>. QED BY <2>2, <2>3
<1>4. n \in S
  <2>. HIDE DEF S
  <2>1. 0..n \subseteq S
    BY <1>2, <1>3, BoundedInduction
  <2>. QED BY <2>1
<1>5. \A low, high \in 0..n : high - low <= n => s[<<low, high>>] = Found(c, low, high)
  BY <1>4
<1>6. \A low, high \in 0..n : high - low <= n
  OBVIOUS
<1>. HIDE DEF S
<1>7. \A low, high \in 0..n : s[<<low, high>>] = Found(c, low, high)
  <2>. HIDE DEF n
  <2>. QED BY <1>5, <1>6
<1>. QED BY <1>7

\* Checkpoints are in order of their epochs, one for each.
InOrder(ckpts) ==
  \A i, j \in 1..Len(ckpts) : i < j => ckpts[i].epochStart < ckpts[j].epochStart

\* Of checkpoints in order those that start no later than e come first.
LEMMA CountExists ==
  ASSUME NEW ckpts, NEW e \in Int, Len(ckpts) \in Nat, InOrder(ckpts),
         \A i \in 1..Len(ckpts) : ckpts[i].epochStart \in Int
  PROVE  \E c : Counts(c, ckpts, e)
<1>. DEFINE n == Len(ckpts)
            T == {i \in 1..n : ckpts[i].epochStart <= e}
<1>1. CASE T = {}
  <2>1. Counts(0, ckpts, e)
    BY <1>1 DEF Counts
  <2>. QED BY <2>1
<1>2. CASE T # {}
  <2>1. PICK c \in T : \A i \in T : i <= c
    <3>1. T \in SUBSET (0..n)
      OBVIOUS
    <3>. HIDE DEF T
    <3>. QED BY <1>2, <3>1, GreatestElement
  <2>2. c \in 1..n /\ ckpts[c].epochStart <= e
    BY <2>1
  <2>3. ASSUME NEW i \in 1..n PROVE i <= c <=> ckpts[i].epochStart <= e
    BY <2>1, <2>2, <2>3 DEF InOrder
  <2>4. Counts(c, ckpts, e)
    BY <2>2, <2>3 DEF Counts
  <2>. QED BY <2>4
<1>. QED BY <1>1, <1>2

\* The binary search counts the checkpoints that start no later than e.
LEMMA CheckpointsCounted ==
  ASSUME NEW ckpts, NEW e \in Int, Len(ckpts) \in Nat, InOrder(ckpts),
         \A i \in 1..Len(ckpts) : ckpts[i].epochStart \in Int
  PROVE  Counts(CheckpointsUpTo(ckpts, e), ckpts, e)
<1>1. PICK c : Counts(c, ckpts, e)
  BY CountExists
<1>2. \E s : IsSearch(s, ckpts, e)
  BY <1>1, SearchExists
<1>. DEFINE s == CHOOSE s : IsSearch(s, ckpts, e)
<1>3. IsSearch(s, ckpts, e)
  BY <1>2
<1>4. CheckpointsUpTo(ckpts, e) = s[<<0, Len(ckpts)>>]
  BY SearchUnfolds
<1>. HIDE DEF s
<1>5. s[<<0, Len(ckpts)>>] = Found(c, 0, Len(ckpts))
  BY <1>1, <1>3, SearchIsFound
<1>6. Found(c, 0, Len(ckpts)) = c
  BY <1>1 DEF Counts, Found, AtMost
<1>. QED BY <1>1, <1>4, <1>5, <1>6

\* The checkpoints before the epoch `at` are the same in both.
SamePast(a, b, at) ==
  /\ \A i \in 1..Len(a) : a[i].epochStart < at => i \in 1..Len(b) /\ b[i] = a[i]
  /\ \A i \in 1..Len(b) : b[i].epochStart < at => i \in 1..Len(a) /\ a[i] = b[i]

\* Checkpoints and unlocks that follow others by a step in the week before `at`.
Follows(c2, u2, c1, u1, at) ==
  /\ InOrder(c2)
  /\ SamePast(c1, c2, at)
  /\ \A x \in Weeks : x <= at => u2[x] = u1[x]

\* A checkpoint has its place in the calendar.
LEMMA CheckpointEntries ==
  ASSUME NEW ckpts \in Seq(DelegateeCheckpoint)
  PROVE  /\ Len(ckpts) \in Nat
         /\ \A i \in 1..Len(ckpts) : /\ ckpts[i].votes \in Nat
                                     /\ ckpts[i].epochStart \in Weeks
                                     /\ ckpts[i].epochStart \in Nat
<1>1. ASSUME NEW i \in 1..Len(ckpts)
      PROVE  ckpts[i].votes \in Nat /\ ckpts[i].epochStart \in Weeks /\ ckpts[i].epochStart \in Nat
  <2>1. ckpts[i] \in DelegateeCheckpoint
    OBVIOUS
  <2>2. ckpts[i].votes \in Nat /\ ckpts[i].epochStart \in Weeks
    BY <2>1 DEF DelegateeCheckpoint
  <2>. QED BY <2>2, WeekIsNat
<1>. QED BY <1>1

\* As many checkpoints are early enough before a step and after it.
LEMMA SameCount ==
  ASSUME NEW a \in Seq(DelegateeCheckpoint), NEW b \in Seq(DelegateeCheckpoint),
         NEW w \in Nat, NEW at \in Nat, w < at, SamePast(a, b, at),
         NEW c, Counts(c, a, w), NEW e, Counts(e, b, w)
  PROVE  c = e /\ (c > 0 => b[c] = a[c])
<1>1. /\ Len(a) \in Nat /\ Len(b) \in Nat
      /\ \A i \in 1..Len(a) : a[i].epochStart \in Nat
      /\ \A i \in 1..Len(b) : b[i].epochStart \in Nat
  BY CheckpointEntries
<1>2. c \in 0..Len(a) /\ e \in 0..Len(b)
  BY DEF Counts
<1>3. c > 0 => c \in 1..Len(b) /\ b[c] = a[c] /\ c <= e
  <2>. SUFFICES ASSUME c > 0 PROVE c \in 1..Len(b) /\ b[c] = a[c] /\ c <= e
    OBVIOUS
  <2>1. c \in 1..Len(a) /\ a[c].epochStart <= w
    BY <1>1, <1>2 DEF Counts
  <2>2. a[c].epochStart < at
    BY <2>1, <1>1
  <2>3. c \in 1..Len(b) /\ b[c] = a[c]
    BY <2>1, <2>2 DEF SamePast
  <2>. QED BY <2>1, <2>3 DEF Counts
<1>4. e > 0 => e <= c
  <2>. SUFFICES ASSUME e > 0 PROVE e <= c
    OBVIOUS
  <2>1. e \in 1..Len(b) /\ b[e].epochStart <= w
    BY <1>1, <1>2 DEF Counts
  <2>2. b[e].epochStart < at
    BY <2>1, <1>1
  <2>3. e \in 1..Len(a) /\ a[e] = b[e]
    BY <2>1, <2>2 DEF SamePast
  <2>. QED BY <2>1, <2>3 DEF Counts
<1>. QED BY <1>1, <1>2, <1>3, <1>4

\* What getPastVotes answers from given checkpoints and unlocks.
PastVotes(ckpts, unlocks, epoch) ==
  LET found == CheckpointsUpTo(ckpts, epoch)
  IN  IF found = 0 \/ ckpts[found].votes = 0 \/ AllExpired(ckpts[found], epoch)
      THEN 0
      ELSE ckpts[found].votes - UnlocksBetween(unlocks, ckpts[found].epochStart, epoch)

\* The answer for a week that has begun does not change.
LEMMA PastVotesStay ==
  ASSUME NEW a \in Seq(DelegateeCheckpoint), NEW b \in Seq(DelegateeCheckpoint), NEW u, NEW v,
         NEW at \in Nat, InOrder(a), Follows(b, v, a, u, at), NEW w \in Weeks, w < at
  PROVE  PastVotes(b, v, w) = PastVotes(a, u, w)
<1>1. /\ Len(a) \in Nat /\ Len(b) \in Nat /\ w \in Nat
      /\ \A i \in 1..Len(a) : a[i].epochStart \in Nat /\ a[i].epochStart \in Weeks
      /\ \A i \in 1..Len(b) : b[i].epochStart \in Nat
  BY CheckpointEntries, WeekIsNat
<1>. DEFINE found == CheckpointsUpTo(a, w)
<1>2. Counts(found, a, w) /\ Counts(CheckpointsUpTo(b, w), b, w)
  BY <1>1, CheckpointsCounted DEF Follows
<1>3. CheckpointsUpTo(b, w) = found /\ (found > 0 => b[found] = a[found])
  BY <1>1, <1>2, SameCount DEF Follows
<1>. HIDE DEF found
<1>4. found # 0 => UnlocksBetween(v, a[found].epochStart, w) = UnlocksBetween(u, a[found].epochStart, w)
  <2>. SUFFICES ASSUME found # 0
                PROVE  UnlocksBetween(v, a[found].epochStart, w) = UnlocksBetween(u, a[found].epochStart, w)
    OBVIOUS
  <2>1. found \in 1..Len(a) /\ a[found].epochStart <= w
    BY <1>1, <1>2 DEF Counts
  <2>2. \A x \in Weeks : x <= w => v[x] = u[x]
    <3>1. ASSUME NEW x \in Weeks, x <= w PROVE x <= at
      BY <1>1, <3>1, WeekIsNat
    <3>. QED BY <3>1 DEF Follows
  <2>. QED BY <1>1, <2>1, <2>2, UnlocksCongruence
<1>5. found # 0 => found > 0
  BY <1>1, <1>2 DEF Counts
<1>6. PastVotes(a, u, w) = IF found = 0 \/ a[found].votes = 0 \/ AllExpired(a[found], w) THEN 0
                           ELSE a[found].votes - UnlocksBetween(u, a[found].epochStart, w)
  BY DEF PastVotes, found
<1>7. PastVotes(b, v, w) = IF found = 0 \/ b[found].votes = 0 \/ AllExpired(b[found], w) THEN 0
                           ELSE b[found].votes - UnlocksBetween(v, b[found].epochStart, w)
  BY <1>3 DEF PastVotes
<1>. QED BY <1>3, <1>4, <1>5, <1>6, <1>7

\* A checkpoint is the newest, and leaves those of earlier epochs as they are.
LEMMA CheckpointFollows ==
  ASSUME now \in StartTime..MaxTime,
         NEW ckpts \in Seq(DelegateeCheckpoint), InOrder(ckpts),
         ckpts # <<>> => ckpts[Len(ckpts)].epochStart <= UpcomingEpoch,
         NEW unlocks, NEW addition, NEW deduction
  PROVE  /\ InOrder(CheckpointDelegate(ckpts, unlocks, addition, deduction))
         /\ SamePast(ckpts, CheckpointDelegate(ckpts, unlocks, addition, deduction), UpcomingEpoch)
<1>. DEFINE carried == CarriedVotes(ckpts, unlocks, UpcomingEpoch)
            ckpt == [votes |-> carried + addition - deduction, epochStart |-> UpcomingEpoch]
            n == Len(ckpts)
            new == CheckpointDelegate(ckpts, unlocks, addition, deduction)
<1>1. /\ n \in Nat /\ UpcomingEpoch \in Nat
      /\ \A i \in 1..n : ckpts[i].epochStart \in Nat
  BY Calendar, WeekIsNat, CheckpointEntries
<1>2. ckpt.epochStart = UpcomingEpoch
  OBVIOUS
<1>3. new = IF ckpts # <<>> /\ ckpts[n].epochStart = UpcomingEpoch
            THEN [ckpts EXCEPT ![n] = ckpt] ELSE Append(ckpts, ckpt)
  BY DEF CheckpointDelegate
<1>4. ckpts # <<>> => n \in 1..n /\ ckpts[n].epochStart <= UpcomingEpoch
  BY <1>1
<1>5. \A i \in 1..n : i < n => ckpts[i].epochStart < ckpts[n].epochStart
  BY <1>1 DEF InOrder
<1>. HIDE DEF ckpt, new
<1>6. CASE ckpts # <<>> /\ ckpts[n].epochStart = UpcomingEpoch
  <2>1. /\ Len(new) = n /\ new[n] = ckpt
        /\ \A i \in 1..n : i # n => new[i] = ckpts[i]
    BY <1>3, <1>4, <1>6
  <2>2. InOrder(new)
    BY <2>1, <1>1, <1>2, <1>5, <1>6 DEF InOrder
  <2>3. SamePast(ckpts, new, UpcomingEpoch)
    BY <2>1, <1>1, <1>2, <1>6 DEF SamePast
  <2>. QED BY <2>2, <2>3 DEF new
<1>7. CASE ~(ckpts # <<>> /\ ckpts[n].epochStart = UpcomingEpoch)
  <2>1. /\ Len(new) = n + 1 /\ new[n + 1] = ckpt
        /\ \A i \in 1..n : new[i] = ckpts[i]
    BY <1>3, <1>7
  <2>2. \A i \in 1..n : ckpts[i].epochStart < UpcomingEpoch
    <3>1. CASE n = 0
      BY <3>1
    <3>2. CASE n > 0
      <4>1. ckpts # <<>> /\ n \in 1..n
        BY <3>2, <1>1
      <4>2. ckpts[n].epochStart < UpcomingEpoch
        BY <4>1, <1>1, <1>4, <1>7
      <4>. QED BY <4>1, <4>2, <1>1, <1>5
    <3>. QED BY <3>1, <3>2, <1>1
  <2>3. InOrder(new)
    BY <2>1, <2>2, <1>1, <1>2 DEF InOrder
  <2>4. SamePast(ckpts, new, UpcomingEpoch)
    BY <2>1, <2>2, <1>1, <1>2 DEF SamePast
  <2>. QED BY <2>3, <2>4 DEF new
<1>. QED BY <1>6, <1>7

\* Checkpoints and unlocks follow themselves.
LEMMA FollowsItself ==
  ASSUME NEW c, NEW u, NEW at, InOrder(c)
  PROVE  Follows(c, u, c, u, at)
BY DEF Follows, SamePast

\* What follows is followed on.
LEMMA FollowsOn ==
  ASSUME NEW c1, NEW u1, NEW c2, NEW u2, NEW c3, NEW u3, NEW at,
         Follows(c2, u2, c1, u1, at), Follows(c3, u3, c2, u2, at)
  PROVE  Follows(c3, u3, c1, u1, at)
<1>1. SamePast(c1, c3, at)
  <2>1. ASSUME NEW i \in 1..Len(c1), c1[i].epochStart < at PROVE i \in 1..Len(c3) /\ c3[i] = c1[i]
    <3>1. i \in 1..Len(c2) /\ c2[i] = c1[i]
      BY <2>1 DEF Follows, SamePast
    <3>. QED BY <2>1, <3>1 DEF Follows, SamePast
  <2>2. ASSUME NEW i \in 1..Len(c3), c3[i].epochStart < at PROVE i \in 1..Len(c1) /\ c1[i] = c3[i]
    <3>1. i \in 1..Len(c2) /\ c2[i] = c3[i]
      BY <2>2 DEF Follows, SamePast
    <3>. QED BY <2>2, <3>1 DEF Follows, SamePast
  <2>. QED BY <2>1, <2>2 DEF SamePast
<1>. QED BY <1>1 DEF Follows

\* The checkpoints of every delegatee are in order.
OrderOK == \A d \in Delegatees : InOrder(checkpointedVotes[d])

\* Every delegatee's follow the present ones.
AllFollow(ckpts, unlocks) ==
  \A d \in Delegatees :
    Follows(ckpts[d], unlocks[d], checkpointedVotes[d], delegateeUnlocks[d], UpcomingEpoch)

\* A checkpoint of one delegatee, whose unlocks up to the upcoming epoch stay as they are.
LEMMA DelegateeFollows ==
  ASSUME now \in StartTime..MaxTime, NEW ckpts \in Seq(DelegateeCheckpoint), InOrder(ckpts),
         ckpts # <<>> => ckpts[Len(ckpts)].epochStart <= UpcomingEpoch,
         NEW unlocks, NEW unlocks2, \A x \in Weeks : x <= UpcomingEpoch => unlocks2[x] = unlocks[x],
         NEW addition, NEW deduction
  PROVE  Follows(CheckpointDelegate(ckpts, unlocks2, addition, deduction), unlocks2,
                 ckpts, unlocks, UpcomingEpoch)
<1>1. /\ InOrder(CheckpointDelegate(ckpts, unlocks2, addition, deduction))
      /\ SamePast(ckpts, CheckpointDelegate(ckpts, unlocks2, addition, deduction), UpcomingEpoch)
  BY CheckpointFollows
<1>. QED BY <1>1 DEF Follows

\* _lock adds an unlock far ahead and a checkpoint of the upcoming epoch.
LEMMA LockTokensFollows ==
  ASSUME IInv, DatesOK, NEW sender, NEW u \in Accounts, NEW amount \in Nat, NEW bals, NEW supply,
         NEW ckpts, CheckpointsOK(ckpts), AllFollow(ckpts, delegateeUnlocks),
         LockTokens(sender, u, amount, bals, supply, ckpts)
  PROVE  AllFollow(checkpointedVotes', delegateeUnlocks')
<1>. DEFINE d == delegates[u]
            unlocks2 == [delegateeUnlocks[d] EXCEPT ![UnlockTime] = @ + amount]
<1>1. /\ d \in Delegatees \cup {NoOne}
      /\ delegateeUnlocks \in [Delegatees -> [Weeks -> Nat]]
      /\ now \in StartTime..MaxTime
      /\ UpcomingEpoch \in Weeks /\ UnlockTime \in Weeks /\ UnlockTime \in After(UpcomingEpoch)
  BY VoteFacts
<1>2. CASE d = NoOne
  BY <1>2 DEF LockTokens
<1>3. CASE d \in Delegatees
  <2>1. /\ delegateeUnlocks' = [delegateeUnlocks EXCEPT ![d][UnlockTime] = @ + amount]
        /\ checkpointedVotes' = [ckpts EXCEPT ![d] = CheckpointDelegate(@, delegateeUnlocks'[d], amount, 0)]
    BY <1>3, AccountsAssumption DEF LockTokens
  <2>2. delegateeUnlocks'[d] = unlocks2 /\ delegateeUnlocks[d] \in [Weeks -> Nat]
    BY <2>1, <1>1, <1>3
  <2>3. /\ ckpts[d] \in Seq(DelegateeCheckpoint)
        /\ ckpts[d] # <<>> => ckpts[d][Len(ckpts[d])].epochStart <= UpcomingEpoch
        /\ checkpointedVotes'[d] = CheckpointDelegate(ckpts[d], unlocks2, amount, 0)
    BY <2>1, <2>2, <1>3 DEF CheckpointsOK
  <2>4. Follows(ckpts[d], delegateeUnlocks[d], checkpointedVotes[d], delegateeUnlocks[d], UpcomingEpoch)
    BY <1>3 DEF AllFollow
  <2>5. \A x \in Weeks : x <= UpcomingEpoch => unlocks2[x] = delegateeUnlocks[d][x]
    <3>1. UpcomingEpoch \in Nat /\ UnlockTime \in Nat /\ UnlockTime > UpcomingEpoch
      BY <1>1, WeekIsNat DEF After
    <3>2. \A x \in Weeks : x # UnlockTime => unlocks2[x] = delegateeUnlocks[d][x]
      BY <2>2, <1>1
    <3>. QED BY <3>1, <3>2
  <2>. HIDE DEF d, unlocks2
  <2>6. Follows(CheckpointDelegate(ckpts[d], unlocks2, amount, 0), unlocks2,
                ckpts[d], delegateeUnlocks[d], UpcomingEpoch)
    <3>1. InOrder(ckpts[d])
      BY <2>4 DEF Follows
    <3>. QED BY <3>1, <2>3, <2>5, <1>1, DelegateeFollows
  <2>7. Follows(checkpointedVotes'[d], delegateeUnlocks'[d], checkpointedVotes[d], delegateeUnlocks[d],
                UpcomingEpoch)
    BY <2>2, <2>3, <2>4, <2>6, FollowsOn
  <2>8. ASSUME NEW c \in Delegatees, c # d
        PROVE  checkpointedVotes'[c] = ckpts[c] /\ delegateeUnlocks'[c] = delegateeUnlocks[c]
    BY <2>1, <2>8, <1>1 DEF CheckpointsOK
  <2>. QED BY <2>7, <2>8 DEF AllFollow
<1>. QED BY <1>1, <1>2, <1>3

\* _processExpiredLocks checkpoints the delegatee, and a relock does so once more.
LEMMA ProcessedFollows ==
  ASSUME IInv, DatesOK, OrderOK, NEW u \in Accounts, NEW relock, NEW rewardAddress, NEW delay,
         NEW amount \in Nat, NEW reward, NEW next,
         Processed(u, relock, rewardAddress, delay, amount, reward, next)
  PROVE  AllFollow(checkpointedVotes', delegateeUnlocks')
<1>. DEFINE bals  == [balances EXCEPT ![u] = [locked |-> @.locked - amount, nextUnlockIndex |-> next]]
            d     == delegates[u]
            ckpts == IF d = NoOne THEN checkpointedVotes
                     ELSE [checkpointedVotes EXCEPT
                             ![d] = CheckpointDelegate(@, delegateeUnlocks[d], 0, 0)]
<1>1. /\ d \in Delegatees \cup {NoOne} /\ NoOne \notin Delegatees
      /\ delegateeUnlocks \in [Delegatees -> [Weeks -> Nat]]
      /\ now \in StartTime..MaxTime
      /\ CheckpointsOK(checkpointedVotes)
  BY VoteFacts DEF IInv, VotesOK
<1>2. d # NoOne => CanCheckpoint(checkpointedVotes[d], delegateeUnlocks[d], 0, 0)
  BY DEF Processed
<1>3. CheckpointsOK(ckpts)
  <2>1. CASE d = NoOne
    BY <2>1, <1>1
  <2>2. CASE d \in Delegatees
    <3>1. delegateeUnlocks[d] \in [Weeks -> Nat] /\ d # NoOne
      BY <2>2, <1>1
    <3>2. CheckpointsOK([checkpointedVotes EXCEPT ![d] = CheckpointDelegate(@, delegateeUnlocks[d], 0, 0)])
      <4>. HIDE DEF d
      <4>. QED BY <2>2, <3>1, <1>1, <1>2, CheckpointKeeps
    <3>. QED BY <3>1, <3>2
  <2>. QED BY <2>1, <2>2, <1>1
<1>4. AllFollow(ckpts, delegateeUnlocks)
  <2>1. ASSUME NEW c \in Delegatees, c # d
        PROVE  Follows(ckpts[c], delegateeUnlocks[c], checkpointedVotes[c], delegateeUnlocks[c], UpcomingEpoch)
    <3>1. ckpts[c] = checkpointedVotes[c]
      BY <2>1, <1>1 DEF CheckpointsOK
    <3>. QED BY <3>1, FollowsItself DEF OrderOK
  <2>2. ASSUME d \in Delegatees
        PROVE  Follows(ckpts[d], delegateeUnlocks[d], checkpointedVotes[d], delegateeUnlocks[d], UpcomingEpoch)
    <3>1. /\ ckpts[d] = CheckpointDelegate(checkpointedVotes[d], delegateeUnlocks[d], 0, 0)
          /\ checkpointedVotes[d] \in Seq(DelegateeCheckpoint)
          /\ checkpointedVotes[d] # <<>>
               => checkpointedVotes[d][Len(checkpointedVotes[d])].epochStart <= UpcomingEpoch
          /\ InOrder(checkpointedVotes[d])
      BY <2>2, <1>1 DEF CheckpointsOK, OrderOK
    <3>. HIDE DEF d, ckpts
    <3>. QED BY <3>1, <1>1, DelegateeFollows
  <2>. QED BY <2>1, <2>2 DEF AllFollow
<1>5. CASE relock
  <2>1. LockTokens(rewardAddress, u, amount, bals, lockedSupply - amount, ckpts)
    BY <1>5 DEF Processed
  <2>. HIDE DEF bals, ckpts
  <2>. QED BY <2>1, <1>3, <1>4, LockTokensFollows
<1>6. CASE ~relock
  <2>1. checkpointedVotes' = ckpts /\ UNCHANGED delegateeUnlocks
    BY <1>6 DEF Processed
  <2>. QED BY <2>1, <1>4
<1>. QED BY <1>5, <1>6

\* A delegation moves unlocks after the upcoming epoch only.
LEMMA DelegateFollows ==
  ASSUME IInv, DatesOK, OrderOK, NEW u \in Accounts, NEW newDelegatee \in Delegatees,
         Delegate(u, newDelegatee)
  PROVE  AllFollow(checkpointedVotes', delegateeUnlocks')
<1>. DEFINE locks   == userLocks[u]
            old     == delegates[u]
            moved   == LockSum(locks, FirstMoved(locks) - 1, Len(locks))
            unlocks == [d \in Delegatees |-> [w \in Weeks |->
                          delegateeUnlocks[d][w] + (CASE d = newDelegatee -> MovedAt(locks, w)
                                                      [] d = old -> - MovedAt(locks, w)
                                                      [] OTHER -> 0)]]
            given   == IF old = NoOne THEN checkpointedVotes
                       ELSE [checkpointedVotes EXCEPT
                               ![old] = CheckpointDelegate(@, unlocks[old], 0, moved)]
<1>1. /\ newDelegatee # old
      /\ delegateeUnlocks' = unlocks
      /\ checkpointedVotes' =
           [given EXCEPT ![newDelegatee] = CheckpointDelegate(@, unlocks[newDelegatee], moved, 0)]
  BY DEF Delegate
<1>2. /\ NoOne \notin Delegatees /\ old \in Delegatees \cup {NoOne}
      /\ delegateeUnlocks \in [Delegatees -> [Weeks -> Nat]]
      /\ checkpointedVotes \in [Delegatees -> Seq(DelegateeCheckpoint)]
      /\ locks \in Seq(LockedBalance) /\ Dated(locks, UnlockTime)
      /\ now \in StartTime..MaxTime /\ UpcomingEpoch \in Weeks
  BY VoteFacts DEF IInv, VotesOK, CheckpointsOK
<1>3. \A w \in Weeks : w <= UpcomingEpoch => MovedAt(locks, w) = 0
  <2>1. ASSUME NEW w \in Weeks, w <= UpcomingEpoch PROVE w \notin After(UpcomingEpoch)
    BY <2>1, <1>2, WeekIsNat DEF After
  <2>. QED BY <2>1, <1>2, MovedLocks
<1>4. ASSUME NEW d \in Delegatees, NEW w \in Weeks, w <= UpcomingEpoch
      PROVE  unlocks[d][w] = delegateeUnlocks[d][w]
  <2>1. unlocks[d][w] = delegateeUnlocks[d][w] + (CASE d = newDelegatee -> MovedAt(locks, w)
                                                      [] d = old -> - MovedAt(locks, w)
                                                      [] OTHER -> 0)
    OBVIOUS
  <2>2. MovedAt(locks, w) = 0 /\ delegateeUnlocks[d][w] \in Nat
    BY <1>2, <1>3, <1>4
  <2>. HIDE DEF unlocks
  <2>. QED BY <2>1, <2>2
<1>. HIDE DEF unlocks, moved
<1>5. /\ checkpointedVotes'[newDelegatee]
           = CheckpointDelegate(checkpointedVotes[newDelegatee], unlocks[newDelegatee], moved, 0)
      /\ old \in Delegatees =>
           checkpointedVotes'[old] = CheckpointDelegate(checkpointedVotes[old], unlocks[old], 0, moved)
      /\ \A d \in Delegatees : d # newDelegatee /\ d # old => checkpointedVotes'[d] = checkpointedVotes[d]
  BY <1>1, <1>2
<1>. HIDE DEF given
<1>6. ASSUME NEW d \in Delegatees, NEW addition, NEW deduction,
             checkpointedVotes'[d] = CheckpointDelegate(checkpointedVotes[d], unlocks[d], addition, deduction)
      PROVE  Follows(checkpointedVotes'[d], unlocks[d], checkpointedVotes[d], delegateeUnlocks[d],
                     UpcomingEpoch)
  <2>1. /\ checkpointedVotes[d] \in Seq(DelegateeCheckpoint)
        /\ checkpointedVotes[d] # <<>>
             => checkpointedVotes[d][Len(checkpointedVotes[d])].epochStart <= UpcomingEpoch
        /\ InOrder(checkpointedVotes[d])
    BY DEF IInv, VotesOK, CheckpointsOK, OrderOK
  <2>2. \A x \in Weeks : x <= UpcomingEpoch => unlocks[d][x] = delegateeUnlocks[d][x]
    BY <1>4
  <2>3. Follows(CheckpointDelegate(checkpointedVotes[d], unlocks[d], addition, deduction), unlocks[d],
                checkpointedVotes[d], delegateeUnlocks[d], UpcomingEpoch)
    BY <2>1, <2>2, <1>2, DelegateeFollows
  <2>. QED BY <2>3, <1>6
<1>7. ASSUME NEW d \in Delegatees, d # newDelegatee, d # old
      PROVE  Follows(checkpointedVotes'[d], unlocks[d], checkpointedVotes[d], delegateeUnlocks[d],
                     UpcomingEpoch)
  <2>1. checkpointedVotes'[d] = checkpointedVotes[d] /\ InOrder(checkpointedVotes[d])
    BY <1>5, <1>7 DEF OrderOK
  <2>. QED BY <2>1, <1>4 DEF Follows, SamePast
<1>8. ASSUME NEW d \in Delegatees
      PROVE  Follows(checkpointedVotes'[d], unlocks[d], checkpointedVotes[d], delegateeUnlocks[d],
                     UpcomingEpoch)
  <2>1. CASE d = newDelegatee
    BY <2>1, <1>5, <1>6
  <2>2. CASE d = old
    BY <2>2, <1>5, <1>6
  <2>. QED BY <2>1, <2>2, <1>7
<1>. QED BY <1>1, <1>8 DEF AllFollow

\* Every transaction leaves the checkpoints of the past, and the unlocks until the
\* upcoming epoch, as they are.
LEMMA VotesAdvance == IInv /\ DatesOK /\ OrderOK /\ [Next]_vars => AllFollow(checkpointedVotes', delegateeUnlocks')
<1>. SUFFICES ASSUME IInv, DatesOK, OrderOK, [Next]_vars
              PROVE  AllFollow(checkpointedVotes', delegateeUnlocks')
  OBVIOUS
<1>1. ASSUME UNCHANGED voteVars PROVE AllFollow(checkpointedVotes', delegateeUnlocks')
  BY <1>1, FollowsItself DEF AllFollow, OrderOK, voteVars
<1>2. CASE Next
  <2>1. LocksMove
    BY <1>2, LocksStep
  <2>2. CASE Tick
    BY <2>2, <1>1 DEF Tick
  <2>3. ASSUME NEW u \in Accounts, NEW sender \in Accounts, NEW amount \in Nat, Lock(sender, u, amount)
        PROVE  AllFollow(checkpointedVotes', delegateeUnlocks')
    <3>1. LockTokens(sender, u, amount, balances, lockedSupply, checkpointedVotes)
      BY <2>3 DEF Lock
    <3>2. CheckpointsOK(checkpointedVotes)
      BY DEF IInv, VotesOK
    <3>3. AllFollow(checkpointedVotes, delegateeUnlocks)
      BY FollowsItself DEF AllFollow, OrderOK
    <3>. QED BY <3>1, <3>2, <3>3, LockTokensFollows
  <2>4. ASSUME NEW u \in Accounts, NEW relock \in BOOLEAN, NEW rewardAddress \in Accounts,
               NEW delay \in Nat, NEW amount \in Nat, NEW reward \in Nat, NEW next \in Nat,
               Processed(u, relock, rewardAddress, delay, amount, reward, next)
        PROVE  AllFollow(checkpointedVotes', delegateeUnlocks')
    BY <2>4, ProcessedFollows
  <2>5. ASSUME NEW u \in Accounts, EmergencyWithdraw(u)
        PROVE  AllFollow(checkpointedVotes', delegateeUnlocks')
    BY <2>5, <1>1 DEF EmergencyWithdraw
  <2>6. ASSUME NEW u \in Accounts, NEW d \in Delegatees, Delegate(u, d)
        PROVE  AllFollow(checkpointedVotes', delegateeUnlocks')
    BY <2>6, DelegateFollows
  <2>7. CASE CheckpointEpoch
    BY <2>7, <1>1 DEF CheckpointEpoch
  <2>8. CASE UNCHANGED <<now, lockVars, voteVars, wallet>>
    BY <2>8, <1>1
  <2>. QED BY <2>1, <2>2, <2>3, <2>4, <2>5, <2>6, <2>7, <2>8 DEF LocksMove
<1>3. CASE UNCHANGED vars
  BY <1>3, <1>1 DEF vars
<1>. QED BY <1>2, <1>3

\* The checkpoints stay in order.
THEOREM CheckpointsInOrder == Spec => [](IInv /\ DatesOK /\ OrderOK)
<1>1. Init => OrderOK
  BY DEF Init, OrderOK, InOrder
<1>2. IInv /\ DatesOK /\ OrderOK /\ [Next]_vars => OrderOK'
  BY VotesAdvance DEF AllFollow, Follows, OrderOK
<1>. QED BY <1>1, <1>2, LocksInOrder, PTL DEF Spec

\* What getPastVotes answers for a week that has begun never changes again: every
\* handler writes checkpoints of the upcoming epoch and unlocks beyond it only, and
\* the binary search finds the same checkpoint as before.
THEOREM PastVotesStand == Spec => PastVotesFrozen
<1>1. ASSUME IInv, DatesOK, OrderOK, IInv', [Next]_vars,
             NEW d \in Delegatees, NEW w \in Weeks, w <= now
      PROVE  GetPastVotes(d, w)' = GetPastVotes(d, w)
  <2>1. /\ w \in Weeks /\ w <= now /\ w \in Nat /\ now \in StartTime..MaxTime /\ now \in Nat
        /\ UpcomingEpoch \in Nat /\ now < UpcomingEpoch
    <3>1. now \in StartTime..MaxTime
      BY <1>1 DEF IInv, AdminOK
    <3>2. /\ UpcomingEpoch \in Weeks
          /\ UpcomingEpoch = CurrentEpoch + RewardsDuration /\ now < CurrentEpoch + RewardsDuration
      BY <3>1, Calendar
    <3>. QED BY <3>1, <3>2, <1>1, WeekIsNat, TimeAssumption
  <2>2. WeekStart(w) = w
    <3>1. PICK k \in Nat : w = k * RewardsDuration
      BY <2>1, WeeksAreMultiples
    <3>2. w \div RewardsDuration = k
      BY <3>1, RewardsDurationAssumption
    <3>. QED BY <3>1, <3>2 DEF WeekStart
  <2>3. /\ checkpointedVotes[d] \in Seq(DelegateeCheckpoint)
        /\ checkpointedVotes'[d] \in Seq(DelegateeCheckpoint)
        /\ InOrder(checkpointedVotes[d])
    BY <1>1 DEF IInv, VotesOK, CheckpointsOK, OrderOK
  <2>4. Follows(checkpointedVotes'[d], delegateeUnlocks'[d], checkpointedVotes[d], delegateeUnlocks[d],
                UpcomingEpoch)
    BY <1>1, VotesAdvance DEF AllFollow
  <2>5. PastVotes(checkpointedVotes'[d], delegateeUnlocks'[d], w)
          = PastVotes(checkpointedVotes[d], delegateeUnlocks[d], w)
    BY <2>1, <2>3, <2>4, PastVotesStay
  <2>6. GetPastVotes(d, w) = PastVotes(checkpointedVotes[d], delegateeUnlocks[d], w)
    BY <2>2 DEF GetPastVotes, PastVotes
  <2>7. GetPastVotes(d, w)' = PastVotes(checkpointedVotes'[d], delegateeUnlocks'[d], w)
    BY <2>2 DEF GetPastVotes, PastVotes
  <2>. QED BY <2>5, <2>6, <2>7
<1>2. (IInv /\ DatesOK /\ OrderOK) /\ (IInv /\ DatesOK /\ OrderOK)' /\ [Next]_vars
        => [\A d \in Delegatees, w \in Weeks :
              w <= now => GetPastVotes(d, w)' = GetPastVotes(d, w)]_vars
  BY <1>1
<1>. QED BY <1>2, CheckpointsInOrder, PTL DEF Spec, PastVotesFrozen

----------------------------------------------------------------------------------
(* What the votes never stand in the way of *)

\* No subtraction of _checkpointDelegate or delegate underflows: a checkpoint can be made
\* for any lock, withdrawal or gain of votes, and a delegatee has the votes and the
\* unlocks that an account takes away from it.
VotesNeverBlock ==
  /\ \A d \in Delegatees : \A unlocks \in [Weeks -> Int], addition \in Nat :
       (\A w \in Weeks : w <= UpcomingEpoch => unlocks[w] = delegateeUnlocks[d][w])
         => CanCheckpoint(checkpointedVotes[d], unlocks, addition, 0)
  /\ \A u \in Accounts, d \in Delegatees : delegates[u] = d =>
       LET locks == userLocks[u]
           moved == LockSum(locks, FirstMoved(locks) - 1, Len(locks))
           left  == [w \in Weeks |-> delegateeUnlocks[d][w] - MovedAt(locks, w)]
       IN  /\ \A w \in Weeks : left[w] >= 0
           /\ CanCheckpoint(checkpointedVotes[d], left, 0, moved)

\* An account's part of what is delegated is at most all of it.
LEMMA ShareIsPart ==
  ASSUME NEW all \in [Accounts -> Seq(LockedBalance)], NEW dels, NEW u \in Accounts, NEW W
  PROVE  Ending(all[u], W) <= Delegated(dels[u], dels, all, W)
<1>. DEFINE d == dels[u]
            f == [a \in Accounts |-> Share(d, dels, all, W, a)]
<1>1. ASSUME NEW a \in 1..NumAccounts PROVE f[a] \in Nat
  <2>1. a \in Accounts /\ all[a] \in Seq(LockedBalance)
    BY AccountsRange
  <2>. QED BY <2>1, EndingType DEF Share
<1>2. f[u] = Ending(all[u], W) /\ u \in 1..NumAccounts
  BY AccountsRange DEF Share
<1>3. Delegated(d, dels, all, W) = SumTo(f, NumAccounts)
  BY DEF Delegated
<1>. HIDE DEF f
<1>. QED BY <1>1, <1>2, <1>3, AccountsRange, SumToMember

\* What a delegatee's checkpoints and unlocks say, as far as the invariants go.
LEMMA DelegateeFacts ==
  ASSUME IInv, VotesMatch, NEW d \in Delegatees
  PROVE  /\ checkpointedVotes[d] \in Seq(DelegateeCheckpoint)
         /\ checkpointedVotes[d] # <<>>
              => checkpointedVotes[d][Len(checkpointedVotes[d])].epochStart <= UpcomingEpoch
         /\ VotesMatchAt(d, checkpointedVotes[d], delegateeUnlocks[d], delegates, userLocks)
         /\ delegateeUnlocks[d] \in [Weeks -> Nat]
BY DEF IInv, VotesOK, CheckpointsOK, VotesMatch, AllMatch

\* Whatever a handler writes to the unlocks of weeks to come, what is carried over is
\* what is delegated.
LEMMA CarriedOver ==
  ASSUME IInv, DatesOK, VotesMatch, NEW d \in Delegatees, NEW unlocks,
         \A w \in Weeks : w <= UpcomingEpoch => unlocks[w] = delegateeUnlocks[d][w]
  PROVE  /\ CarriedVotes(checkpointedVotes[d], unlocks, UpcomingEpoch)
              = Delegated(d, delegates, userLocks, After(UpcomingEpoch))
         /\ Delegated(d, delegates, userLocks, After(UpcomingEpoch)) \in Nat
<1>1. userLocks \in [Accounts -> Seq(LockedBalance)] /\ UpcomingEpoch \in Weeks
  BY VoteFacts
<1>2. CarriedVotes(checkpointedVotes[d], unlocks, UpcomingEpoch)
        = Delegated(d, delegates, userLocks, After(UpcomingEpoch))
  BY <1>1, DelegateeFacts, CarriedAreDelegated
<1>. QED BY <1>1, <1>2, DelegatedType

\* The vote checkpoints make no lock, withdrawal, kick or delegation revert.
THEOREM VotesBlockNothing == Spec => []VotesNeverBlock
<1>1. IInv /\ DatesOK /\ VotesMatch => VotesNeverBlock
  <2>. SUFFICES ASSUME IInv, DatesOK, VotesMatch PROVE VotesNeverBlock
    OBVIOUS
  <2>1. ASSUME NEW d \in Delegatees, NEW unlocks \in [Weeks -> Int], NEW addition \in Nat,
               \A w \in Weeks : w <= UpcomingEpoch => unlocks[w] = delegateeUnlocks[d][w]
        PROVE  CanCheckpoint(checkpointedVotes[d], unlocks, addition, 0)
    <3>1. CarriedVotes(checkpointedVotes[d], unlocks, UpcomingEpoch) \in Nat
      BY <2>1, CarriedOver
    <3>. QED BY <3>1 DEF CanCheckpoint
  <2>2. ASSUME NEW u \in Accounts, NEW d \in Delegatees, delegates[u] = d,
               NEW moved, moved = LockSum(userLocks[u], FirstMoved(userLocks[u]) - 1, Len(userLocks[u])),
               NEW left, left = [w \in Weeks |-> delegateeUnlocks[d][w] - MovedAt(userLocks[u], w)]
        PROVE  (\A w \in Weeks : left[w] >= 0) /\ CanCheckpoint(checkpointedVotes[d], left, 0, moved)
    <3>1. /\ userLocks \in [Accounts -> Seq(LockedBalance)] /\ userLocks[u] \in Seq(LockedBalance)
          /\ UpcomingEpoch \in Weeks /\ UpcomingEpoch \in Nat /\ Dated(userLocks[u], UnlockTime)
          /\ delegateeUnlocks[d] \in [Weeks -> Nat]
      BY VoteFacts, WeekIsNat
    <3>2. /\ moved = Ending(userLocks[u], After(UpcomingEpoch))
          /\ \A w \in Weeks : MovedAt(userLocks[u], w)
                = IF w \in After(UpcomingEpoch) THEN Ending(userLocks[u], {w}) ELSE 0
      BY <3>1, <2>2, MovedLocks
    <3>3. UnlocksMatchAfter(d, delegateeUnlocks[d], delegates, userLocks, UpcomingEpoch)
      BY <3>1, DelegateeFacts, UnlocksMatch
    <3>4. ASSUME NEW w \in Weeks
          PROVE  left[w] >= 0 /\ (w <= UpcomingEpoch => left[w] = delegateeUnlocks[d][w])
      <4>1. left[w] = delegateeUnlocks[d][w] - MovedAt(userLocks[u], w) /\ delegateeUnlocks[d][w] \in Nat
        BY <2>2, <3>1
      <4>2. CASE w \in After(UpcomingEpoch)
        <5>1. delegateeUnlocks[d][w] = Delegated(d, delegates, userLocks, {w})
          BY <3>3, <4>2 DEF UnlocksMatchAfter
        <5>2. Ending(userLocks[u], {w}) <= Delegated(d, delegates, userLocks, {w})
          BY <2>2, <3>1, ShareIsPart
        <5>3. Ending(userLocks[u], {w}) \in Nat
          BY <3>1, EndingType
        <5>4. ~(w <= UpcomingEpoch)
          BY <4>2, <3>1, WeekIsNat DEF After
        <5>. QED BY <4>1, <4>2, <5>1, <5>2, <5>3, <5>4, <3>2
      <4>3. CASE w \notin After(UpcomingEpoch)
        <5>1. MovedAt(userLocks[u], w) = 0
          BY <4>3, <3>2
        <5>. QED BY <4>1, <5>1
      <4>. QED BY <4>2, <4>3
    <3>5. /\ CarriedVotes(checkpointedVotes[d], left, UpcomingEpoch)
               = Delegated(d, delegates, userLocks, After(UpcomingEpoch))
          /\ Delegated(d, delegates, userLocks, After(UpcomingEpoch)) \in Nat
      BY <3>4, CarriedOver
    <3>6. moved <= Delegated(d, delegates, userLocks, After(UpcomingEpoch))
      <4>1. Ending(userLocks[u], After(UpcomingEpoch))
              <= Delegated(delegates[u], delegates, userLocks, After(UpcomingEpoch))
        BY <3>1, ShareIsPart
      <4>. QED BY <4>1, <2>2, <3>2
    <3>. QED BY <3>4, <3>5, <3>6 DEF CanCheckpoint
  <2>. QED BY <2>1, <2>2 DEF VotesNeverBlock
<1>. QED BY <1>1, VotesFollowLocks, PTL

\* getPastVotes answers for every week that has begun: what it takes off the votes of
\* the checkpoint that the search finds is never more than them, which would revert.
PastVotesAnswered == \A d \in Delegatees, w \in Weeks : w <= now => GetPastVotes(d, w) >= 0

\* What getPastVotes answers from the checkpoints and unlocks of d.
LEMMA GetPastVotesIs ==
  ASSUME NEW d \in Delegatees, NEW w \in Weeks
  PROVE  GetPastVotes(d, w) = PastVotes(checkpointedVotes[d], delegateeUnlocks[d], w)
<1>1. PICK k \in Nat : w = k * RewardsDuration
  BY WeeksAreMultiples
<1>2. w \div RewardsDuration = k
  BY <1>1, RewardsDurationAssumption
<1>3. WeekStart(w) = w
  BY <1>1, <1>2 DEF WeekStart
<1>. QED BY <1>3 DEF GetPastVotes, PastVotes

\* For a week that no checkpoint is later than, the answer is what is carried over.
LEMMA NewestAnswers ==
  ASSUME IInv, DatesOK, VotesMatch, OrderOK, NEW d \in Delegatees, NEW w \in Weeks, UpcomingEpoch <= w
  PROVE  PastVotes(checkpointedVotes[d], delegateeUnlocks[d], w) >= 0
<1>. DEFINE ckpts == checkpointedVotes[d]
            unlocks == delegateeUnlocks[d]
            n == Len(ckpts)
<1>1. /\ ckpts \in Seq(DelegateeCheckpoint) /\ InOrder(ckpts)
      /\ ckpts # <<>> => ckpts[n].epochStart <= UpcomingEpoch
      /\ VotesMatchAt(d, ckpts, unlocks, delegates, userLocks)
      /\ userLocks \in [Accounts -> Seq(LockedBalance)] /\ UpcomingEpoch \in Nat
  BY DelegateeFacts, VoteFacts, WeekIsNat DEF OrderOK
<1>2. /\ n \in Nat /\ w \in Nat
      /\ \A i \in 1..n : ckpts[i].epochStart \in Nat /\ ckpts[i].votes \in Nat
  BY <1>1, CheckpointEntries, WeekIsNat
<1>. HIDE DEF ckpts, unlocks
<1>3. ckpts # <<>> => n \in 1..n /\ ckpts[n].epochStart <= w
  BY <1>1, <1>2
<1>4. Counts(CheckpointsUpTo(ckpts, w), ckpts, w)
  BY <1>1, <1>2, CheckpointsCounted
<1>5. CheckpointsUpTo(ckpts, w) = n
  <2>1. CASE ckpts = <<>>
    BY <2>1, <1>4 DEF Counts
  <2>2. CASE ckpts # <<>>
    BY <2>2, <1>2, <1>3, <1>4 DEF Counts
  <2>. QED BY <2>1, <2>2
<1>6. CarriedVotes(ckpts, unlocks, w) = Delegated(d, delegates, userLocks, After(w))
      /\ Delegated(d, delegates, userLocks, After(w)) \in Nat
  <2>1. ckpts # <<>> => ckpts[Len(ckpts)].epochStart <= w
    BY <1>3
  <2>2. \A x \in Weeks : x <= w => unlocks[x] = unlocks[x]
    OBVIOUS
  <2>. QED BY ONLY <1>1, <2>1, <2>2, w \in Weeks, d \in Delegatees, CarriedAreDelegated, DelegatedType
<1>7. CASE n = 0 \/ ckpts[n].votes = 0 \/ AllExpired(ckpts[n], w)
  BY <1>5, <1>7 DEF PastVotes, ckpts
<1>8. CASE ~(n = 0 \/ ckpts[n].votes = 0 \/ AllExpired(ckpts[n], w))
  <2>1. ckpts # <<>>
    BY <1>8
  <2>2. CarriedVotes(ckpts, unlocks, w) = PastVotes(ckpts, unlocks, w)
    BY <1>5, <1>8, <2>1 DEF CarriedVotes, PastVotes
  <2>. QED BY <2>2, <1>6 DEF ckpts, unlocks
<1>. QED BY <1>7, <1>8

\* A week that is later than now has the upcoming epoch before it, or is that epoch.
LEMMA UpcomingIsNext ==
  ASSUME now \in StartTime..MaxTime, NEW w \in Weeks, now < w
  PROVE  UpcomingEpoch <= w
<1>1. /\ CurrentEpoch \in Weeks /\ CurrentEpoch <= now /\ now \in Nat /\ w \in Nat /\ CurrentEpoch \in Nat
      /\ UpcomingEpoch = CurrentEpoch + RewardsDuration
  BY Calendar, WeekIsNat, TimeAssumption
<1>2. PICK j \in Nat, k \in Nat : CurrentEpoch = j * RewardsDuration /\ w = k * RewardsDuration
  BY <1>1, WeeksAreMultiples
<1>3. j + 1 <= k
  BY <1>1, <1>2, WeekOrder
<1>4. (j + 1) * RewardsDuration <= k * RewardsDuration
  BY <1>3, WeeksMonotone
<1>5. (j + 1) * RewardsDuration = j * RewardsDuration + RewardsDuration
  BY RewardsDurationAssumption
<1>. QED BY <1>1, <1>2, <1>4, <1>5

\* No delegatee's past votes ever make getPastVotes revert.
THEOREM PastVotesAreAnswered == Spec => []PastVotesAnswered
<1>. DEFINE Good(d, w) == PastVotes(checkpointedVotes[d], delegateeUnlocks[d], w) >= 0
            GoodPast == \A d \in Delegatees, w \in Weeks : w <= now => Good(d, w)
            Inv == IInv /\ DatesOK /\ VotesMatch /\ OrderOK
<1>1. Init => GoodPast
  <2>1. ASSUME Init, NEW d \in Delegatees, NEW w \in Weeks PROVE Good(d, w)
    <3>1. checkpointedVotes[d] = <<>>
      BY <2>1 DEF Init
    <3>2. Counts(CheckpointsUpTo(<<>>, w), <<>>, w)
      <4>1. <<>> \in Seq(DelegateeCheckpoint) /\ InOrder(<<>>)
        BY DEF InOrder
      <4>. QED BY <4>1, WeekIsNat, CheckpointsCounted
    <3>3. CheckpointsUpTo(<<>>, w) = 0
      BY <3>2 DEF Counts
    <3>. QED BY <3>1, <3>3 DEF PastVotes
  <2>. QED BY <2>1
<1>2. ASSUME Inv, GoodPast, [Next]_vars, Inv' PROVE GoodPast'
  <2>1. /\ now \in StartTime..MaxTime /\ now \in Nat
        /\ UpcomingEpoch \in Nat /\ now < UpcomingEpoch
    <3>1. now \in StartTime..MaxTime
      BY <1>2 DEF IInv, AdminOK
    <3>. QED BY <3>1, Calendar, WeekIsNat, TimeAssumption
  <2>2. ASSUME NEW d \in Delegatees, NEW w \in Weeks, w <= now' PROVE Good(d, w)'
    <3>1. CASE w <= now
      <4>1. /\ checkpointedVotes[d] \in Seq(DelegateeCheckpoint)
            /\ checkpointedVotes'[d] \in Seq(DelegateeCheckpoint)
            /\ InOrder(checkpointedVotes[d])
        BY <1>2 DEF IInv, VotesOK, CheckpointsOK, OrderOK
      <4>2. Follows(checkpointedVotes'[d], delegateeUnlocks'[d], checkpointedVotes[d], delegateeUnlocks[d],
                    UpcomingEpoch)
        BY <1>2, VotesAdvance DEF AllFollow
      <4>3. w \in Nat /\ w < UpcomingEpoch
        BY <2>1, <3>1, WeekIsNat
      <4>4. PastVotes(checkpointedVotes'[d], delegateeUnlocks'[d], w)
              = PastVotes(checkpointedVotes[d], delegateeUnlocks[d], w)
        BY <2>1, <4>1, <4>2, <4>3, PastVotesStay
      <4>5. Good(d, w)
        BY <1>2, <3>1
      <4>. QED BY <4>4, <4>5
    <3>2. CASE ~(w <= now)
      <4>1. now' # now
        BY <2>2, <3>2
      <4>2. Tick
        BY <4>1, <1>2, LocksGrowStep DEF LocksGrow
      <4>3. checkpointedVotes' = checkpointedVotes /\ delegateeUnlocks' = delegateeUnlocks
        BY <4>2 DEF Tick, voteVars
      <4>4. UpcomingEpoch <= w
        BY <2>1, <3>2, WeekIsNat, UpcomingIsNext
      <4>5. PastVotes(checkpointedVotes[d], delegateeUnlocks[d], w) >= 0
        BY <1>2, <4>4, NewestAnswers
      <4>. QED BY <4>3, <4>5
    <3>. QED BY <3>1, <3>2
  <2>. QED BY <2>2
<1>3. GoodPast => PastVotesAnswered
  BY GetPastVotesIs DEF PastVotesAnswered
<1>4. Spec => []Inv
  BY VotesFollowLocks, CheckpointsInOrder, PTL
<1>. HIDE DEF GoodPast, Inv
<1>. QED BY <1>1, <1>2, <1>3, <1>4, PTL DEF Spec

----------------------------------------------------------------------------------
(* What is paid to an account that leaves *)

\* How far processExpiredLocks(false) gets for u at present, and what it takes out.
WithdrawsAll(u) == isShutdown \/ userLocks[u][Len(userLocks[u])].unlockTime <= now
WithdrawnTo(u) == IF WithdrawsAll(u) THEN Len(userLocks[u]) ELSE LastExpired(u, now)
Withdrawn(u) ==
  IF WithdrawsAll(u) THEN balances[u].locked
  ELSE LockSum(userLocks[u], balances[u].nextUnlockIndex, WithdrawnTo(u))

\* Whoever has a due lock, or anything locked after a shutdown, gets it: a withdrawal
\* reaches every lock that is due, is for more than nothing ("no exp locks"), no
\* subtraction from the account's balance or lockedSupply underflows, the locker holds
\* the tokens, and the delegatee's checkpoint can be made (LiqLocker.sol:425-536).
\* These are the guards of ExitNeverBlocked; only to96() in updateReward is not among
\* them, as it depends on the limits.
ExitsPaid ==
  \A u \in Accounts :
    \/ \E i \in LiveLocks(u) : userLocks[u][i].unlockTime <= now
    \/ isShutdown /\ balances[u].locked > 0
    => /\ userLocks[u] # <<>>
       /\ \A i \in LiveLocks(u) : userLocks[u][i].unlockTime <= now => i <= WithdrawnTo(u)
       /\ Withdrawn(u) > 0
       /\ Withdrawn(u) <= balances[u].locked
       /\ Withdrawn(u) <= lockedSupply
       /\ Withdrawn(u) <= held[StakingToken]
       /\ delegates[u] # NoOne =>
            CanCheckpoint(checkpointedVotes[delegates[u]], delegateeUnlocks[delegates[u]], 0, 0)

\* No lock is empty.
Worthwhile(locks) == \A i \in 1..Len(locks) : locks[i].amount > 0
LocksWorthwhile == \A u \in Accounts : Worthwhile(userLocks[u])

\* A lock of more than nothing keeps it so.
LEMMA WithLockWorthwhile ==
  ASSUME NEW locks \in Seq(LockedBalance), NEW amount \in Nat \ {0}, UnlockTime \in Weeks,
         Dated(locks, UnlockTime), Worthwhile(locks)
  PROVE  Worthwhile(WithLock(locks, amount))
<1> DEFINE n == Len(locks)
           new == WithLock(locks, amount)
<1>1. n \in Nat /\ \A i \in 1..n : locks[i].amount > 0 /\ locks[i].amount \in Nat
  <2>1. \A i \in 1..n : locks[i] \in LockedBalance
    OBVIOUS
  <2> QED BY <2>1 DEF Worthwhile, LockedBalance
<1>2. \/ /\ Len(new) = n + 1
         /\ \A i \in 1..n : new[i] = locks[i]
         /\ new[n + 1] = [amount |-> amount, unlockTime |-> UnlockTime]
      \/ /\ Len(new) = n /\ n > 0
         /\ \A i \in 1..n : i # n => new[i] = locks[i]
         /\ new[n] = [amount |-> locks[n].amount + amount, unlockTime |-> UnlockTime]
  BY WithLockEntries
<1> HIDE DEF n, new
<1>3. ASSUME NEW i \in 1..Len(new) PROVE new[i].amount > 0
  <2>1. CASE Len(new) = n + 1 /\ (\A k \in 1..n : new[k] = locks[k])
             /\ new[n + 1] = [amount |-> amount, unlockTime |-> UnlockTime]
    <3>1. i \in 1..n \/ i = n + 1
      BY <1>1, <2>1
    <3> QED BY <1>1, <2>1, <3>1
  <2>2. CASE Len(new) = n /\ n > 0 /\ (\A k \in 1..n : k # n => new[k] = locks[k])
             /\ new[n] = [amount |-> locks[n].amount + amount, unlockTime |-> UnlockTime]
    <3>1. n \in 1..n /\ i \in 1..n
      BY <1>1, <2>2
    <3>2. CASE i = n
      <4>1. new[i].amount = locks[n].amount + amount
        BY <2>2, <3>2
      <4> QED BY <1>1, <3>1, <4>1
    <3>3. CASE i # n
      BY <1>1, <2>2, <3>1, <3>3
    <3> QED BY <3>2, <3>3
  <2> QED BY <1>2, <2>1, <2>2
<1> QED BY <1>3 DEF Worthwhile, new

\* So no lock ever is empty: _lock refuses an amount of 0.
LEMMA NextKeepsWorthwhile == IInv /\ DatesOK /\ LocksWorthwhile /\ [Next]_vars => LocksWorthwhile'
<1> SUFFICES ASSUME IInv, DatesOK, LocksWorthwhile, [Next]_vars PROVE LocksWorthwhile'
  OBVIOUS
<1>1. CASE userLocks' = userLocks
  BY <1>1 DEF LocksWorthwhile
<1>2. ASSUME NEW u \in Accounts, NEW amount \in Nat \ {0},
             userLocks' = [userLocks EXCEPT ![u] = WithLock(@, amount)]
      PROVE  LocksWorthwhile'
  <2>1. userLocks \in [Accounts -> Seq(LockedBalance)] /\ UnlockTime \in Weeks
    BY Calendar DEF IInv, LocksOK, AdminOK
  <2>2. Dated(userLocks[u], UnlockTime) /\ userLocks[u] \in Seq(LockedBalance) /\ Worthwhile(userLocks[u])
    BY <2>1 DEF DatesOK, LocksWorthwhile
  <2>3. Worthwhile(WithLock(userLocks[u], amount))
    BY <2>1, <2>2, WithLockWorthwhile
  <2>4. \A a \in Accounts : Worthwhile(userLocks'[a])
    BY <1>2, <2>1, <2>3 DEF LocksWorthwhile
  <2> QED BY <2>4 DEF LocksWorthwhile
<1>3. CASE Tick
  BY <1>1, <1>3 DEF Tick, lockVars
<1> QED BY <1>1, <1>2, <1>3, LocksGrowStep DEF LocksGrow

\* The locks of a run that goes beyond the processed ones are worth something.
LEMMA RunIsWorth ==
  ASSUME NEW locks \in Seq(LockedBalance), Worthwhile(locks), NEW m \in 0..Len(locks),
         NEW n \in 0..Len(locks), m < n
  PROVE  LockSum(locks, m, n) > 0
<1> DEFINE f == Amounts(locks)
<1>1. Len(locks) \in Nat /\ \A i \in 1..Len(locks) : f[i] \in Nat /\ f[i] = locks[i].amount
  BY AmountsType
<1>2. LockSum(locks, m, n) = SumTo(f, n) - SumTo(f, m)
  BY DEF LockSum, SumBetween, Amounts
<1> HIDE DEF f
<1>3. m + 1 \in 1..Len(locks) /\ m + 1 \in Nat /\ n \in Nat /\ m \in Nat /\ m + 1 <= n
  BY <1>1
<1>4. f[m + 1] > 0 /\ f[m + 1] \in Nat
  BY <1>1, <1>3 DEF Worthwhile
<1>5. SumTo(f, m + 1) = SumTo(f, m) + f[m + 1]
  <2>1. \A i \in 1..(m + 1) : f[i] \in Int
    BY <1>1, <1>3
  <2> DEFINE k == m + 1
  <2>2. k \in Nat /\ k > 0 /\ k - 1 = m /\ \A i \in 1..k : f[i] \in Int
    BY <1>3, <2>1
  <2> HIDE DEF k
  <2>3. SumTo(f, k) = SumTo(f, k - 1) + f[k]
    BY <2>2, SumToUnfold
  <2> QED BY <2>2, <2>3 DEF k
<1>6. SumTo(f, m + 1) <= SumTo(f, n) /\ SumTo(f, m) \in Nat /\ SumTo(f, m + 1) \in Nat
      /\ SumTo(f, n) \in Nat
  <2>1. \A i \in 1..n : f[i] \in Nat
    BY <1>1, <1>3
  <2>2. m \in 0..n /\ m + 1 \in 0..n /\ n \in 0..n
    BY <1>3
  <2> QED BY <1>3, <2>1, <2>2, SumToNat
<1> QED BY <1>2, <1>4, <1>5, <1>6

\* The run over the expired locks reaches every lock that is due.
LEMMA LastExpiredReaches ==
  ASSUME IInv, DatesOK, NEW u \in Accounts, NEW i \in LiveLocks(u), userLocks[u][i].unlockTime <= now
  PROVE  i <= LastExpired(u, now)
<1> DEFINE first == balances[u].nextUnlockIndex
           len == Len(userLocks[u])
           T == {j \in first..len : \A k \in (first + 1)..j : userLocks[u][k].unlockTime <= now}
<1>1. /\ len \in Nat /\ first \in 0..len /\ now \in Nat
      /\ \A k \in 1..len : userLocks[u][k].unlockTime \in Nat
  BY LockFacts
<1>2. \A k, j \in 1..len : k < j => userLocks[u][k].unlockTime < userLocks[u][j].unlockTime
  BY DEF DatesOK, Dated
<1>3. i \in (first + 1)..len /\ i \in 1..len
  BY <1>1 DEF LiveLocks
<1>4. LastExpired(u, now) = Max(T)
  BY DEF LastExpired
<1>5. i \in T
  <2>1. ASSUME NEW k \in (first + 1)..i PROVE userLocks[u][k].unlockTime <= now
    <3>1. k \in 1..len /\ (k = i \/ k < i)
      BY <1>1, <1>3
    <3>2. k < i => userLocks[u][k].unlockTime < userLocks[u][i].unlockTime
      BY <1>2, <1>3, <3>1
    <3> QED BY <1>1, <1>3, <3>1, <3>2
  <2>2. i \in first..len
    BY <1>1, <1>3
  <2> QED BY <2>1, <2>2
<1>6. T \in SUBSET (0..len)
  BY <1>1
<1> HIDE DEF T, first, len
<1>7. \E j \in T : \A k \in T : k <= j
  BY <1>1, <1>5, <1>6, GreatestElement
<1>8. \A k \in T : k \in Int
  BY <1>1, <1>6
<1>9. Max(T) \in T /\ \A k \in T : k <= Max(T)
  BY <1>7, <1>8 DEF Max
<1> QED BY <1>4, <1>5, <1>9

\* What IInv, the order of the locks, the votes and the worth of the locks give.
LEMMA ExitIsPaid ==
  ASSUME IInv, DatesOK, VotesMatch, LocksWorthwhile
  PROVE  ExitsPaid
<1> SUFFICES ASSUME NEW u \in Accounts,
                    \/ \E i \in LiveLocks(u) : userLocks[u][i].unlockTime <= now
                    \/ isShutdown /\ balances[u].locked > 0
             PROVE  /\ userLocks[u] # <<>>
                    /\ \A i \in LiveLocks(u) : userLocks[u][i].unlockTime <= now => i <= WithdrawnTo(u)
                    /\ Withdrawn(u) > 0
                    /\ Withdrawn(u) <= balances[u].locked
                    /\ Withdrawn(u) <= lockedSupply
                    /\ Withdrawn(u) <= held[StakingToken]
                    /\ delegates[u] # NoOne =>
                         CanCheckpoint(checkpointedVotes[delegates[u]], delegateeUnlocks[delegates[u]], 0, 0)
  BY DEF ExitsPaid
<1> DEFINE locks == userLocks[u]
           len == Len(locks)
           first == balances[u].nextUnlockIndex
           next == WithdrawnTo(u)
           amount == Withdrawn(u)
<1>1. /\ locks \in Seq(LockedBalance) /\ len \in Nat /\ first \in 0..len
      /\ balances[u].locked \in Nat /\ balances[u].locked = LockSum(locks, first, len)
      /\ Worthwhile(locks)
  BY LockFacts DEF LocksWorthwhile
<1>2. lockedSupply \in Nat /\ balances[u].locked <= lockedSupply /\ lockedSupply <= held[StakingToken]
      /\ held[StakingToken] \in Nat
  BY SupplyIsNat DEF IInv, SupplyOK, TokensOK, AllTokens
<1>3. /\ next \in first..len
      /\ \A i \in LiveLocks(u) : userLocks[u][i].unlockTime <= now => i <= next
  <2>1. CASE WithdrawsAll(u)
    <3>1. next = len
      BY <2>1 DEF WithdrawnTo
    <3> QED BY <1>1, <3>1 DEF LiveLocks
  <2>2. CASE ~WithdrawsAll(u)
    <3>1. next = LastExpired(u, now)
      BY <2>2 DEF WithdrawnTo
    <3>2. LastExpired(u, now) \in first..len
      BY LastExpiredRun DEF IInv
    <3> QED BY <3>1, <3>2, LastExpiredReaches
  <2> QED BY <2>1, <2>2
<1>4. amount = LockSum(locks, first, next) /\ next \in 0..len /\ len \in 0..len
  <2>1. next \in 0..len /\ len \in 0..len
    BY <1>1, <1>3
  <2>2. WithdrawsAll(u) => next = len /\ amount = balances[u].locked
    BY DEF Withdrawn, WithdrawnTo
  <2>3. ~WithdrawsAll(u) => amount = LockSum(locks, first, next)
    BY DEF Withdrawn
  <2> QED BY <1>1, <2>1, <2>2, <2>3
<1>5. amount \in Int /\ amount <= balances[u].locked
  <2> HIDE DEF amount, next
  <2>1. LockSum(locks, first, next) \in Int /\ LockSum(locks, first, next) <= LockSum(locks, first, len)
    BY <1>1, <1>4, LockSumSplit
  <2> QED BY <1>1, <1>4, <2>1
<1>6. first < next
  <2>1. CASE \E i \in LiveLocks(u) : userLocks[u][i].unlockTime <= now
    <3>1. PICK i \in LiveLocks(u) : userLocks[u][i].unlockTime <= now
      BY <2>1
    <3>2. i \in (first + 1)..len /\ i <= next
      BY <1>3, <3>1 DEF LiveLocks
    <3> QED BY <1>1, <1>3, <3>2
  <2>2. CASE isShutdown /\ balances[u].locked > 0
    <3>1. next = len
      BY <2>2 DEF WithdrawnTo, WithdrawsAll
    <3>2. first # len
      <4>1. LockSum(locks, len, len) = 0
        BY <1>1, <1>4, LockSumSplit
      <4> QED BY <1>1, <2>2, <4>1
    <3> QED BY <1>1, <3>1, <3>2
  <2> QED BY <2>1, <2>2
<1>7. amount > 0
  BY <1>1, <1>4, <1>6, RunIsWorth
<1>8. locks # <<>>
  <2>1. len > 0
    BY <1>1, <1>3, <1>6
  <2> QED BY <2>1
<1>9. ASSUME delegates[u] # NoOne
      PROVE  CanCheckpoint(checkpointedVotes[delegates[u]], delegateeUnlocks[delegates[u]], 0, 0)
  <2>1. delegates[u] \in Delegatees
    BY <1>9 DEF IInv, VotesOK
  <2>2. CarriedVotes(checkpointedVotes[delegates[u]], delegateeUnlocks[delegates[u]], UpcomingEpoch) \in Nat
    BY <2>1, CarriedOver
  <2> QED BY <2>2 DEF CanCheckpoint
<1> HIDE DEF next, amount
<1>10. amount <= lockedSupply /\ amount <= held[StakingToken]
  BY <1>1, <1>2, <1>5
<1> QED BY <1>3, <1>5, <1>7, <1>8, <1>9, <1>10 DEF next, amount

\* Whoever may leave is paid, before and after a shutdown, with any number of locks
\* and delegations (LiqLocker.sol:425-536).
THEOREM LeavingIsPaid == Spec => []ExitsPaid
<1>1. Init => LocksWorthwhile
  BY DEF Init, LocksWorthwhile, Worthwhile
<1>2. IInv /\ DatesOK /\ LocksWorthwhile /\ [Next]_vars => LocksWorthwhile'
  BY NextKeepsWorthwhile
<1>3. IInv /\ DatesOK /\ VotesMatch /\ LocksWorthwhile => ExitsPaid
  BY ExitIsPaid
<1> QED BY <1>1, <1>2, <1>3, VotesFollowLocks, PTL DEF Spec
=================================================================================
