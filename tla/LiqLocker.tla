-------------------------------- MODULE LiqLocker --------------------------------
(***************************************************************************)
(* contracts/core/LiqLocker.sol: LIQ is locked for 17 weeks; locked LIQ     *)
(* earns the registered reward tokens and carries votes that count from the *)
(* week after the lock.  Every external function that changes state is one  *)
(* action; a transaction is atomic, so a revert is a step that cannot be    *)
(* taken, and a checked subtraction that would underflow is a guard.        *)
(*                                                                          *)
(* Time is counted in ticks, RewardsDuration of them to a week.  Epochs and *)
(* locks are 1-based sequences here and 0-based arrays in the code;         *)
(* nextUnlockIndex counts the processed locks in both.                      *)
(***************************************************************************)
EXTENDS Integers, Sequences, FiniteSets, FiniteSetsExt, Sums, RewardStream

CONSTANTS
  NumAccounts,        \* accounts 1..NumAccounts; 0 is address(0)
  Delegatees,         \* addresses that may be delegated to
  Contracts,          \* accounts with code, the only ones that can be blacklisted
  Operators,          \* callers that an account may permit to claim for it
  LockEpochs,         \* weeks of a lock: 17
  StartTime,          \* timestamp of the deployment
  MaxTime,            \* bound on the clock
  InitialWallet,      \* staking tokens of every account at the start
  StakingToken,       \* LIQ
  Tokens,             \* the other ERC20 tokens
  Olit,               \* the oLIT token
  Distributors,       \* addresses that may be approved to queue rewards
  InitialTreasury,    \* of each token in Tokens, outside the locker
  MaxRewardTokens,    \* 5
  MinSupply,          \* 1e20, the least supply a stream may start with
  RateCap,            \* 1e20
  RewardCap,          \* 1e25
  MaxUint96,          \* bound of rewardPerTokenStored
  Denominator,        \* 10000
  InitialKickRate,    \* 100
  InitialKickDelay,   \* 3
  MaxKickRate,        \* 500
  MinKickDelay,       \* 2
  KickSettings        \* the <<rate, delay>> pairs the owner may try

Accounts == 1..NumAccounts
NoOne == 0
AllTokens == Tokens \cup {StakingToken}
LockDuration == RewardsDuration * LockEpochs

\* Whoever claims for another is an account too: what it receives is recorded.
ASSUME AccountsAssumption ==
  NumAccounts \in Nat /\ Delegatees \subseteq Nat \ {NoOne} /\ Operators \subseteq Accounts
ASSUME LockAssumption == LockEpochs \in Nat /\ LockEpochs >= 2
\* Block timestamps are far beyond any lock or grace period.
ASSUME TimeAssumption ==
  /\ StartTime \in Nat /\ MaxTime \in Nat
  /\ LockDuration + RewardsDuration <= StartTime /\ StartTime <= MaxTime
ASSUME TokenAssumption ==
  /\ StakingToken \notin Tokens
  /\ InitialWallet \in Nat /\ InitialTreasury \in Nat
ASSUME LimitAssumption ==
  /\ {MaxRewardTokens, MinSupply, RateCap, RewardCap, MaxUint96} \subseteq Nat
  /\ MinSupply > 0
ASSUME KickAssumption ==
  /\ Denominator \in Nat \ {0}
  /\ {InitialKickRate, InitialKickDelay, MaxKickRate, MinKickDelay} \subseteq Nat
  /\ MinKickDelay > 0 /\ InitialKickDelay >= MinKickDelay
  /\ KickSettings \subseteq Nat \X Nat

VARIABLES
  now,                  \* block.timestamp
  epochs,               \* what was locked in each week, with the week's date
  lockedSupply,
  balances,             \* account -> [locked, nextUnlockIndex]
  userLocks,            \* account -> its locks, oldest first
  delegates,            \* account -> delegatee or NoOne
  checkpointedVotes,    \* delegatee -> its checkpoints, oldest first
  delegateeUnlocks,     \* delegatee -> week -> votes that end there
  rewardTokens,
  rewardData,
  queuedRewards,
  rewardDistributors,   \* token -> approved distributors
  userData,             \* account -> token -> what is settled
  isShutdown,
  kickRewardPerEpoch,
  kickRewardEpochDelay,
  blacklist,
  permitted,            \* pairs <<owner, caller>>
  held,                 \* ERC20 balances of the locker
  wallet,               \* staking tokens of each account
  treasury,             \* tokens of the owner and the distributors
  received              \* account -> token -> rewards paid out to it

lockVars == <<epochs, lockedSupply, balances, userLocks>>
voteVars == <<delegates, checkpointedVotes, delegateeUnlocks>>
rewardVars == <<rewardTokens, rewardData, queuedRewards, rewardDistributors, userData>>
adminVars == <<isShutdown, kickRewardPerEpoch, kickRewardEpochDelay, blacklist, permitted>>
tokenVars == <<held, wallet, treasury, received>>
vars == <<now, lockVars, voteVars, rewardVars, adminVars, tokenVars>>

----------------------------------------------------------------------------------
(* Weeks *)

WeekStart(t) == (t \div RewardsDuration) * RewardsDuration
CurrentEpoch == WeekStart(now)
UpcomingEpoch == WeekStart(now + RewardsDuration)
UnlockTime == CurrentEpoch + LockDuration

\* Every date an epoch, a checkpoint or an unlock can have.
Weeks == {WeekStart(t) : t \in 0..(MaxTime + LockDuration + RewardsDuration)}

Balances == [locked: Nat, nextUnlockIndex: Nat]
LockedBalance == [amount: Nat, unlockTime: Weeks]
Epoch == [supply: Nat, date: Weeks]
DelegateeCheckpoint == [votes: Nat, epochStart: Weeks]

\* The sum of the amounts of the locks m + 1 .. n.
LockSum(locks, m, n) == SumBetween([i \in 1..Len(locks) |-> locks[i].amount], m, n)

----------------------------------------------------------------------------------
(* Rewards: the updateReward modifier *)

RefreshedRewards ==
  [t \in Tokens |-> IF t \in rewardTokens THEN Refreshed(rewardData[t], lockedSupply, now)
                                          ELSE rewardData[t]]

\* Slip: an account without a balance is left out.
SettledHolders(u) ==
  [t \in Tokens |->
     IF t \in rewardTokens /\ balances[u].locked > 0
     THEN Settled(userData[u][t], balances[u].locked, RefreshedRewards[t].rewardPerTokenStored)
     ELSE userData[u][t]]

SettledRewards(u) ==
  [t \in Tokens |->
     IF t \in rewardTokens
     THEN Settled(userData[u][t], balances[u].locked, RefreshedRewards[t].rewardPerTokenStored)
     ELSE userData[u][t]]

\* to96() reverts once an accumulator has outgrown its 96 bits.
RewardsFit == \A t \in rewardTokens : RefreshedRewards[t].rewardPerTokenStored <= MaxUint96

UpdateReward(u) ==
  /\ RewardsFit
  /\ rewardData' = RefreshedRewards
  /\ userData' = [userData EXCEPT ![u] = SettledRewards(u)]

EarnedBy(u, t) ==
  Earned(userData[u][t], balances[u].locked, RewardPerToken(rewardData[t], lockedSupply, now))

----------------------------------------------------------------------------------
(* Votes: _checkpointDelegate, on the checkpoints and the unlocks of one delegatee *)

\* Slip: the week of the previous checkpoint is deducted once more.
UnlocksFromCheckpoint(unlocks, from, to) ==
  SumTo([k \in 1..((to - from) \div RewardsDuration + 1) |-> unlocks[from + (k - 1) * RewardsDuration]],
        (to - from) \div RewardsDuration + 1)

UnlocksBetween(unlocks, from, to) ==
  SumTo([k \in 1..((to - from) \div RewardsDuration) |-> unlocks[from + k * RewardsDuration]],
        (to - from) \div RewardsDuration)

\* Every lock behind the last checkpoint has expired by the week `at`.
AllExpired(ckpt, at) == ckpt.epochStart + LockDuration <= at

CarriedVotes(ckpts, unlocks, at) ==
  IF ckpts = <<>> \/ AllExpired(ckpts[Len(ckpts)], at)
  THEN 0
  ELSE LET prev == ckpts[Len(ckpts)]
       IN  prev.votes - UnlocksBetween(unlocks, prev.epochStart, at)

CanCheckpoint(ckpts, unlocks, addition, deduction) ==
  LET carried == CarriedVotes(ckpts, unlocks, UpcomingEpoch)
  IN  carried >= 0 /\ carried + addition >= deduction

\* Slip: the checkpoint is dated to the running week.
CheckpointCurrentEpoch(ckpts, unlocks, addition, deduction) ==
  LET ckpt == [votes |-> CarriedVotes(ckpts, unlocks, CurrentEpoch) + addition - deduction,
               epochStart |-> CurrentEpoch]
  IN  IF ckpts # <<>> /\ ckpts[Len(ckpts)].epochStart = CurrentEpoch
      THEN [ckpts EXCEPT ![Len(ckpts)] = ckpt]
      ELSE Append(ckpts, ckpt)

CheckpointDelegate(ckpts, unlocks, addition, deduction) ==
  LET ckpt == [votes |-> CarriedVotes(ckpts, unlocks, UpcomingEpoch) + addition - deduction,
               epochStart |-> UpcomingEpoch]
  IN  IF ckpts # <<>> /\ ckpts[Len(ckpts)].epochStart = UpcomingEpoch
      THEN [ckpts EXCEPT ![Len(ckpts)] = ckpt]
      ELSE Append(ckpts, ckpt)

----------------------------------------------------------------------------------
(* Epochs and locks *)

\* _checkpointEpoch: one epoch for each week up to the current one.
CheckpointedEpochs ==
  LET last == epochs[Len(epochs)].date
      missing == (CurrentEpoch - last) \div RewardsDuration
  IN  epochs \o [i \in 1..missing |-> [supply |-> 0, date |-> last + i * RewardsDuration]]

\* Slip: the epochs are not checkpointed first.
WithLatestEpochSupply(amount) == [epochs EXCEPT ![Len(epochs)].supply = @ + amount]

WithEpochSupply(amount) ==
  [CheckpointedEpochs EXCEPT ![Len(CheckpointedEpochs)].supply = @ + amount]

\* A lock of the same week is added to the newest one.
WithLock(locks, amount) ==
  IF locks = <<>> \/ locks[Len(locks)].unlockTime < UnlockTime
  THEN Append(locks, [amount |-> amount, unlockTime |-> UnlockTime])
  ELSE [locks EXCEPT ![Len(locks)].amount = @ + amount]

NotBlacklisted(sender, receiver) == blacklist \cap {sender, receiver} = {}

\* _lock, on balances, supply and checkpoints that the caller may have changed.
LockTokens(sender, u, amount, bals, supply, ckpts) ==
  /\ NotBlacklisted(sender, u)
  /\ amount > 0
  /\ ~isShutdown
  /\ epochs' = WithEpochSupply(amount)
  /\ balances' = [bals EXCEPT ![u].locked = @ + amount]
  /\ lockedSupply' = supply + amount
  /\ userLocks' = [userLocks EXCEPT ![u] = WithLock(@, amount)]
  /\ LET d == delegates[u] IN
     \/ /\ d = NoOne
        /\ checkpointedVotes' = ckpts
        /\ UNCHANGED delegateeUnlocks
     \/ /\ d # NoOne
        /\ delegateeUnlocks' = [delegateeUnlocks EXCEPT ![d][UnlockTime] = @ + amount]
        /\ CanCheckpoint(ckpts[d], delegateeUnlocks'[d], amount, 0)
        /\ checkpointedVotes' =
             [ckpts EXCEPT ![d] = CheckpointDelegate(@, delegateeUnlocks'[d], amount, 0)]

\* lock: the sender pays for the lock of any account.
Lock(sender, u, amount) ==
  /\ amount <= wallet[sender]
  /\ UpdateReward(u)
  /\ LockTokens(sender, u, amount, balances, lockedSupply, checkpointedVotes)
  /\ wallet' = [wallet EXCEPT ![sender] = @ - amount]
  /\ held' = [held EXCEPT ![StakingToken] = @ + amount]
  /\ UNCHANGED <<now, delegates, rewardTokens, queuedRewards, rewardDistributors, adminVars,
                 treasury, received>>

CheckpointEpoch ==
  /\ epochs' = CheckpointedEpochs
  /\ UNCHANGED <<now, lockedSupply, balances, userLocks, voteVars, rewardVars, adminVars, tokenVars>>

----------------------------------------------------------------------------------
(* Withdrawing, relocking and kicking: _processExpiredLocks *)

\* Slip: the run goes on to locks that end a week later.
LastExpiredNextWeek(u, expiry) ==
  Max({j \in balances[u].nextUnlockIndex..Len(userLocks[u]) :
         \A i \in (balances[u].nextUnlockIndex + 1)..j :
           userLocks[u][i].unlockTime <= expiry + RewardsDuration})

\* The index of the last lock of the expired run that starts after nextUnlockIndex.
LastExpired(u, expiry) ==
  Max({j \in balances[u].nextUnlockIndex..Len(userLocks[u]) :
         \A i \in (balances[u].nextUnlockIndex + 1)..j : userLocks[u][i].unlockTime <= expiry})

\* The kicker's share of a lock, in parts of Denominator.
KickRate(unlockTime, delay) ==
  AtMost(kickRewardPerEpoch * ((WeekStart(now - delay) - unlockTime) \div RewardsDuration + 1),
         Denominator)

KickReward(amount, unlockTime, delay) == (amount * KickRate(unlockTime, delay)) \div Denominator

KickRewards(locks, m, n, delay) ==
  SumBetween([i \in 1..Len(locks) |-> IF i <= m THEN 0
                                      ELSE KickReward(locks[i].amount, locks[i].unlockTime, delay)],
             m, n)

ProcessLocks(u, relock, rewardAddress, delay) ==
  LET locks    == userLocks[u]
      len      == Len(locks)
      first    == balances[u].nextUnlockIndex
      expiry   == IF delay = 0 /\ relock THEN now + RewardsDuration ELSE now - delay
      bundled  == isShutdown \/ locks[len].unlockTime <= expiry
      next     == IF bundled THEN len ELSE LastExpired(u, expiry)
      amount   == IF bundled THEN balances[u].locked ELSE LockSum(locks, first, next)
      reward   == IF delay = 0 THEN 0
                  ELSE IF bundled THEN KickReward(amount, locks[len].unlockTime, delay)
                  ELSE KickRewards(locks, first, next, delay)
      bals     == [balances EXCEPT ![u] = [locked |-> @.locked - amount, nextUnlockIndex |-> next]]
      d        == delegates[u]
      ckpts    == IF d = NoOne THEN checkpointedVotes
                  ELSE [checkpointedVotes EXCEPT
                          ![d] = CheckpointDelegate(@, delegateeUnlocks[d], 0, 0)]
      returned == IF relock THEN 0 ELSE amount - reward
  IN
  /\ UpdateReward(u)
  /\ delay <= now
  /\ len > 0
  /\ bundled /\ delay > 0 => locks[len].unlockTime <= WeekStart(now - delay)
  /\ amount > 0
  /\ amount <= balances[u].locked /\ amount <= lockedSupply
  /\ d # NoOne => CanCheckpoint(checkpointedVotes[d], delegateeUnlocks[d], 0, 0)
  /\ reward <= amount
  /\ reward + returned <= held[StakingToken]
  /\ held' = [held EXCEPT ![StakingToken] = @ - reward - returned]
  /\ wallet' = [a \in Accounts |-> wallet[a] + (IF a = rewardAddress THEN reward ELSE 0)
                                             + (IF a = u THEN returned ELSE 0)]
  /\ \/ /\ relock
        /\ LockTokens(rewardAddress, u, amount, bals, lockedSupply - amount, ckpts)
     \/ /\ ~relock
        /\ balances' = bals
        /\ lockedSupply' = lockedSupply - amount
        /\ checkpointedVotes' = ckpts
        /\ UNCHANGED <<epochs, userLocks, delegateeUnlocks>>
  /\ UNCHANGED <<now, delegates, rewardTokens, queuedRewards, rewardDistributors, adminVars,
                 treasury, received>>

ProcessExpiredLocks(u, relock) == ProcessLocks(u, relock, u, 0)

\* Slip: one week less of grace.
KickExpiredLocksEarly(kicker, u) ==
  ProcessLocks(u, FALSE, kicker, RewardsDuration * (kickRewardEpochDelay - 1))

KickExpiredLocks(kicker, u) ==
  ProcessLocks(u, FALSE, kicker, RewardsDuration * kickRewardEpochDelay)

\* Slip: the locks stay unprocessed.
EmergencyWithdrawKeepsIndex(u) ==
  LET amount == balances[u].locked IN
  /\ isShutdown
  /\ amount > 0
  /\ amount <= lockedSupply /\ amount <= held[StakingToken]
  /\ balances' = [balances EXCEPT ![u].locked = 0]
  /\ lockedSupply' = lockedSupply - amount
  /\ held' = [held EXCEPT ![StakingToken] = @ - amount]
  /\ wallet' = [wallet EXCEPT ![u] = @ + amount]
  /\ UNCHANGED <<now, epochs, userLocks, voteVars, rewardVars, adminVars, treasury, received>>

\* emergencyWithdraw: neither rewards nor votes are touched.
EmergencyWithdraw(u) ==
  LET amount == balances[u].locked IN
  /\ isShutdown
  /\ amount > 0
  /\ amount <= lockedSupply /\ amount <= held[StakingToken]
  /\ balances' = [balances EXCEPT ![u] = [locked |-> 0, nextUnlockIndex |-> Len(userLocks[u])]]
  /\ lockedSupply' = lockedSupply - amount
  /\ held' = [held EXCEPT ![StakingToken] = @ - amount]
  /\ wallet' = [wallet EXCEPT ![u] = @ + amount]
  /\ UNCHANGED <<now, epochs, userLocks, voteVars, rewardVars, adminVars, treasury, received>>

----------------------------------------------------------------------------------
(* Delegation *)

\* Slip: locks that end in the upcoming week are moved as well.
FirstMovedInclusive(locks) ==
  Min({i \in 1..(Len(locks) + 1) : \A k \in i..Len(locks) : locks[k].unlockTime >= UpcomingEpoch})

\* The first of the newest locks that all outlive the upcoming epoch.
FirstMoved(locks) ==
  Min({i \in 1..(Len(locks) + 1) : \A k \in i..Len(locks) : locks[k].unlockTime > UpcomingEpoch})

\* How much of the moved locks ends in week w.
MovedAt(locks, w) ==
  LockSum([i \in 1..Len(locks) |->
             IF i >= FirstMoved(locks) /\ locks[i].unlockTime = w THEN locks[i]
             ELSE [amount |-> 0, unlockTime |-> w]],
          0, Len(locks))

Delegate(u, newDelegatee) ==
  LET locks   == userLocks[u]
      old     == delegates[u]
      moved   == LockSum(locks, FirstMoved(locks) - 1, Len(locks))
      unlocks == [d \in Delegatees |-> [w \in Weeks |->
                    delegateeUnlocks[d][w] + (CASE d = newDelegatee -> MovedAt(locks, w)
                                                [] d = old -> - MovedAt(locks, w)
                                                [] OTHER -> 0)]]
      given   == IF old = NoOne THEN checkpointedVotes
                 ELSE [checkpointedVotes EXCEPT
                         ![old] = CheckpointDelegate(@, unlocks[old], 0, moved)]
  IN
  /\ locks # <<>>
  /\ newDelegatee # old
  /\ old # NoOne => /\ \A w \in Weeks : unlocks[old][w] >= 0
                    /\ CanCheckpoint(checkpointedVotes[old], unlocks[old], 0, moved)
  /\ CanCheckpoint(checkpointedVotes[newDelegatee], unlocks[newDelegatee], moved, 0)
  /\ delegates' = [delegates EXCEPT ![u] = newDelegatee]
  /\ delegateeUnlocks' = unlocks
  /\ checkpointedVotes' =
       [given EXCEPT ![newDelegatee] = CheckpointDelegate(@, unlocks[newDelegatee], moved, 0)]
  /\ UNCHANGED <<now, lockVars, rewardVars, adminVars, tokenVars>>

----------------------------------------------------------------------------------
(* Claiming and funding rewards *)

\* The tokens in `claimed` are paid out, oLIT to `olitTo` and the rest to u.
ClaimRewards(u, claimed, olitTo) ==
  LET reward(t) == IF t \in claimed THEN SettledRewards(u)[t].rewards ELSE 0
      payee(t)  == IF t = Olit THEN olitTo ELSE u
  IN
  /\ RewardsFit
  /\ \A t \in claimed : reward(t) <= held[t]
  /\ rewardData' = RefreshedRewards
  /\ userData' = [userData EXCEPT ![u] =
                    [t \in Tokens |-> IF t \in claimed
                                      THEN [SettledRewards(u)[t] EXCEPT !.rewards = 0]
                                      ELSE SettledRewards(u)[t]]]
  /\ held' = [t \in AllTokens |-> held[t] - (IF t \in claimed THEN reward(t) ELSE 0)]
  /\ received' = [a \in Accounts |-> [t \in Tokens |->
                    received[a][t] + (IF a = payee(t) THEN reward(t) ELSE 0)]]
  /\ UNCHANGED <<now, lockVars, voteVars, rewardTokens, queuedRewards, rewardDistributors,
                 adminVars, wallet, treasury>>

\* The three getReward functions: anyone claims all of u's rewards, or all but
\* those that _skipIdx names.
GetReward(u, claimed) ==
  /\ claimed \subseteq rewardTokens
  /\ ClaimRewards(u, claimed, u)

\* Slip: a permission of anybody will do.
HasAnyPermission(owner, caller) == owner = caller \/ \E o \in Accounts : <<o, caller>> \in permitted

HasPermission(owner, caller) == owner = caller \/ <<owner, caller>> \in permitted

GetRewardFor(caller, u) ==
  /\ HasPermission(u, caller)
  /\ ClaimRewards(u, rewardTokens, caller)

ModifyPermission(owner, caller, grant) ==
  /\ permitted' = IF grant THEN permitted \cup {<<owner, caller>>} ELSE permitted \ {<<owner, caller>>}
  /\ UNCHANGED <<now, lockVars, voteVars, rewardVars, isShutdown, kickRewardPerEpoch,
                 kickRewardEpochDelay, blacklist, tokenVars>>

\* Slip: the running stream is not settled first.
NotifyRewardUnsettled(t, reward) ==
  LET started == Notified(rewardData[t], reward, now) IN
  /\ started.rewardRate < RateCap
  /\ lockedSupply >= MinSupply
  /\ rewardData' = [rewardData EXCEPT ![t] = started]

\* _notifyReward: the modifier settles every stream, then the new one starts.
NotifyReward(t, reward) ==
  LET started == Notified(RefreshedRewards[t], reward, now) IN
  /\ RewardsFit
  /\ started.rewardRate < RateCap
  /\ lockedSupply >= MinSupply
  /\ rewardData' = [RefreshedRewards EXCEPT ![t] = started]

\* The Booster and the other distributors transfer the reward and queue it in
\* one transaction.
QueueNewRewards(distributor, t, amount) ==
  LET total == amount + queuedRewards[t] IN
  /\ amount \in 1..treasury[t]
  /\ distributor \in rewardDistributors[t]
  /\ total < RewardCap
  /\ \/ /\ ~Waits(rewardData[t], total, now)
        /\ NotifyReward(t, total)
        /\ queuedRewards' = [queuedRewards EXCEPT ![t] = 0]
     \/ /\ Waits(rewardData[t], total, now)
        /\ queuedRewards' = [queuedRewards EXCEPT ![t] = total]
        /\ UNCHANGED rewardData
  /\ treasury' = [treasury EXCEPT ![t] = @ - amount]
  /\ held' = [held EXCEPT ![t] = @ + amount]
  /\ UNCHANGED <<now, lockVars, voteVars, rewardTokens, rewardDistributors, userData, adminVars,
                 wallet, received>>

\* Tokens that reach the locker without being queued.
ReceiveERC20(t, amount) ==
  /\ amount \in 1..treasury[t]
  /\ treasury' = [treasury EXCEPT ![t] = @ - amount]
  /\ held' = [held EXCEPT ![t] = @ + amount]
  /\ UNCHANGED <<now, lockVars, voteVars, rewardVars, adminVars, wallet, received>>

----------------------------------------------------------------------------------
(* The owner *)

RewardExists(t) == t \in Tokens /\ rewardData[t].lastUpdateTime # 0

AddReward(t, distributor) ==
  /\ ~RewardExists(t)
  /\ t # StakingToken
  /\ Cardinality(rewardTokens) < MaxRewardTokens
  /\ rewardTokens' = rewardTokens \cup {t}
  /\ rewardData' = [rewardData EXCEPT ![t].lastUpdateTime = now, ![t].periodFinish = now]
  /\ rewardDistributors' = [rewardDistributors EXCEPT ![t] = @ \cup {distributor}]
  /\ UNCHANGED <<now, lockVars, voteVars, queuedRewards, userData, adminVars, tokenVars>>

ApproveRewardDistributor(t, distributor, approved) ==
  /\ RewardExists(t)
  /\ rewardDistributors' = [rewardDistributors EXCEPT ![t] =
                              IF approved THEN @ \cup {distributor} ELSE @ \ {distributor}]
  /\ UNCHANGED <<now, lockVars, voteVars, rewardTokens, rewardData, queuedRewards, userData,
                 adminVars, tokenVars>>

RecoverERC20(t, amount) ==
  /\ t # StakingToken
  /\ ~RewardExists(t)
  /\ amount \in 1..held[t]
  /\ held' = [held EXCEPT ![t] = @ - amount]
  /\ treasury' = [treasury EXCEPT ![t] = @ + amount]
  /\ UNCHANGED <<now, lockVars, voteVars, rewardVars, adminVars, wallet, received>>

SetKickIncentive(rate, delay) ==
  /\ rate <= MaxKickRate
  /\ delay >= MinKickDelay
  /\ kickRewardPerEpoch' = rate
  /\ kickRewardEpochDelay' = delay
  /\ UNCHANGED <<now, lockVars, voteVars, rewardVars, isShutdown, blacklist, permitted, tokenVars>>

ModifyBlacklist(u, blacklisted) ==
  /\ u \in Contracts
  /\ blacklist' = IF blacklisted THEN blacklist \cup {u} ELSE blacklist \ {u}
  /\ UNCHANGED <<now, lockVars, voteVars, rewardVars, isShutdown, kickRewardPerEpoch,
                 kickRewardEpochDelay, permitted, tokenVars>>

Shutdown ==
  /\ isShutdown' = TRUE
  /\ UNCHANGED <<now, lockVars, voteVars, rewardVars, kickRewardPerEpoch, kickRewardEpochDelay,
                 blacklist, permitted, tokenVars>>

----------------------------------------------------------------------------------

Init ==
  /\ now = StartTime
  /\ epochs = <<[supply |-> 0, date |-> WeekStart(StartTime)]>>
  /\ lockedSupply = 0
  /\ balances = [u \in Accounts |-> [locked |-> 0, nextUnlockIndex |-> 0]]
  /\ userLocks = [u \in Accounts |-> <<>>]
  /\ delegates = [u \in Accounts |-> NoOne]
  /\ checkpointedVotes = [d \in Delegatees |-> <<>>]
  /\ delegateeUnlocks = [d \in Delegatees |-> [w \in Weeks |-> 0]]
  /\ rewardTokens = {}
  /\ rewardData = [t \in Tokens |-> NoRewardData]
  /\ queuedRewards = [t \in Tokens |-> 0]
  /\ rewardDistributors = [t \in Tokens |-> {}]
  /\ userData = [u \in Accounts |-> [t \in Tokens |-> NoUserData]]
  /\ isShutdown = FALSE
  /\ kickRewardPerEpoch = InitialKickRate
  /\ kickRewardEpochDelay = InitialKickDelay
  /\ blacklist = {}
  /\ permitted = {}
  /\ held = [t \in AllTokens |-> 0]
  /\ wallet = [u \in Accounts |-> InitialWallet]
  /\ treasury = [t \in AllTokens |-> IF t = StakingToken THEN 0 ELSE InitialTreasury]
  /\ received = [u \in Accounts |-> [t \in Tokens |-> 0]]

Tick ==
  /\ now < MaxTime
  /\ now' = now + 1
  /\ UNCHANGED <<lockVars, voteVars, rewardVars, adminVars, tokenVars>>

Next ==
  \/ Tick
  \/ CheckpointEpoch
  \/ \E u \in Accounts :
       \/ \E sender \in Accounts : \E amount \in 1..wallet[sender] : Lock(sender, u, amount)
       \/ \E relock \in BOOLEAN : ProcessExpiredLocks(u, relock)
       \/ \E kicker \in Accounts : KickExpiredLocks(kicker, u)
       \/ EmergencyWithdraw(u)
       \/ \E d \in Delegatees : Delegate(u, d)
       \/ \E claimed \in SUBSET Tokens : GetReward(u, claimed)
       \/ \E caller \in Operators \cup {u} : GetRewardFor(caller, u)
       \/ \E caller \in Operators, grant \in BOOLEAN : ModifyPermission(u, caller, grant)
       \/ \E blacklisted \in BOOLEAN : ModifyBlacklist(u, blacklisted)
  \/ \E t \in AllTokens :
       \/ \E distributor \in Distributors : AddReward(t, distributor)
       \/ \E amount \in 1..held[t] : RecoverERC20(t, amount)
  \/ \E t \in Tokens :
       \/ \E distributor \in Distributors, amount \in 1..treasury[t] :
            QueueNewRewards(distributor, t, amount)
       \/ \E distributor \in Distributors, approved \in BOOLEAN :
            ApproveRewardDistributor(t, distributor, approved)
       \/ \E amount \in 1..treasury[t] : ReceiveERC20(t, amount)
  \/ \E setting \in KickSettings : SetKickIncentive(setting[1], setting[2])
  \/ Shutdown

Spec == Init /\ [][Next]_vars

----------------------------------------------------------------------------------
(* Invariants *)

TypeOK ==
  /\ now \in StartTime..MaxTime
  /\ epochs \in Seq(Epoch) /\ epochs # <<>>
  /\ lockedSupply \in Nat
  /\ balances \in [Accounts -> Balances]
  /\ userLocks \in [Accounts -> Seq(LockedBalance)]
  /\ delegates \in [Accounts -> Delegatees \cup {NoOne}]
  /\ checkpointedVotes \in [Delegatees -> Seq(DelegateeCheckpoint)]
  /\ delegateeUnlocks \in [Delegatees -> [Weeks -> Nat]]
  /\ rewardTokens \in SUBSET Tokens
  /\ rewardData \in [Tokens -> RewardDataType]
  /\ queuedRewards \in [Tokens -> Nat]
  /\ rewardDistributors \in [Tokens -> SUBSET Distributors]
  /\ userData \in [Accounts -> [Tokens -> UserDataType]]
  /\ isShutdown \in BOOLEAN
  /\ kickRewardPerEpoch \in Nat
  /\ kickRewardEpochDelay \in Nat \ {0}
  /\ blacklist \in SUBSET Contracts
  /\ permitted \in SUBSET (Accounts \X Operators)
  /\ held \in [AllTokens -> Nat]
  /\ wallet \in [Accounts -> Nat]
  /\ treasury \in [AllTokens -> Nat]
  /\ received \in [Accounts -> [Tokens -> Nat]]

\* The locks of u that are neither withdrawn nor relocked.
LiveLocks(u) == (balances[u].nextUnlockIndex + 1)..Len(userLocks[u])

\* What the locker owes is there: an account's locked balance is the sum of its
\* live locks, lockedSupply is the sum of the accounts' balances, and the staking
\* tokens held cover it.  The three are kept apart by _lock, the two branches of
\* _processExpiredLocks and emergencyWithdraw.
LockedBacked ==
  /\ \A u \in Accounts :
       balances[u].locked = LockSum(userLocks[u], balances[u].nextUnlockIndex, Len(userLocks[u]))
  /\ lockedSupply = SumTo([u \in Accounts |-> balances[u].locked], NumAccounts)
  /\ lockedSupply <= held[StakingToken]
=================================================================================
