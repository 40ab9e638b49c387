------------------------------ MODULE LiqLockerViews ------------------------------
(***************************************************************************)
(* The views of LiqLocker that governance and ExtraRewardsDistributor read  *)
(* (epochs are counted from 0, as in the code), and what they promise: the  *)
(* properties here relate the history the views read back to the locks it   *)
(* was written from.                                                        *)
(***************************************************************************)
EXTENDS LiqLocker

EpochStart(e) == epochs[1].date + e * RewardsDuration

FindEpochId(t) == (t - epochs[1].date) \div RewardsDuration

\* The epochs that balanceAtEpochOf and totalSupplyAtEpoch answer for: they
\* revert unless the epoch began before this block.
Viewable == {e \in 0..FindEpochId(now) : EpochStart(e) < now}

\* Slip: a lock counts from the week it is made in.
BalanceFromLockWeek(e, u) ==
  LET locks        == userLocks[u]
      lockEpoch(i) == locks[i].unlockTime - LockDuration
      stop         == Max({0} \cup {i \in 1..Len(locks) :
                                      lockEpoch(i) <= EpochStart(e) - LockDuration})
  IN  SumBetween([i \in 1..Len(locks) |-> IF lockEpoch(i) <= EpochStart(e) THEN locks[i].amount ELSE 0],
                 stop, Len(locks))

\* The loop runs from the newest lock down to the first that is too old.
BalanceAtEpochOf(e, u) ==
  LET locks        == userLocks[u]
      lockEpoch(i) == locks[i].unlockTime - LockDuration
      stop         == Max({0} \cup {i \in 1..Len(locks) :
                                      lockEpoch(i) <= EpochStart(e) - LockDuration})
  IN  SumBetween([i \in 1..Len(locks) |-> IF lockEpoch(i) < EpochStart(e) THEN locks[i].amount ELSE 0],
                 stop, Len(locks))

\* Epochs past the last checkpointed one are answered from the last one.
TotalSupplyAtEpoch(e) ==
  LET newest == AtMost(e + 1, Len(epochs))
      stop   == Max({0} \cup {i \in 1..newest : epochs[i].date <= EpochStart(e) - LockDuration})
  IN  SumBetween([i \in 1..Len(epochs) |-> IF epochs[i].date = EpochStart(e) THEN 0 ELSE epochs[i].supply],
                 stop, newest)

\* _checkpointsLookup: the number of checkpoints that start no later than the
\* epoch, by binary search.
CheckpointsUpTo(ckpts, epochStart) ==
  LET search[range \in (0..Len(ckpts)) \X (0..Len(ckpts))] ==
        LET low  == range[1]
            high == range[2]
            mid  == (low + high) \div 2
        IN  IF low >= high THEN high
            ELSE IF ckpts[mid + 1].epochStart > epochStart THEN search[<<low, mid>>]
            ELSE search[<<mid + 1, high>>]
  IN  search[<<0, Len(ckpts)>>]

\* Negative where the code would revert.
GetPastVotes(d, t) ==
  LET epoch == WeekStart(t)
      ckpts == checkpointedVotes[d]
      found == CheckpointsUpTo(ckpts, epoch)
  IN  IF found = 0 \/ ckpts[found].votes = 0 \/ AllExpired(ckpts[found], epoch)
      THEN 0
      ELSE ckpts[found].votes - UnlocksBetween(delegateeUnlocks[d], ckpts[found].epochStart, epoch)

----------------------------------------------------------------------------------
(* Properties *)

\* The locks of u that still count at week w.
LockedBeyond(u, w) ==
  SumTo([i \in 1..Len(userLocks[u]) |-> IF userLocks[u][i].unlockTime > w
                                        THEN userLocks[u][i].amount ELSE 0],
        Len(userLocks[u]))

\* At every epoch that can be asked for, totalSupplyAtEpoch, which adds up the
\* epochs array, is the sum of balanceAtEpochOf over the accounts, which adds up
\* userLocks, even for weeks that nobody checkpointed.
SupplyIsSumOfBalances ==
  \A e \in Viewable :
    TotalSupplyAtEpoch(e) = SumTo([u \in Accounts |-> BalanceAtEpochOf(e, u)], NumAccounts)

\* The history that balanceAtEpochOf answers from obeys the abstract EpochShares:
\* a lock or a relock counts in exactly the weeks after its own until it ends, and
\* neither an early relock, a merge, a withdrawal, a kick nor a shutdown changes
\* what an account held in any week, past or future.
LastEpoch == (MaxTime - WeekStart(StartTime)) \div RewardsDuration

Shares == INSTANCE EpochShares WITH
  MaxEpoch <- LastEpoch,
  MaxLock  <- NumAccounts * InitialWallet,
  epoch    <- FindEpochId(now),
  begun    <- EpochStart(FindEpochId(now)) < now,
  latest   <- Len(epochs) - 1,
  shares   <- [e \in 0..LastEpoch |-> [u \in Accounts |-> BalanceAtEpochOf(e, u)]]

HistoryAsPromised == Shares!ShareSpec

\* The votes a delegatee would be checkpointed with now are the locks of those
\* who delegate to it that outlive the upcoming epoch, whatever the order of
\* locks, delegations, expiries and withdrawals that led here.
PendingVotesMatchLocks ==
  \A d \in Delegatees :
    CarriedVotes(checkpointedVotes[d], delegateeUnlocks[d], UpcomingEpoch)
      = SumTo([u \in Accounts |-> IF delegates[u] = d THEN LockedBeyond(u, UpcomingEpoch) ELSE 0],
              NumAccounts)

\* What getPastVotes answers for a week that has begun never changes again.
PastVotesFrozen ==
  [][\A d \in Delegatees, w \in Weeks :
       w <= now => GetPastVotes(d, w)' = GetPastVotes(d, w)]_vars

\* No state of the vote or epoch checkpoints makes a withdrawal revert: whoever has
\* a live lock that is due can withdraw, and after a shutdown everyone can, by
\* either way out.
ExitNeverBlocked ==
  \A u \in Accounts :
    /\ (\E i \in LiveLocks(u) : userLocks[u][i].unlockTime <= now)
          => ENABLED ProcessExpiredLocks(u, FALSE)
    /\ isShutdown /\ balances[u].locked > 0
          => /\ ENABLED ProcessExpiredLocks(u, FALSE)
             /\ ENABLED EmergencyWithdraw(u)

\* Before a shutdown no step takes more out of an account's locked balance than
\* its live locks that are due; a relock puts back what it takes.
NoEarlyExit ==
  [][~isShutdown =>
       \A u \in Accounts :
         balances[u].locked - balances'[u].locked
           <= SumTo([i \in 1..Len(userLocks[u]) |->
                       IF i \in LiveLocks(u) /\ userLocks[u][i].unlockTime <= now
                       THEN userLocks[u][i].amount ELSE 0],
                    Len(userLocks[u]))]_vars

\* A withdrawal costs the owner something (the kick reward) only if a lock of the
\* account is overdue by the grace period, also in the shutdown branch, which does
\* not look at the unlock times.
KickOnlyAfterGrace ==
  [][\A u \in Accounts :
       /\ balances'[u].locked < balances[u].locked
       /\ balances'[u].locked + wallet'[u] < balances[u].locked + wallet[u]
       => \E i \in LiveLocks(u) :
            userLocks[u][i].unlockTime + RewardsDuration * kickRewardEpochDelay <= now]_vars

\* balanceOf's comment: the "balance of an account which only includes properly
\* locked tokens as of the most recent eligible epoch".
BalanceOnlyLocked ==
  \A e \in Viewable : e = FindEpochId(now) =>
    \A u \in Accounts : BalanceAtEpochOf(e, u) <= balances[u].locked

\* The reward tokens in the locker cover what every account has earned, what is
\* queued and what the running stream will still release, through streams that
\* are topped up, queued, run dry while nothing is locked, or outlive an
\* emergencyWithdraw, and whatever the owner recovers.
RewardSolvency ==
  \A t \in rewardTokens :
    SumTo([u \in Accounts |-> EarnedBy(u, t)], NumAccounts)
      + queuedRewards[t] + Remaining(rewardData[t], now) * rewardData[t].rewardRate
    <= held[t]

\* What an account has earned shrinks only when it is paid out in full, or when the
\* account leaves by emergencyWithdraw, which gives up what is not yet settled.
AccruedRewardsKept ==
  [][\A u \in Accounts, t \in Tokens :
       \/ EarnedBy(u, t)' >= EarnedBy(u, t)
       \/ EarnedBy(u, t)' = 0 /\ held[t] - held'[t] = EarnedBy(u, t)
       \/ isShutdown /\ balances'[u].locked = 0 /\ userData' = userData]_vars

\* Rewards are earned by the passing of time: until a shutdown no call, be it a
\* lock, a withdrawal, a new stream or the first lock after an empty spell, makes
\* anyone's earnings jump.
NoRetroactiveRewards ==
  [][now' = now /\ ~isShutdown =>
       \A u \in Accounts, t \in Tokens : EarnedBy(u, t)' <= EarnedBy(u, t)]_vars

\* A claim empties an account's earnings into its own hands; only oLIT may go
\* elsewhere, and only to a caller with the account's permission.
ClaimsReachOwner ==
  [][~isShutdown =>
       \A u \in Accounts, t \in Tokens :
         EarnedBy(u, t)' < EarnedBy(u, t) =>
           \E a \in Accounts :
             /\ received'[a][t] = received[a][t] + EarnedBy(u, t)
             /\ a # u => t = Olit /\ <<u, a>> \in permitted]_vars
=================================================================================
