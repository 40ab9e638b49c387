------------------------------ MODULE RewardStream ------------------------------
(***************************************************************************)
(* The Synthetix-style stream of rewards that LiqLocker, BaseRewardPool and *)
(* the virtual pools share: a reward amount is released at a constant rate  *)
(* over RewardsDuration to the holders of a supply, through an accumulator  *)
(* of reward per token.  Operators only; the contracts that keep the state  *)
(* use them in their handlers.                                              *)
(*                                                                          *)
(* rd is a RewardData record, ud a UserData record, t the block timestamp.  *)
(* Precision stands for 1e18 and NewRewardRatio for 830 of 1000.            *)
(***************************************************************************)
EXTENDS Integers, Sums

CONSTANTS RewardsDuration, Precision, NewRewardRatio

ASSUME RewardsDurationAssumption == RewardsDuration \in Nat \ {0}
ASSUME PrecisionAssumption == Precision \in Nat \ {0}
ASSUME NewRewardRatioAssumption == NewRewardRatio \in Nat

RewardDataType ==
  [periodFinish: Nat, lastUpdateTime: Nat, rewardRate: Nat, rewardPerTokenStored: Nat]

UserDataType == [rewardPerTokenPaid: Nat, rewards: Nat]

NoRewardData ==
  [periodFinish |-> 0, lastUpdateTime |-> 0, rewardRate |-> 0, rewardPerTokenStored |-> 0]

NoUserData == [rewardPerTokenPaid |-> 0, rewards |-> 0]

LastTimeRewardApplicable(rd, t) == AtMost(t, rd.periodFinish)

RewardPerToken(rd, supply, t) ==
  IF supply = 0
  THEN rd.rewardPerTokenStored
  ELSE rd.rewardPerTokenStored
         + ((LastTimeRewardApplicable(rd, t) - rd.lastUpdateTime) * rd.rewardRate * Precision)
             \div supply

Earned(ud, balance, perToken) ==
  (balance * (perToken - ud.rewardPerTokenPaid)) \div Precision + ud.rewards

\* The global half of the updateReward modifier.
Refreshed(rd, supply, t) ==
  [rd EXCEPT !.rewardPerTokenStored = RewardPerToken(rd, supply, t),
             !.lastUpdateTime = LastTimeRewardApplicable(rd, t)]

\* The account half of the updateReward modifier.
Settled(ud, balance, perToken) ==
  [rewardPerTokenPaid |-> perToken, rewards |-> Earned(ud, balance, perToken)]

\* What is still to be released of the running stream.
Remaining(rd, t) == IF t >= rd.periodFinish THEN 0 ELSE rd.periodFinish - t

\* Slip: a top-up folds in the whole running stream and not the rest of it.
NotifiedFromFullStream(rd, reward, t) ==
  [rd EXCEPT !.rewardRate = IF t >= rd.periodFinish THEN reward \div RewardsDuration
                            ELSE reward \div RewardsDuration + rd.rewardRate,
             !.lastUpdateTime = t,
             !.periodFinish = t + RewardsDuration]

\* _notifyReward after its modifier: a new week-long stream from t on, into
\* which the rest of the running one is folded.
Notified(rd, reward, t) ==
  [rd EXCEPT !.rewardRate = (reward + Remaining(rd, t) * rd.rewardRate) \div RewardsDuration,
             !.lastUpdateTime = t,
             !.periodFinish = t + RewardsDuration]

\* A reward of this size waits for a later call while the stream is running and
\* what it has released so far is at least 83% of the new amount.
Waits(rd, reward, t) ==
  /\ t < rd.periodFinish
  /\ (rd.rewardRate * (t - (rd.periodFinish - RewardsDuration)) * 1000) \div reward
       >= NewRewardRatio
=================================================================================
