------------------------- MODULE ExtraRewardsDistributor -------------------------
(***************************************************************************)
(* contracts/rewards/ExtraRewardsDistributor.sol: rewards that are added    *)
(* for one week of the locker and shared by what each account had locked in *)
(* that week.  The locker is EpochShares, which LiqLocker implements.       *)
(*                                                                          *)
(* rewardEpochs[t] is a sequence counted from 1 and an array counted from 0 *)
(* in the code; userClaims counts the epochs passed in both.                *)
(***************************************************************************)
EXTENDS EpochShares, Sequences, FiniteSets

CONSTANTS
  RewardTokens,
  Depositors,         \* addresses that may be whitelisted to add rewards
  InitialFunds,       \* of each token, with the depositors
  SharePrecision,     \* 1e20
  MaxSupply           \* bound on what is locked in a week

ASSUME ShareAssumption ==
  /\ NumAccounts \in Nat /\ LockEpochs \in Nat /\ MaxEpoch \in Nat /\ MaxLock \in Nat
  /\ InitialFunds \in Nat /\ SharePrecision \in Nat \ {0}

VARIABLES
  canAddReward,       \* the whitelisted depositors
  rewardData,         \* token -> epoch -> reward per share
  rewardEpochs,       \* token -> the epochs with rewards, oldest first
  userClaims,         \* token -> account -> how many of them it is through with
  pot,                \* tokens of the distributor
  funds,              \* tokens of the depositors
  paid                \* token -> account -> tokens paid out to it

extraVars == <<canAddReward, rewardData, rewardEpochs, userClaims, pot, funds, paid>>
vars == <<shareVars, extraVars>>

----------------------------------------------------------------------------------
(* Adding rewards *)

ModifyWhitelist(depositor, canAdd) ==
  /\ canAddReward' = IF canAdd THEN canAddReward \cup {depositor} ELSE canAddReward \ {depositor}
  /\ UNCHANGED <<shareVars, rewardData, rewardEpochs, userClaims, pot, funds, paid>>

NewestRewardEpoch(t) == IF rewardEpochs[t] = <<>> THEN -1 ELSE rewardEpochs[t][Len(rewardEpochs[t])]

\* Slip: a past epoch may be added to again, or before the newest one.
AnyPastEpoch(t, e) == e <= epoch

\* addReward adds to the current epoch, addRewardToEpoch to it or to a past one
\* that is later than every epoch that has rewards of the token already.
MayAddTo(t, e) == e = epoch \/ (e < epoch /\ NewestRewardEpoch(t) < e)

RewardPerShare(amount, e) == (amount * SharePrecision) \div Supply(e)

\* addReward and addRewardToEpoch: the locker is checkpointed first.
AddRewardToEpoch(depositor, t, amount, e) ==
  /\ MayAddTo(t, e)
  /\ depositor \in canAddReward
  /\ amount \in 1..funds[t]
  /\ Readable(e) /\ Supply(e) > 0
  /\ latest' = epoch
  /\ rewardData' = [rewardData EXCEPT ![t][e] = @ + RewardPerShare(amount, e)]
  /\ rewardEpochs' = [rewardEpochs EXCEPT ![t] =
                        IF NewestRewardEpoch(t) < e THEN Append(@, e) ELSE @]
  /\ funds' = [funds EXCEPT ![t] = @ - amount]
  /\ pot' = [pot EXCEPT ![t] = @ + amount]
  /\ UNCHANGED <<epoch, begun, shares, canAddReward, userClaims, paid>>

----------------------------------------------------------------------------------
(* Claiming *)

ClaimableAtEpoch(u, t, e) == (shares[e][u] * rewardData[t][e]) \div SharePrecision

\* An epoch is claimable once a later one is checkpointed.
Closed(e) == e < latest

\* Slip: a claim is through with the epochs that are still open, too.
AllEpochs(t, from) == Len(rewardEpochs[t])

\* How far a claim of the epochs after the first `from` ones brings an account.
ClaimedUpTo(t, from) ==
  LET closed == {i \in (from + 1)..Len(rewardEpochs[t]) : Closed(rewardEpochs[t][i])}
  IN  IF closed = {} THEN from ELSE CHOOSE i \in closed : \A j \in closed : j <= i

\* What the claim pays.
AllClaimable(u, t, from) ==
  SumBetween([i \in 1..Len(rewardEpochs[t]) |->
                IF i > from /\ Closed(rewardEpochs[t][i])
                THEN ClaimableAtEpoch(u, t, rewardEpochs[t][i]) ELSE 0],
             0, Len(rewardEpochs[t]))

\* _getReward: nothing to claim leaves everything as it is.
ClaimFrom(u, t, from) ==
  LET claimable == AllClaimable(u, t, from) IN
  /\ claimable > 0
  /\ claimable <= pot[t]
  /\ userClaims' = [userClaims EXCEPT ![t][u] = ClaimedUpTo(t, from)]
  /\ pot' = [pot EXCEPT ![t] = @ - claimable]
  /\ paid' = [paid EXCEPT ![t][u] = @ + claimable]
  /\ UNCHANGED <<shareVars, canAddReward, rewardData, rewardEpochs, funds>>

\* Anyone may claim for u, from where u left off.
GetReward(u, t) == ClaimFrom(u, t, userClaims[t][u])

\* Slip: the claim starts over from the given index.
GetRewardFromAnyIndex(u, t, startIndex) == ClaimFrom(u, t, startIndex)

\* u itself may skip ahead.
GetRewardFromIndex(u, t, startIndex) ==
  ClaimFrom(u, t, IF startIndex > userClaims[t][u] THEN startIndex ELSE userClaims[t][u])

ForfeitRewards(u, t, index) ==
  /\ index > 0 /\ index < Len(rewardEpochs[t]) - 1
  /\ index >= userClaims[t][u]
  /\ userClaims' = [userClaims EXCEPT ![t][u] = index + 1]
  /\ UNCHANGED <<shareVars, canAddReward, rewardData, rewardEpochs, pot, funds, paid>>

----------------------------------------------------------------------------------

Init ==
  /\ ShareInit
  /\ canAddReward = {}
  /\ rewardData = [t \in RewardTokens |-> [e \in Epochs |-> 0]]
  /\ rewardEpochs = [t \in RewardTokens |-> <<>>]
  /\ userClaims = [t \in RewardTokens |-> [u \in Accounts |-> 0]]
  /\ pot = [t \in RewardTokens |-> 0]
  /\ funds = [t \in RewardTokens |-> InitialFunds]
  /\ paid = [t \in RewardTokens |-> [u \in Accounts |-> 0]]

LockerStep ==
  /\ ShareNext
  /\ \A e \in Epochs : Supply(e)' <= MaxSupply
  /\ UNCHANGED extraVars

Next ==
  \/ LockerStep
  \/ \E depositor \in Depositors, canAdd \in BOOLEAN : ModifyWhitelist(depositor, canAdd)
  \/ \E t \in RewardTokens :
       \/ \E depositor \in Depositors, amount \in 1..funds[t], e \in Epochs :
            AddRewardToEpoch(depositor, t, amount, e)
       \/ \E u \in Accounts :
            \/ GetReward(u, t)
            \/ \E startIndex \in 0..Len(rewardEpochs[t]) : GetRewardFromIndex(u, t, startIndex)
            \/ \E index \in 0..Len(rewardEpochs[t]) : ForfeitRewards(u, t, index)

Spec == Init /\ [][Next]_vars

----------------------------------------------------------------------------------
(* Properties *)

TypeOK ==
  /\ epoch \in Epochs /\ begun \in BOOLEAN /\ latest \in 0..epoch
  /\ shares \in [Epochs -> [Accounts -> Nat]]
  /\ canAddReward \subseteq Depositors
  /\ rewardData \in [RewardTokens -> [Epochs -> Nat]]
  /\ rewardEpochs \in [RewardTokens -> Seq(Epochs)]
  /\ userClaims \in [RewardTokens -> [Accounts -> Nat]]
  /\ pot \in [RewardTokens -> Nat]
  /\ funds \in [RewardTokens -> Nat]
  /\ paid \in [RewardTokens -> [Accounts -> Nat]]

\* What u has yet to receive, also from the epoch that is still open.
Entitled(u, t) ==
  SumBetween([i \in 1..Len(rewardEpochs[t]) |-> ClaimableAtEpoch(u, t, rewardEpochs[t][i])],
             userClaims[t][u], Len(rewardEpochs[t]))

\* The tokens held cover what all accounts have yet to receive: an account is paid
\* once for each epoch, by balances that add up to the supply the reward was
\* divided by when it was added, however much later the claim comes.
EntitlementsCovered ==
  \A t \in RewardTokens : SumTo([u \in Accounts |-> Entitled(u, t)], NumAccounts) <= pot[t]

\* An account loses no reward but by its own call: what it has yet to receive
\* shrinks only by what it is paid, unless it forfeits or skips ahead itself.
OnlyOwnerForfeits ==
  [][\A u \in Accounts, t \in RewardTokens :
       Entitled(u, t)' + paid'[t][u] < Entitled(u, t) + paid[t][u]
         => \E index \in userClaims[t][u]..Len(rewardEpochs[t]) :
              \/ ForfeitRewards(u, t, index)
              \/ index > userClaims[t][u] /\ GetRewardFromIndex(u, t, index)]_vars

\* No reward comes too late: an epoch whose reward changes is after every epoch
\* that some account has claimed or forfeited.
NoRewardBehindClaims ==
  [][\A t \in RewardTokens, e \in Epochs :
       rewardData'[t][e] # rewardData[t][e]
         => \A u \in Accounts : \A i \in 1..userClaims[t][u] : rewardEpochs[t][i] < e]_vars
=================================================================================
