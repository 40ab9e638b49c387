--------------------------- MODULE ExtraRewardsProofs ---------------------------
(***************************************************************************)
(* ExtraRewardsDistributor keeps its types, never adds a reward behind an   *)
(* account's claims, can pay everyone what it promises, and takes nothing   *)
(* from an account that does not give it up itself; for every number of     *)
(* accounts, tokens and weeks.                                              *)
(***************************************************************************)
EXTENDS ExtraRewardsDistributor, SharedProofs

\* The epochs with rewards of a token are in order and checkpointed.
EpochsInOrder ==
  \A t \in RewardTokens : \A i \in 1..Len(rewardEpochs[t]) :
    /\ rewardEpochs[t][i] <= latest
    /\ \A j \in 1..Len(rewardEpochs[t]) : i < j => rewardEpochs[t][i] < rewardEpochs[t][j]

\* An account is through only with epochs that are closed.
ClaimsClosed ==
  \A t \in RewardTokens, u \in Accounts :
    /\ userClaims[t][u] <= Len(rewardEpochs[t])
    /\ \A i \in 1..userClaims[t][u] : Closed(rewardEpochs[t][i])

IInv == TypeOK /\ EpochsInOrder /\ ClaimsClosed

\* The supply of a week is a natural number.
LEMMA SupplyIsNat ==
  ASSUME shares \in [Epochs -> [Accounts -> Nat]], NEW e \in Epochs
  PROVE  Supply(e) \in Nat
<1>1. NumAccounts \in Nat /\ NumAccounts \in 0..NumAccounts
  BY ShareAssumption
<1>2. \A i \in 1..NumAccounts : shares[e][i] \in Nat
  BY DEF Accounts
<1> QED BY <1>1, <1>2, SumToNat DEF Supply

\* The numbers of a state.
LEMMA Ranges ==
  ASSUME TypeOK
  PROVE  /\ epoch \in Nat /\ latest \in Nat /\ latest <= epoch /\ epoch <= MaxEpoch
         /\ \A t \in RewardTokens :
              /\ rewardEpochs[t] \in Seq(Epochs) /\ Len(rewardEpochs[t]) \in Nat
              /\ \A i \in 1..Len(rewardEpochs[t]) : rewardEpochs[t][i] \in Nat
<1>1. Epochs \subseteq Nat /\ \A e \in Epochs : e <= MaxEpoch
  BY ShareAssumption DEF Epochs
<1>2. epoch \in Nat /\ latest \in Nat /\ latest <= epoch /\ epoch <= MaxEpoch
  BY <1>1 DEF TypeOK
<1>3. ASSUME NEW t \in RewardTokens
      PROVE  /\ rewardEpochs[t] \in Seq(Epochs) /\ Len(rewardEpochs[t]) \in Nat
             /\ \A i \in 1..Len(rewardEpochs[t]) : rewardEpochs[t][i] \in Nat
  <2>1. rewardEpochs[t] \in Seq(Epochs)
    BY DEF TypeOK
  <2>2. Len(rewardEpochs[t]) \in Nat
    BY <2>1
  <2>3. \A i \in 1..Len(rewardEpochs[t]) : rewardEpochs[t][i] \in Epochs
    BY <2>1
  <2> QED BY <1>1, <2>1, <2>2, <2>3
<1> QED BY <1>2, <1>3

\* A claim that pays comes to the last closed epoch.
LEMMA PaidClaimStopsAtClosed ==
  ASSUME TypeOK, NEW t \in RewardTokens, NEW u \in Accounts, NEW from \in Nat,
         AllClaimable(u, t, from) > 0
  PROVE  /\ ClaimedUpTo(t, from) \in 1..Len(rewardEpochs[t])
         /\ from < ClaimedUpTo(t, from)
         /\ Closed(rewardEpochs[t][ClaimedUpTo(t, from)])
         /\ \A j \in 1..Len(rewardEpochs[t]) :
              ClaimedUpTo(t, from) < j => ~Closed(rewardEpochs[t][j])
<1> DEFINE n == Len(rewardEpochs[t])
           closed == {i \in (from + 1)..n : Closed(rewardEpochs[t][i])}
           f == [i \in 1..n |-> IF i > from /\ Closed(rewardEpochs[t][i])
                                THEN ClaimableAtEpoch(u, t, rewardEpochs[t][i]) ELSE 0]
           g == [i \in 1..n |-> 0]
<1>1. n \in Nat
  BY DEF TypeOK
<1>2. closed # {}
  <2> SUFFICES ASSUME closed = {} PROVE FALSE
    OBVIOUS
  <2>1. \A i \in 1..n : f[i] = 0
    BY <1>1
  <2>2. SumTo(f, n) = SumTo(g, n)
    <3>1. \A i \in 1..n : g[i] \in Int /\ f[i] = g[i]
      BY <2>1
    <3> HIDE DEF f, g, n
    <3> QED BY <3>1, <1>1, SumToCongruence
  <2>3. SumTo(g, n) = 0 /\ SumTo(f, 0) = 0
    BY <1>1, SumOfZeros, SumToZero
  <2>4. AllClaimable(u, t, from) = SumTo(f, n) - SumTo(f, 0)
    BY DEF AllClaimable, SumBetween
  <2> HIDE DEF f, g
  <2>5. AllClaimable(u, t, from) = 0
    BY <2>2, <2>3, <2>4
  <2> QED BY <2>5
<1>3. closed \in SUBSET (0..n)
  BY <1>1
<1>4. \E m \in closed : \A k \in closed : k <= m
  <2> HIDE DEF closed, n
  <2> QED BY <1>1, <1>2, <1>3, GreatestElement
<1>5. ClaimedUpTo(t, from) = CHOOSE i \in closed : \A j \in closed : j <= i
  BY <1>2 DEF ClaimedUpTo
<1>6. ClaimedUpTo(t, from) \in closed /\ \A j \in closed : j <= ClaimedUpTo(t, from)
  <2> HIDE DEF closed
  <2> QED BY <1>4, <1>5
<1>7. ClaimedUpTo(t, from) \in 1..n /\ from < ClaimedUpTo(t, from)
      /\ Closed(rewardEpochs[t][ClaimedUpTo(t, from)])
  BY <1>6, <1>1
<1>8. ASSUME NEW j \in 1..n, ClaimedUpTo(t, from) < j PROVE ~Closed(rewardEpochs[t][j])
  <2>1. j \notin closed
    BY <1>1, <1>6, <1>7, <1>8
  <2>2. j \in (from + 1)..n
    BY <1>1, <1>7, <1>8
  <2> QED BY <2>1, <2>2
<1> QED BY <1>7, <1>8

----------------------------------------------------------------------------------
(* The steps *)

\* Locks and the passing of time reach no reward.
LEMMA LockerKeepsIInv == IInv /\ LockerStep => IInv'
<1> SUFFICES ASSUME IInv, LockerStep PROVE IInv'
  OBVIOUS
<1> USE ShareAssumption
<1>1. UNCHANGED extraVars
  BY DEF LockerStep
<1> DEFINE ShareType == /\ epoch' \in Epochs /\ begun' \in BOOLEAN
                        /\ latest' \in 0..epoch' /\ latest <= latest'
                        /\ shares' \in [Epochs -> [Accounts -> Nat]]
<1>2. ShareType
  <2>0. epoch \in Nat /\ latest \in Nat /\ latest <= epoch /\ epoch <= MaxEpoch
    BY DEF IInv, TypeOK, Epochs
  <2>1. CASE NextEpoch
    <3>1. epoch' = epoch + 1 /\ epoch' <= MaxEpoch /\ begun' = FALSE /\ latest' = latest /\ shares' = shares
      BY <2>0, <2>1 DEF NextEpoch
    <3>2. epoch' \in Epochs /\ latest' \in 0..epoch' /\ latest <= latest'
      BY <2>0, <3>1 DEF Epochs
    <3>3. begun' \in BOOLEAN /\ shares' \in [Epochs -> [Accounts -> Nat]]
      BY <3>1 DEF IInv, TypeOK
    <3> QED BY <3>2, <3>3
  <2>2. CASE Begin
    BY <2>2 DEF Begin, IInv, TypeOK, Epochs
  <2>3. CASE Checkpoint
    BY <2>3 DEF Checkpoint, IInv, TypeOK, Epochs
  <2>4. ASSUME NEW u \in Accounts, NEW amount \in 1..MaxLock, LockShare(u, amount)
        PROVE  ShareType
    <3>1. \A e \in Epochs : [shares[e] EXCEPT ![u] = @ + amount] \in [Accounts -> Nat]
      BY DEF IInv, TypeOK
    <3>2. shares' \in [Epochs -> [Accounts -> Nat]]
      BY <3>1, <2>4 DEF LockShare, IInv, TypeOK
    <3> QED BY <3>2, <2>4 DEF LockShare, IInv, TypeOK, Epochs
  <2> HIDE DEF ShareType
  <2> QED BY <2>1, <2>2, <2>3, <2>4 DEF LockerStep, ShareNext
<1>3. TypeOK'
  BY <1>1, <1>2 DEF extraVars, IInv, TypeOK
<1>4. latest \in Nat /\ latest' \in Nat
  BY <1>2 DEF IInv, TypeOK, Epochs
<1>5. \A t \in RewardTokens : \A i \in 1..Len(rewardEpochs[t]) : rewardEpochs[t][i] \in Nat
  BY Ranges DEF IInv
<1>6. EpochsInOrder'
  BY <1>1, <1>2, <1>4, <1>5 DEF extraVars, IInv, EpochsInOrder
<1>7. ClaimsClosed'
  <2> SUFFICES ASSUME NEW t \in RewardTokens, NEW u \in Accounts
               PROVE  /\ userClaims[t][u] <= Len(rewardEpochs[t])
                      /\ \A i \in 1..userClaims[t][u] : rewardEpochs[t][i] < latest'
    BY <1>1 DEF ClaimsClosed, Closed, extraVars
  <2>1. userClaims[t][u] \in Nat /\ Len(rewardEpochs[t]) \in Nat
    BY DEF IInv, TypeOK
  <2> QED BY <2>1, <1>2, <1>4, <1>5 DEF IInv, ClaimsClosed, Closed
<1> QED BY <1>3, <1>6, <1>7 DEF IInv

\* addReward and addRewardToEpoch add to the running epoch or to one after all others.
LEMMA AddKeepsIInv ==
  ASSUME IInv, NEW depositor, NEW t \in RewardTokens, NEW amount \in 1..funds[t], NEW e \in Epochs,
         AddRewardToEpoch(depositor, t, amount, e)
  PROVE  IInv'
<1> USE ShareAssumption
<1>1. epoch \in Nat /\ latest \in Nat /\ latest <= epoch /\ e \in Nat /\ latest' = epoch
  BY DEF AddRewardToEpoch, IInv, TypeOK, Epochs
<1>2. e <= epoch
  BY <1>1 DEF AddRewardToEpoch, MayAddTo
<1> DEFINE old == rewardEpochs[t]
<1>3. old \in Seq(Epochs) /\ Len(old) \in Nat /\ \A i \in 1..Len(old) : old[i] \in Nat
  BY DEF IInv, TypeOK, Epochs
<1>4. rewardEpochs' = [rewardEpochs EXCEPT ![t] = IF NewestRewardEpoch(t) < e THEN Append(old, e) ELSE old]
  BY DEF AddRewardToEpoch
<1>5. TypeOK'
  <2>1. RewardPerShare(amount, e) \in Nat
    <3>1. Supply(e) \in Nat /\ Supply(e) > 0
      BY SupplyIsNat DEF IInv, TypeOK, AddRewardToEpoch
    <3>2. amount \in Nat /\ amount * SharePrecision \in Nat
      BY DEF IInv, TypeOK
    <3> QED BY <3>1, <3>2 DEF RewardPerShare
  <2>2. rewardData' \in [RewardTokens -> [Epochs -> Nat]]
    BY <2>1 DEF AddRewardToEpoch, IInv, TypeOK
  <2>3. Append(old, e) \in Seq(Epochs)
    BY <1>3
  <2>4. rewardEpochs' \in [RewardTokens -> Seq(Epochs)]
    BY <1>3, <1>4, <2>3 DEF IInv, TypeOK
  <2>5. funds' \in [RewardTokens -> Nat] /\ pot' \in [RewardTokens -> Nat]
    BY DEF AddRewardToEpoch, IInv, TypeOK
  <2>6. latest' \in 0..epoch' /\ epoch' \in Epochs /\ begun' \in BOOLEAN
    BY <1>1 DEF AddRewardToEpoch, IInv, TypeOK
  <2>7. UNCHANGED <<shares, canAddReward, userClaims, paid>>
    BY DEF AddRewardToEpoch
  <2> QED BY <2>2, <2>4, <2>5, <2>6, <2>7 DEF IInv, TypeOK
<1>6. \A s \in RewardTokens : /\ Len(rewardEpochs'[s]) >= Len(rewardEpochs[s])
                              /\ \A i \in 1..Len(rewardEpochs[s]) : rewardEpochs'[s][i] = rewardEpochs[s][i]
  BY <1>3, <1>4 DEF IInv, TypeOK
<1>7. EpochsInOrder'
  <2>1. \A s \in RewardTokens : \A i \in 1..Len(rewardEpochs[s]) :
          rewardEpochs[s][i] \in Nat /\ rewardEpochs[s][i] <= epoch
    BY <1>1, Ranges DEF IInv, EpochsInOrder
  <2>2. ASSUME NEW s \in RewardTokens, rewardEpochs'[s] = rewardEpochs[s]
        PROVE  \A i \in 1..Len(rewardEpochs'[s]) :
                 /\ rewardEpochs'[s][i] <= latest'
                 /\ \A j \in 1..Len(rewardEpochs'[s]) : i < j => rewardEpochs'[s][i] < rewardEpochs'[s][j]
    BY <2>1, <2>2, <1>1 DEF IInv, EpochsInOrder
  <2>3. ASSUME rewardEpochs'[t] # old
        PROVE  \A i \in 1..Len(rewardEpochs'[t]) :
                 /\ rewardEpochs'[t][i] <= latest'
                 /\ \A j \in 1..Len(rewardEpochs'[t]) : i < j => rewardEpochs'[t][i] < rewardEpochs'[t][j]
    <3>1. NewestRewardEpoch(t) < e /\ rewardEpochs'[t] = Append(old, e)
      BY <2>3, <1>4 DEF IInv, TypeOK
    <3>2. \A i \in 1..Len(old) : old[i] < e
      <4>1. SUFFICES ASSUME NEW i \in 1..Len(old) PROVE old[i] < e
        OBVIOUS
      <4>2. old # <<>> /\ Len(old) \in 1..Len(old)
        BY <1>3
      <4>3. old[Len(old)] < e
        BY <3>1, <4>2 DEF NewestRewardEpoch
      <4>4. i = Len(old) \/ old[i] < old[Len(old)]
        BY <1>3, <4>2 DEF IInv, EpochsInOrder
      <4> QED BY <1>1, <1>3, <4>2, <4>3, <4>4
    <3>3. /\ Len(rewardEpochs'[t]) = Len(old) + 1
          /\ \A i \in 1..Len(old) : rewardEpochs'[t][i] = old[i]
          /\ rewardEpochs'[t][Len(old) + 1] = e
      BY <3>1, <1>3
    <3>4. \A i, j \in 1..Len(old) : i < j => old[i] < old[j]
      BY DEF IInv, EpochsInOrder
    <3>5. \A i \in 1..Len(old) : old[i] <= epoch
      BY <2>1
    <3> HIDE DEF old
    <3>6. ASSUME NEW i \in 1..Len(rewardEpochs'[t])
          PROVE  rewardEpochs'[t][i] <= latest'
      <4>1. CASE i \in 1..Len(old)
        <5>1. rewardEpochs'[t][i] = old[i] /\ old[i] <= epoch
          BY <4>1, <3>3, <3>5
        <5> QED BY <5>1, <1>1
      <4>2. CASE i = Len(old) + 1
        BY <4>2, <3>3, <1>1, <1>2
      <4> QED BY ONLY i \in 1..Len(rewardEpochs'[t]), <1>3, <3>3, <4>1, <4>2
    <3>7. ASSUME NEW i \in 1..Len(rewardEpochs'[t]), NEW j \in 1..Len(rewardEpochs'[t]), i < j
          PROVE  rewardEpochs'[t][i] < rewardEpochs'[t][j]
      <4>1. i \in 1..Len(old) /\ (j \in 1..Len(old) \/ j = Len(old) + 1)
        BY ONLY <3>7, <1>3, <3>3
      <4>2. CASE j \in 1..Len(old)
        BY <3>7, <4>1, <4>2, <3>3, <3>4
      <4>3. CASE j = Len(old) + 1
        BY <4>1, <4>3, <3>2, <3>3
      <4> QED BY <4>1, <4>2, <4>3
    <3> QED BY <3>6, <3>7
  <2>4. \A s \in RewardTokens : s # t => rewardEpochs'[s] = rewardEpochs[s]
    BY <1>4 DEF IInv, TypeOK
  <2> QED BY <2>2, <2>3, <2>4 DEF EpochsInOrder
<1>8. ClaimsClosed'
  <2> SUFFICES ASSUME NEW s \in RewardTokens, NEW u \in Accounts
               PROVE  /\ userClaims[s][u] <= Len(rewardEpochs'[s])
                      /\ \A i \in 1..userClaims[s][u] : rewardEpochs'[s][i] < latest'
    BY DEF AddRewardToEpoch, ClaimsClosed, Closed
  <2>1. userClaims[s][u] \in Nat /\ userClaims[s][u] <= Len(rewardEpochs[s])
        /\ \A i \in 1..userClaims[s][u] : rewardEpochs[s][i] < latest
    BY DEF IInv, TypeOK, ClaimsClosed, Closed
  <2>2. /\ Len(rewardEpochs[s]) \in Nat /\ Len(rewardEpochs'[s]) \in Nat
        /\ \A i \in 1..Len(rewardEpochs[s]) : rewardEpochs[s][i] \in Nat
    <3>1. Len(rewardEpochs[s]) \in Nat /\ \A i \in 1..Len(rewardEpochs[s]) : rewardEpochs[s][i] \in Nat
      BY Ranges DEF IInv
    <3>2. Len(rewardEpochs'[s]) \in Nat
      BY <1>5 DEF TypeOK
    <3> QED BY <3>1, <3>2
  <2>3. /\ Len(rewardEpochs'[s]) >= Len(rewardEpochs[s])
        /\ \A i \in 1..Len(rewardEpochs[s]) : rewardEpochs'[s][i] = rewardEpochs[s][i]
    BY <1>6
  <2>4. ASSUME NEW i \in 1..userClaims[s][u] PROVE rewardEpochs'[s][i] < latest'
    <3>1. i \in 1..Len(rewardEpochs[s])
      BY <2>1, <2>2
    <3>2. /\ rewardEpochs'[s][i] = rewardEpochs[s][i] /\ rewardEpochs[s][i] \in Nat
          /\ rewardEpochs[s][i] < latest
      BY <2>1, <2>2, <2>3, <3>1
    <3> QED BY ONLY <1>1, <3>2
  <2>5. userClaims[s][u] <= Len(rewardEpochs'[s])
    BY ONLY <2>1, <2>2, <2>3
  <2> QED BY <2>4, <2>5
<1> QED BY <1>5, <1>7, <1>8 DEF IInv

\* What claims and forfeits have in common: an account moves on to a closed epoch.
LEMMA MovingOnKeepsIInv ==
  ASSUME IInv, TypeOK', NEW t \in RewardTokens, NEW u \in Accounts,
         NEW n \in 1..Len(rewardEpochs[t]), Closed(rewardEpochs[t][n]),
         userClaims' = [userClaims EXCEPT ![t][u] = n],
         UNCHANGED <<shareVars, rewardEpochs>>
  PROVE  IInv'
<1>1. \A i \in 1..Len(rewardEpochs[t]) : rewardEpochs[t][i] \in Nat
  BY Ranges DEF IInv
<1>2. latest \in Nat /\ Len(rewardEpochs[t]) \in Nat
  BY Ranges DEF IInv
<1>3. \A i \in 1..n : rewardEpochs[t][i] < latest
  <2>1. \A i \in 1..n : i = n \/ rewardEpochs[t][i] < rewardEpochs[t][n]
    BY <1>2 DEF IInv, EpochsInOrder
  <2> QED BY <2>1, <1>1, <1>2 DEF Closed
<1>4. EpochsInOrder'
  BY DEF IInv, EpochsInOrder, shareVars
<1>5. ClaimsClosed'
  <2> SUFFICES ASSUME NEW s \in RewardTokens, NEW v \in Accounts
               PROVE  /\ userClaims'[s][v] <= Len(rewardEpochs[s])
                      /\ \A i \in 1..userClaims'[s][v] : rewardEpochs[s][i] < latest
    BY DEF ClaimsClosed, Closed, shareVars
  <2>1. CASE s = t /\ v = u
    <3>1. userClaims'[s][v] = n
      BY <2>1 DEF IInv, TypeOK
    <3> QED BY <3>1, <2>1, <1>2, <1>3
  <2>2. CASE ~(s = t /\ v = u)
    <3>1. userClaims'[s][v] = userClaims[s][v]
      BY <2>2 DEF IInv, TypeOK
    <3> QED BY <3>1 DEF IInv, ClaimsClosed, Closed
  <2> QED BY <2>1, <2>2
<1> QED BY <1>4, <1>5 DEF IInv

\* getReward moves an account through closed epochs only.
LEMMA ClaimKeepsIInv ==
  ASSUME IInv, NEW t \in RewardTokens, NEW u \in Accounts, NEW from \in Nat, ClaimFrom(u, t, from)
  PROVE  IInv'
<1> DEFINE n == ClaimedUpTo(t, from)
           claimable == AllClaimable(u, t, from)
<1>1. n \in 1..Len(rewardEpochs[t]) /\ Closed(rewardEpochs[t][n])
  BY PaidClaimStopsAtClosed DEF IInv, ClaimFrom
<1>2. claimable \in Int
  <2> DEFINE f == [i \in 1..Len(rewardEpochs[t]) |->
                     IF i > from /\ Closed(rewardEpochs[t][i])
                     THEN ClaimableAtEpoch(u, t, rewardEpochs[t][i]) ELSE 0]
  <2>1. \A i \in 1..Len(rewardEpochs[t]) : f[i] \in Int
    BY ShareAssumption DEF ClaimableAtEpoch, IInv, TypeOK
  <2>2. Len(rewardEpochs[t]) \in Nat
    BY DEF IInv, TypeOK
  <2>3. claimable = SumTo(f, Len(rewardEpochs[t])) - SumTo(f, 0)
    BY DEF AllClaimable, SumBetween
  <2> HIDE DEF f, claimable
  <2> QED BY <2>1, <2>2, <2>3, SumToUnfold, SumToZero
<1>3. claimable \in Nat /\ claimable <= pot[t] /\ n \in Nat
  BY <1>1, <1>2 DEF ClaimFrom
<1>4. /\ userClaims' = [userClaims EXCEPT ![t][u] = n]
      /\ pot' = [pot EXCEPT ![t] = @ - claimable]
      /\ paid' = [paid EXCEPT ![t][u] = @ + claimable]
      /\ UNCHANGED <<shareVars, canAddReward, rewardData, rewardEpochs, funds>>
  BY DEF ClaimFrom
<1> HIDE DEF n, claimable
<1>5. TypeOK'
  <2>1. userClaims' \in [RewardTokens -> [Accounts -> Nat]]
    BY <1>3, <1>4 DEF IInv, TypeOK
  <2>2. pot' \in [RewardTokens -> Nat]
    BY <1>3, <1>4 DEF IInv, TypeOK
  <2>3. paid' \in [RewardTokens -> [Accounts -> Nat]]
    BY <1>3, <1>4 DEF IInv, TypeOK
  <2> QED BY <1>4, <2>1, <2>2, <2>3 DEF IInv, TypeOK, shareVars
<1> QED BY <1>1, <1>4, <1>5, MovingOnKeepsIInv

\* So does forfeitRewards.
LEMMA ForfeitKeepsIInv ==
  ASSUME IInv, NEW t \in RewardTokens, NEW u \in Accounts, NEW index \in Nat,
         ForfeitRewards(u, t, index)
  PROVE  IInv'
<1> DEFINE n == Len(rewardEpochs[t])
<1>1. n \in Nat /\ index + 1 \in 1..n /\ index + 1 < n /\ n \in 1..n
  <2>1. n \in Nat
    BY Ranges DEF IInv
  <2>2. index > 0 /\ index < n - 1
    BY DEF ForfeitRewards
  <2> HIDE DEF n
  <2> QED BY <2>1, <2>2
<1>2. rewardEpochs[t][index + 1] < rewardEpochs[t][n] /\ rewardEpochs[t][n] <= latest
  BY <1>1 DEF IInv, EpochsInOrder
<1>3. latest \in Nat /\ rewardEpochs[t][index + 1] \in Nat /\ rewardEpochs[t][n] \in Nat
  BY <1>1, Ranges DEF IInv
<1>4. Closed(rewardEpochs[t][index + 1])
  BY <1>2, <1>3 DEF Closed
<1>5. TypeOK'
  <2>1. index + 1 \in Nat
    OBVIOUS
  <2>2. userClaims' \in [RewardTokens -> [Accounts -> Nat]]
    BY <2>1 DEF ForfeitRewards, IInv, TypeOK
  <2> QED BY <2>2 DEF ForfeitRewards, IInv, TypeOK, shareVars
<1> QED BY <1>1, <1>4, <1>5, MovingOnKeepsIInv DEF ForfeitRewards

\* modifyWhitelist touches no reward.
LEMMA WhitelistKeepsIInv ==
  ASSUME IInv, NEW depositor \in Depositors, NEW canAdd \in BOOLEAN,
         ModifyWhitelist(depositor, canAdd)
  PROVE  IInv'
<1>1. TypeOK'
  BY DEF ModifyWhitelist, IInv, TypeOK, shareVars
<1>2. EpochsInOrder' /\ ClaimsClosed'
  BY DEF ModifyWhitelist, IInv, EpochsInOrder, ClaimsClosed, Closed, shareVars
<1> QED BY <1>1, <1>2 DEF IInv

\* There are no rewards at first.
LEMMA InitIInv == Init => IInv
<1> SUFFICES ASSUME Init PROVE IInv
  OBVIOUS
<1>1. TypeOK
  BY ShareAssumption DEF Init, ShareInit, TypeOK, Epochs
<1>2. EpochsInOrder /\ ClaimsClosed
  BY DEF Init, EpochsInOrder, ClaimsClosed, Closed
<1> QED BY <1>1, <1>2 DEF IInv

\* Every step of the distributor and of the locker keeps the invariant.
LEMMA NextKeepsIInv == IInv /\ [Next]_vars => IInv'
<1> SUFFICES ASSUME IInv, [Next]_vars PROVE IInv'
  OBVIOUS
<1>1. CASE LockerStep
  BY <1>1, LockerKeepsIInv
<1>2. ASSUME NEW depositor \in Depositors, NEW canAdd \in BOOLEAN, ModifyWhitelist(depositor, canAdd)
      PROVE  IInv'
  BY <1>2, WhitelistKeepsIInv
<1>3. ASSUME NEW t \in RewardTokens, NEW depositor \in Depositors, NEW amount \in 1..funds[t],
             NEW e \in Epochs, AddRewardToEpoch(depositor, t, amount, e)
      PROVE  IInv'
  BY <1>3, AddKeepsIInv
<1>4. ASSUME NEW t \in RewardTokens, NEW u \in Accounts, GetReward(u, t) PROVE IInv'
  <2>1. userClaims[t][u] \in Nat
    BY DEF IInv, TypeOK
  <2> QED BY <1>4, <2>1, ClaimKeepsIInv DEF GetReward
<1>5. ASSUME NEW t \in RewardTokens, NEW u \in Accounts, NEW startIndex \in 0..Len(rewardEpochs[t]),
             GetRewardFromIndex(u, t, startIndex)
      PROVE  IInv'
  <2>1. userClaims[t][u] \in Nat /\ startIndex \in Nat
    BY DEF IInv, TypeOK
  <2> QED BY <1>5, <2>1, ClaimKeepsIInv DEF GetRewardFromIndex
<1>6. ASSUME NEW t \in RewardTokens, NEW u \in Accounts, NEW index \in 0..Len(rewardEpochs[t]),
             ForfeitRewards(u, t, index)
      PROVE  IInv'
  BY <1>6, ForfeitKeepsIInv
<1>7. CASE UNCHANGED vars
  BY <1>7 DEF vars, shareVars, extraVars, IInv, TypeOK, EpochsInOrder, ClaimsClosed, Closed
<1> QED BY <1>1, <1>2, <1>3, <1>4, <1>5, <1>6, <1>7 DEF Next

----------------------------------------------------------------------------------
(* Reachable states, and rewards in reach *)

\* Every reachable state satisfies the inductive invariant.
THEOREM Invariance == Spec => []IInv
<1>1. Init => IInv
  BY InitIInv
<1>2. IInv /\ [Next]_vars => IInv'
  BY NextKeepsIInv
<1> QED BY <1>1, <1>2, PTL DEF Spec

\* _addReward never adds to an epoch that some account's claims have passed, so no
\* reward is out of reach when it is added.
THEOREM RewardsInReach == Spec => NoRewardBehindClaims
<1> DEFINE InReach == \A t \in RewardTokens, e \in Epochs :
                        rewardData'[t][e] # rewardData[t][e]
                          => \A u \in Accounts : \A i \in 1..userClaims[t][u] : rewardEpochs[t][i] < e
<1>1. IInv /\ [Next]_vars => [InReach]_vars
  <2> SUFFICES ASSUME IInv, Next, NEW t \in RewardTokens, NEW e \in Epochs,
                      rewardData'[t][e] # rewardData[t][e],
                      NEW u \in Accounts, NEW i \in 1..userClaims[t][u]
               PROVE  rewardEpochs[t][i] < e
    BY DEF InReach
  <2>1. PICK depositor \in Depositors, s \in RewardTokens : \E amount \in 1..funds[s], d \in Epochs :
          AddRewardToEpoch(depositor, s, amount, d)
    BY DEF Next, LockerStep, extraVars, ModifyWhitelist, GetReward, GetRewardFromIndex, ClaimFrom,
           ForfeitRewards
  <2>2. PICK amount \in 1..funds[s], d \in Epochs : AddRewardToEpoch(depositor, s, amount, d)
    BY <2>1
  <2>3. s = t /\ d = e
    BY <2>2 DEF AddRewardToEpoch, IInv, TypeOK
  <2>4. /\ rewardEpochs[t][i] < latest /\ i \in 1..Len(rewardEpochs[t])
        /\ Len(rewardEpochs[t]) \in 1..Len(rewardEpochs[t])
    <3>1. Len(rewardEpochs[t]) \in Nat /\ userClaims[t][u] \in Nat
      BY Ranges DEF IInv, TypeOK
    <3>2. userClaims[t][u] <= Len(rewardEpochs[t]) /\ rewardEpochs[t][i] < latest
      BY DEF IInv, ClaimsClosed, Closed
    <3> QED BY <3>1, <3>2
  <2>5. /\ latest \in Nat /\ epoch \in Nat /\ latest <= epoch /\ e \in Nat
        /\ rewardEpochs[t][i] \in Nat /\ rewardEpochs[t][Len(rewardEpochs[t])] \in Nat
    BY <2>4, Ranges, ShareAssumption DEF IInv, Epochs
  <2>6. CASE e = epoch
    BY <2>4, <2>5, <2>6
  <2>7. CASE NewestRewardEpoch(t) < e
    <3>1. rewardEpochs[t][Len(rewardEpochs[t])] < e
      BY <2>4, <2>7 DEF NewestRewardEpoch
    <3>2. i = Len(rewardEpochs[t]) \/ rewardEpochs[t][i] < rewardEpochs[t][Len(rewardEpochs[t])]
      BY <2>4 DEF IInv, EpochsInOrder
    <3> QED BY <2>5, <3>1, <3>2
  <2> QED BY <2>2, <2>3, <2>6, <2>7 DEF AddRewardToEpoch, MayAddTo
<1>2. Spec => []IInv
  BY Invariance
<1> QED BY <1>1, <1>2, PTL DEF Spec, NoRewardBehindClaims

----------------------------------------------------------------------------------
(* What the tokens of the distributor are for *)

\* What u gets from each of the epochs with rewards of t, and the products it is
\* rounded down from.
Worth(u, t) == [i \in 1..Len(rewardEpochs[t]) |-> ClaimableAtEpoch(u, t, rewardEpochs[t][i])]

Shared(u, t) ==
  [i \in 1..Len(rewardEpochs[t]) |-> shares[rewardEpochs[t][i]][u] * rewardData[t][rewardEpochs[t][i]]]

\* What u has yet to receive of t, in parts of SharePrecision and before rounding.
Due(u, t) == SumBetween(Shared(u, t), userClaims[t][u], Len(rewardEpochs[t]))

AllDue(t) == SumTo([u \in Accounts |-> Due(u, t)], NumAccounts)

\* The roundings of a claim add up, so the entitlements alone are not inductive.
DueCovered == \A t \in RewardTokens : AllDue(t) <= SharePrecision * pot[t]

\* An epoch is listed when it first gets a reward.
OnlyListed ==
  \A t \in RewardTokens, e \in Epochs :
    rewardData[t][e] # 0 => \E i \in 1..Len(rewardEpochs[t]) : rewardEpochs[t][i] = e

\* What is multiplied entry by entry is multiplied in sum.
LEMMA ScaledTail ==
  ASSUME NEW n \in Nat, NEW f, NEW g, NEW d \in Nat,
         \A i \in 1..n : f[i] \in Int /\ g[i] \in Int /\ d * f[i] <= g[i],
         NEW m \in 0..n
  PROVE  d * SumBetween(f, m, n) <= SumBetween(g, m, n)
<1> DEFINE h == [i \in 1..n |-> d * f[i]]
<1>1. \A i \in 1..n : f[i] \in Int /\ g[i] \in Int /\ h[i] \in Int /\ h[i] = d * f[i] /\ h[i] <= g[i]
  OBVIOUS
<1> HIDE DEF h
<1>2. SumBetween(h, m, n) <= SumBetween(g, m, n)
  <2>1. \A i \in (m + 1)..n : h[i] <= g[i]
    BY <1>1
  <2> QED BY <2>1, <1>1, SumBetweenMonotone
<1>3. SumTo(h, n) = d * SumTo(f, n)
  BY <1>1, SumToScale
<1>4. SumTo(h, m) = d * SumTo(f, m)
  <2>1. m \in Nat /\ \A i \in 1..m : f[i] \in Int /\ h[i] = d * f[i]
    BY <1>1
  <2> QED BY <2>1, SumToScale
<1>5. SumTo(f, n) \in Int /\ SumTo(f, m) \in Int
  <2>1. m \in Nat /\ \A i \in 1..m : f[i] \in Int
    BY <1>1
  <2> QED BY <2>1, <1>1, SumToUnfold
<1>6. d * (SumTo(f, n) - SumTo(f, m)) = d * SumTo(f, n) - d * SumTo(f, m)
  BY <1>5, Distributes
<1>7. SumBetween(h, m, n) = d * SumBetween(f, m, n)
  BY <1>3, <1>4, <1>6 DEF SumBetween
<1> QED BY <1>2, <1>7

\* When the last entry grows, or one is appended, so does the sum from any entry on.
LEMMA TailGrows ==
  ASSUME NEW n \in Nat, NEW k \in Nat, k = n \/ k = n + 1, NEW f, NEW g,
         \A i \in 1..n : f[i] \in Int, \A i \in 1..k : g[i] \in Int,
         \A i \in 1..k : i < k => g[i] = f[i],
         NEW m \in 0..n, m < k
  PROVE  /\ k = n => SumBetween(g, m, k) = SumBetween(f, m, n) + g[k] - f[n]
         /\ k = n + 1 => SumBetween(g, m, k) = SumBetween(f, m, n) + g[k]
<1>0. k - 1 \in Nat /\ m \in Nat
  OBVIOUS
<1>1. SumTo(g, k) = SumTo(g, k - 1) + g[k] /\ SumTo(g, k) \in Int
  <2>1. k > 0
    OBVIOUS
  <2> QED BY <2>1, SumToUnfold
<1>2. SumTo(g, k - 1) = SumTo(f, k - 1)
  <2>1. \A i \in 1..(k - 1) : f[i] \in Int /\ g[i] = f[i]
    OBVIOUS
  <2> QED BY <2>1, <1>0, SumToCongruence
<1>3. SumTo(g, m) = SumTo(f, m) /\ SumTo(f, m) \in Int
  <2>1. \A i \in 1..m : f[i] \in Int /\ g[i] = f[i]
    OBVIOUS
  <2> QED BY <2>1, <1>0, SumToCongruence, SumToUnfold
<1>4. SumTo(f, k - 1) \in Int
  <2>1. \A i \in 1..(k - 1) : f[i] \in Int
    OBVIOUS
  <2> QED BY <2>1, <1>0, SumToUnfold
<1>5. CASE k = n
  <2>1. SumTo(f, n) = SumTo(f, n - 1) + f[n] /\ f[n] \in Int
    <3>1. n > 0
      BY <1>5
    <3> QED BY <3>1, SumToUnfold
  <2> QED BY <1>1, <1>2, <1>3, <1>4, <1>5, <2>1 DEF SumBetween
<1>6. CASE k = n + 1
  <2>1. g[k] \in Int
    OBVIOUS
  <2> QED BY <1>1, <1>2, <1>3, <1>4, <1>6, <2>1 DEF SumBetween
<1> QED BY <1>5, <1>6

\* What an account gets from an epoch is what it shares in, rounded down.
LEMMA EntryFacts ==
  ASSUME IInv, NEW t \in RewardTokens, NEW u \in Accounts
  PROVE  /\ Len(rewardEpochs[t]) \in Nat /\ userClaims[t][u] \in 0..Len(rewardEpochs[t])
         /\ \A e \in Epochs : /\ shares[e][u] \in Nat /\ rewardData[t][e] \in Nat
                              /\ shares[e][u] * rewardData[t][e] \in Nat
                              /\ ClaimableAtEpoch(u, t, e) \in Nat
         /\ \A i \in 1..Len(rewardEpochs[t]) :
              /\ rewardEpochs[t][i] \in Epochs
              /\ Shared(u, t)[i] = shares[rewardEpochs[t][i]][u] * rewardData[t][rewardEpochs[t][i]]
              /\ Worth(u, t)[i] = ClaimableAtEpoch(u, t, rewardEpochs[t][i])
              /\ Shared(u, t)[i] \in Nat /\ Worth(u, t)[i] \in Nat
              /\ SharePrecision * Worth(u, t)[i] <= Shared(u, t)[i]
<1>1. Len(rewardEpochs[t]) \in Nat /\ rewardEpochs[t] \in Seq(Epochs) /\ userClaims[t][u] \in Nat
      /\ userClaims[t][u] <= Len(rewardEpochs[t])
  BY DEF IInv, TypeOK, ClaimsClosed
<1>2. SharePrecision \in Nat /\ SharePrecision > 0
  BY ShareAssumption
<1>3. ASSUME NEW e \in Epochs
      PROVE  /\ shares[e][u] \in Nat /\ rewardData[t][e] \in Nat
             /\ shares[e][u] * rewardData[t][e] \in Nat
             /\ ClaimableAtEpoch(u, t, e) \in Nat
             /\ SharePrecision * ClaimableAtEpoch(u, t, e) <= shares[e][u] * rewardData[t][e]
  <2>1. shares[e][u] \in Nat /\ rewardData[t][e] \in Nat
    BY DEF IInv, TypeOK
  <2>2. shares[e][u] * rewardData[t][e] \in Nat
    BY <2>1, MulNat
  <2> QED BY <2>1, <2>2, <1>2, DivRoundsDown DEF ClaimableAtEpoch
<1>4. ASSUME NEW i \in 1..Len(rewardEpochs[t]) PROVE rewardEpochs[t][i] \in Epochs
  BY <1>1
<1>5. ASSUME NEW i \in 1..Len(rewardEpochs[t])
      PROVE  /\ Shared(u, t)[i] = shares[rewardEpochs[t][i]][u] * rewardData[t][rewardEpochs[t][i]]
             /\ Worth(u, t)[i] = ClaimableAtEpoch(u, t, rewardEpochs[t][i])
  BY DEF Shared, Worth
<1>6. ASSUME NEW i \in 1..Len(rewardEpochs[t])
      PROVE  /\ rewardEpochs[t][i] \in Epochs
             /\ Shared(u, t)[i] = shares[rewardEpochs[t][i]][u] * rewardData[t][rewardEpochs[t][i]]
             /\ Worth(u, t)[i] = ClaimableAtEpoch(u, t, rewardEpochs[t][i])
             /\ Shared(u, t)[i] \in Nat /\ Worth(u, t)[i] \in Nat
             /\ SharePrecision * Worth(u, t)[i] <= Shared(u, t)[i]
  <2> DEFINE e == rewardEpochs[t][i]
  <2>1. e \in Epochs
    BY <1>4
  <2> HIDE DEF e
  <2>2. /\ shares[e][u] * rewardData[t][e] \in Nat /\ ClaimableAtEpoch(u, t, e) \in Nat
        /\ SharePrecision * ClaimableAtEpoch(u, t, e) <= shares[e][u] * rewardData[t][e]
    BY <1>3, <2>1
  <2>3. Shared(u, t)[i] = shares[e][u] * rewardData[t][e] /\ Worth(u, t)[i] = ClaimableAtEpoch(u, t, e)
    BY <1>5 DEF e
  <2>4. Shared(u, t)[i] \in Nat /\ Worth(u, t)[i] \in Nat /\ SharePrecision * Worth(u, t)[i] <= Shared(u, t)[i]
    BY <2>2, <2>3
  <2> QED BY <2>1, <2>3, <2>4 DEF e
<1>7. userClaims[t][u] \in 0..Len(rewardEpochs[t])
  BY <1>1
<1>8. \A e \in Epochs : /\ shares[e][u] \in Nat /\ rewardData[t][e] \in Nat
                       /\ shares[e][u] * rewardData[t][e] \in Nat
                       /\ ClaimableAtEpoch(u, t, e) \in Nat
  BY <1>3
<1> QED BY <1>1, <1>6, <1>7, <1>8

\* What is due covers what an account is entitled to.
LEMMA EntitledIsDue ==
  ASSUME IInv, NEW t \in RewardTokens, NEW u \in Accounts
  PROVE  Entitled(u, t) \in Nat /\ Due(u, t) \in Nat /\ SharePrecision * Entitled(u, t) <= Due(u, t)
<1> DEFINE n == Len(rewardEpochs[t])
           m == userClaims[t][u]
           f == Worth(u, t)
           g == Shared(u, t)
<1>1. /\ n \in Nat /\ m \in 0..n
      /\ \A i \in 1..n : f[i] \in Nat /\ g[i] \in Nat /\ SharePrecision * f[i] <= g[i]
  BY EntryFacts
<1>2. SharePrecision \in Nat
  BY ShareAssumption
<1>3. Entitled(u, t) = SumBetween(f, m, n) /\ Due(u, t) = SumBetween(g, m, n)
  BY DEF Entitled, Due, Worth
<1> HIDE DEF n, m, f, g
<1>4. SumBetween(f, m, n) \in Nat /\ SumBetween(g, m, n) \in Nat
  <2>1. n \in m..n
    BY <1>1
  <2>2. m \in m..n /\ \A i \in 1..n : f[i] \in Int /\ g[i] \in Int
    BY <1>1
  <2> QED BY <1>1, <2>1, <2>2, SumBetweenSplit
<1>5. SharePrecision * SumBetween(f, m, n) <= SumBetween(g, m, n)
  <2>1. \A i \in 1..n : f[i] \in Int /\ g[i] \in Int
    BY <1>1
  <2> QED BY <1>1, <1>2, <2>1, ScaledTail
<1> QED BY <1>3, <1>4, <1>5

\* So the debts being covered, the entitlements are.
LEMMA DueIsEnough == IInv /\ DueCovered => EntitlementsCovered
<1> SUFFICES ASSUME IInv, DueCovered, NEW t \in RewardTokens
             PROVE  SumTo([u \in Accounts |-> Entitled(u, t)], NumAccounts) <= pot[t]
  BY DEF EntitlementsCovered
<1> DEFINE f == [u \in Accounts |-> Entitled(u, t)]
           g == [u \in Accounts |-> Due(u, t)]
<1>1. /\ NumAccounts \in Nat /\ SharePrecision \in Nat /\ SharePrecision > 0 /\ pot[t] \in Nat
      /\ 0 \in 0..NumAccounts
  BY ShareAssumption DEF IInv, TypeOK
<1>2. \A u \in 1..NumAccounts : f[u] \in Int /\ g[u] \in Int /\ SharePrecision * f[u] <= g[u]
  BY EntitledIsDue DEF Accounts
<1>3. SumTo(g, NumAccounts) <= SharePrecision * pot[t]
  BY DEF DueCovered, AllDue
<1> HIDE DEF f, g
<1>4. SharePrecision * SumBetween(f, 0, NumAccounts) <= SumBetween(g, 0, NumAccounts)
  BY <1>1, <1>2, ScaledTail
<1>5. SumTo(f, NumAccounts) \in Int /\ SumTo(g, NumAccounts) \in Int
  BY <1>1, <1>2, SumToUnfold
<1>6. SumTo(f, 0) = 0 /\ SumTo(g, 0) = 0
  BY SumToZero
<1>7. SharePrecision * SumTo(f, NumAccounts) <= SumTo(g, NumAccounts)
  BY <1>4, <1>5, <1>6 DEF SumBetween
<1>8. SharePrecision * SumTo(f, NumAccounts) <= SharePrecision * pot[t]
  <2>1. SharePrecision * SumTo(f, NumAccounts) \in Int /\ SharePrecision * pot[t] \in Int
    BY <1>1, <1>5
  <2> QED BY <2>1, <1>3, <1>5, <1>7
<1>9. SumTo(f, NumAccounts) <= pot[t]
  BY <1>1, <1>5, <1>8, MulCancels
<1> QED BY <1>9 DEF f

\* What an account gets from the epochs changes with the rewards and its shares only.
LEMMA EntriesKept ==
  ASSUME NEW t \in RewardTokens, NEW u \in Accounts, rewardEpochs'[t] = rewardEpochs[t],
         \A i \in 1..Len(rewardEpochs[t]) :
           /\ shares'[rewardEpochs[t][i]][u] = shares[rewardEpochs[t][i]][u]
           /\ rewardData'[t][rewardEpochs[t][i]] = rewardData[t][rewardEpochs[t][i]]
  PROVE  Worth(u, t)' = Worth(u, t) /\ Shared(u, t)' = Shared(u, t)
BY DEF Worth, Shared, ClaimableAtEpoch

\* The sums of an account before and after a step.
LEMMA SumsOfEntries ==
  ASSUME NEW t \in RewardTokens, NEW u \in Accounts
  PROVE  /\ Entitled(u, t) = SumBetween(Worth(u, t), userClaims[t][u], Len(rewardEpochs[t]))
         /\ Due(u, t) = SumBetween(Shared(u, t), userClaims[t][u], Len(rewardEpochs[t]))
         /\ Entitled(u, t)' = SumBetween(Worth(u, t)', userClaims'[t][u], Len(rewardEpochs'[t]))
         /\ Due(u, t)' = SumBetween(Shared(u, t)', userClaims'[t][u], Len(rewardEpochs'[t]))
BY DEF Entitled, Due, Worth

\* An account that moves on from m to n gives up what lies between.
LEMMA MovingOn ==
  ASSUME IInv, NEW t \in RewardTokens, NEW u \in Accounts,
         UNCHANGED <<shares, rewardData, rewardEpochs>>,
         userClaims'[t][u] \in userClaims[t][u]..Len(rewardEpochs[t])
  PROVE  /\ Due(u, t) = SumBetween(Shared(u, t), userClaims[t][u], userClaims'[t][u]) + Due(u, t)'
         /\ Entitled(u, t) = SumBetween(Worth(u, t), userClaims[t][u], userClaims'[t][u]) + Entitled(u, t)'
         /\ SumBetween(Shared(u, t), userClaims[t][u], userClaims'[t][u]) \in Nat
         /\ Due(u, t)' \in Nat
         /\ userClaims'[t][u] = userClaims[t][u] => Due(u, t)' = Due(u, t) /\ Entitled(u, t)' = Entitled(u, t)
<1> DEFINE len == Len(rewardEpochs[t])
           m == userClaims[t][u]
           n == userClaims'[t][u]
           f == Worth(u, t)
           g == Shared(u, t)
<1>1. /\ len \in Nat /\ m \in 0..len /\ \A i \in 1..len : f[i] \in Nat /\ g[i] \in Nat
  BY EntryFacts
<1>2. Worth(u, t)' = f /\ Shared(u, t)' = g
  BY EntriesKept
<1>3. /\ Entitled(u, t) = SumBetween(f, m, len) /\ Due(u, t) = SumBetween(g, m, len)
      /\ Entitled(u, t)' = SumBetween(f, n, len) /\ Due(u, t)' = SumBetween(g, n, len)
  BY <1>2, SumsOfEntries
<1>4. n \in m..len
  OBVIOUS
<1> HIDE DEF len, m, n, f, g
<1>5. \A i \in 1..len : f[i] \in Int /\ g[i] \in Int
  BY <1>1
<1>6. /\ SumBetween(f, m, len) = SumBetween(f, m, n) + SumBetween(f, n, len)
      /\ SumBetween(g, m, len) = SumBetween(g, m, n) + SumBetween(g, n, len)
      /\ SumBetween(g, m, n) \in Nat /\ SumBetween(g, n, len) \in Nat
  BY <1>1, <1>4, <1>5, SumBetweenSplit
<1>7. n = m => Due(u, t)' = Due(u, t) /\ Entitled(u, t)' = Entitled(u, t)
  BY <1>3
<1> QED BY <1>3, <1>6, <1>7 DEF m, n, f, g

\* A claim pays what the epochs between the index it starts from and the one it
\* comes to are worth.
LEMMA ClaimIsWorth ==
  ASSUME IInv, NEW t \in RewardTokens, NEW u \in Accounts, NEW from \in Nat,
         AllClaimable(u, t, from) > 0
  PROVE  /\ ClaimedUpTo(t, from) \in from..Len(rewardEpochs[t]) /\ from <= Len(rewardEpochs[t])
         /\ AllClaimable(u, t, from) = SumBetween(Worth(u, t), from, ClaimedUpTo(t, from))
<1> DEFINE len == Len(rewardEpochs[t])
           n == ClaimedUpTo(t, from)
           f == Worth(u, t)
           h == [i \in 1..len |-> IF i > from /\ Closed(rewardEpochs[t][i])
                                  THEN ClaimableAtEpoch(u, t, rewardEpochs[t][i]) ELSE 0]
<1>1. /\ len \in Nat /\ n \in 1..len /\ from < n /\ Closed(rewardEpochs[t][n])
      /\ \A i \in 1..len : n < i => ~Closed(rewardEpochs[t][i])
  BY PaidClaimStopsAtClosed, EntryFacts DEF IInv
<1>2. \A i \in 1..len : f[i] \in Nat /\ f[i] = ClaimableAtEpoch(u, t, rewardEpochs[t][i])
  BY EntryFacts
<1>3. \A i \in 1..n : Closed(rewardEpochs[t][i])
  <2>1. /\ latest \in Nat /\ \A i \in 1..len : rewardEpochs[t][i] \in Nat
        /\ \A i, j \in 1..len : i < j => rewardEpochs[t][i] < rewardEpochs[t][j]
    BY Ranges DEF IInv, EpochsInOrder
  <2> QED BY <1>1, <2>1 DEF Closed
<1>4. AllClaimable(u, t, from) = SumBetween(h, 0, len)
  BY DEF AllClaimable
<1>5. /\ \A i \in 1..len : h[i] \in Int
      /\ \A i \in 1..from : h[i] = 0
      /\ \A i \in (n + 1)..len : h[i] = 0
      /\ \A i \in (from + 1)..n : f[i] = h[i]
  <2>1. \A i \in 1..len : h[i] \in Int
    BY <1>2
  <2>2. \A i \in 1..from : h[i] = 0
    BY <1>1
  <2>3. \A i \in (n + 1)..len : h[i] = 0
    BY <1>1
  <2>4. \A i \in (from + 1)..n : f[i] = h[i]
    BY <1>1, <1>2, <1>3
  <2> QED BY <2>1, <2>2, <2>3, <2>4
<1> HIDE DEF len, n, f, h
<1>6. SumTo(h, n) = SumTo(h, len)
  <2>1. n \in 0..len
    BY <1>1
  <2> QED BY <2>1, <1>1, <1>5, SumOfHead
<1>7. SumBetween(f, from, n) = SumTo(h, n)
  <2>1. n \in Nat /\ from \in 0..n /\ \A i \in 1..n : f[i] \in Int /\ h[i] \in Int
    BY <1>1, <1>2, <1>5
  <2> QED BY <2>1, <1>5, SumOfTail
<1>8. SumBetween(h, 0, len) = SumTo(h, len)
  <2>1. SumTo(h, 0) = 0 /\ SumTo(h, len) \in Int
    BY <1>1, <1>5, SumToUnfold
  <2> QED BY <2>1 DEF SumBetween
<1>9. n \in from..len /\ from <= len
  BY <1>1
<1> QED BY <1>4, <1>6, <1>7, <1>8, <1>9 DEF len, n, f

\* What is due shrinks by at least what a claim pays, what an account is entitled to
\* by exactly that when the claim skips nothing.
LEMMA ClaimSettles ==
  ASSUME IInv, NEW t \in RewardTokens, NEW u \in Accounts, NEW from \in Nat,
         userClaims[t][u] <= from, ClaimFrom(u, t, from)
  PROVE  /\ AllClaimable(u, t, from) \in Nat /\ Due(u, t)' \in Nat
         /\ Due(u, t)' + SharePrecision * AllClaimable(u, t, from) <= Due(u, t)
         /\ from = userClaims[t][u] =>
              Entitled(u, t) = AllClaimable(u, t, from) + Entitled(u, t)'
<1> DEFINE m == userClaims[t][u]
           n == ClaimedUpTo(t, from)
           f == Worth(u, t)
           g == Shared(u, t)
           paying == AllClaimable(u, t, from)
<1>1. /\ n \in from..Len(rewardEpochs[t]) /\ from <= Len(rewardEpochs[t])
      /\ paying = SumBetween(f, from, n)
  BY ClaimIsWorth DEF ClaimFrom
<1>2. userClaims'[t][u] = n /\ UNCHANGED <<shares, rewardData, rewardEpochs>>
  BY DEF ClaimFrom, shareVars, IInv, TypeOK
<1>3. m \in Nat /\ n \in Nat /\ n \in m..Len(rewardEpochs[t]) /\ from \in m..n /\ Len(rewardEpochs[t]) \in Nat
  <2>1. m \in Nat /\ Len(rewardEpochs[t]) \in Nat
    BY EntryFacts
  <2> HIDE DEF n, m
  <2> QED BY <2>1, <1>1 DEF m
<1>4. /\ Due(u, t) = SumBetween(g, m, n) + Due(u, t)'
      /\ Entitled(u, t) = SumBetween(f, m, n) + Entitled(u, t)'
      /\ Due(u, t)' \in Nat
  BY <1>2, <1>3, MovingOn
<1>5. \A i \in 1..n : f[i] \in Nat /\ g[i] \in Nat /\ SharePrecision * f[i] <= g[i]
                      /\ f[i] \in Int /\ g[i] \in Int
  <2>1. \A i \in 1..Len(rewardEpochs[t]) : f[i] \in Nat /\ g[i] \in Nat /\ SharePrecision * f[i] <= g[i]
    BY EntryFacts
  <2> HIDE DEF n, f, g
  <2> QED BY <2>1, <1>3
<1> HIDE DEF m, n, f, g
<1>6. /\ SumBetween(g, m, n) = SumBetween(g, m, from) + SumBetween(g, from, n)
      /\ SumBetween(g, m, from) \in Nat /\ SumBetween(g, from, n) \in Nat
  <2>1. m \in 0..n
    BY <1>3
  <2> QED BY <2>1, <1>3, <1>5, SumBetweenSplit
<1>7. paying \in Nat
  <2>1. from \in 0..n /\ n \in from..n
    BY <1>3
  <2> QED BY <2>1, <1>1, <1>3, <1>5, SumBetweenSplit
<1>8. SharePrecision * paying <= SumBetween(g, from, n)
  <2>1. from \in 0..n /\ SharePrecision \in Nat
    BY <1>3, ShareAssumption
  <2> QED BY <2>1, <1>1, <1>3, <1>5, ScaledTail
<1>9. SharePrecision * paying \in Nat
  BY <1>7, ShareAssumption, MulNat
<1> HIDE DEF paying
<1>10. Due(u, t)' + SharePrecision * paying <= Due(u, t)
  BY <1>4, <1>6, <1>8, <1>9
<1>11. from = m => Entitled(u, t) = paying + Entitled(u, t)'
  BY <1>1, <1>4
<1> QED BY <1>4, <1>7, <1>10, <1>11 DEF paying, m

\* What one more share per unit adds to a product.
LEMMA AddedProduct ==
  ASSUME NEW s \in Nat, NEW r \in Nat, NEW more \in Nat
  PROVE  s * (r + more) = s * r + more * s /\ s * (r + more) \in Nat /\ more * s \in Nat
<1>1. s * (r + more) = s * r + s * more
  BY Distributes
<1>2. s * more = more * s /\ s * more \in Nat /\ s * r \in Nat
  OBVIOUS
<1> QED BY <1>1, <1>2

\* What an addition lists: its epoch is the last one, is there once, and is open to
\* every account.
LEMMA AddLists ==
  ASSUME IInv, IInv', OnlyListed, NEW depositor, NEW t \in RewardTokens, NEW amount \in 1..funds[t],
         NEW e \in Epochs, AddRewardToEpoch(depositor, t, amount, e)
  PROVE  /\ \/ Len(rewardEpochs'[t]) = Len(rewardEpochs[t])
            \/ Len(rewardEpochs'[t]) = Len(rewardEpochs[t]) + 1 /\ rewardData[t][e] = 0
         /\ Len(rewardEpochs'[t]) > 0 /\ rewardEpochs'[t][Len(rewardEpochs'[t])] = e
         /\ \A i \in 1..Len(rewardEpochs[t]) : rewardEpochs'[t][i] = rewardEpochs[t][i]
         /\ \A i \in 1..Len(rewardEpochs'[t]) : i < Len(rewardEpochs'[t]) => rewardEpochs'[t][i] # e
         /\ \A u \in Accounts : userClaims[t][u] < Len(rewardEpochs'[t])
<1> DEFINE n == Len(rewardEpochs[t])
           k == Len(rewardEpochs'[t])
<1>1. /\ epoch \in Nat /\ latest \in Nat /\ latest <= epoch /\ e \in Nat
      /\ rewardEpochs[t] \in Seq(Epochs) /\ n \in Nat
      /\ \A i \in 1..n : rewardEpochs[t][i] \in Nat /\ rewardEpochs[t][i] <= latest
      /\ \A i, j \in 1..n : i < j => rewardEpochs[t][i] < rewardEpochs[t][j]
      /\ Epochs \subseteq Nat
  <2>1. /\ epoch \in Nat /\ latest \in Nat /\ latest <= epoch /\ e \in Nat /\ Epochs \subseteq Nat
    BY Ranges, ShareAssumption DEF IInv, Epochs
  <2>2. /\ rewardEpochs[t] \in Seq(Epochs) /\ n \in Nat
        /\ \A i \in 1..n : rewardEpochs[t][i] \in Nat
    BY Ranges DEF IInv
  <2>3. \A i \in 1..n : rewardEpochs[t][i] <= latest
    BY DEF IInv, EpochsInOrder
  <2>4. \A i, j \in 1..n : i < j => rewardEpochs[t][i] < rewardEpochs[t][j]
    BY DEF IInv, EpochsInOrder
  <2> QED BY <2>1, <2>2, <2>3, <2>4
<1>2. rewardEpochs'[t] = IF NewestRewardEpoch(t) < e THEN Append(rewardEpochs[t], e) ELSE rewardEpochs[t]
  BY DEF AddRewardToEpoch, IInv, TypeOK
<1>3. ASSUME NEW u \in Accounts
      PROVE  /\ userClaims[t][u] \in Nat /\ userClaims[t][u] <= n
             /\ \A i \in 1..userClaims[t][u] : rewardEpochs[t][i] < latest
  BY DEF IInv, TypeOK, ClaimsClosed, Closed
<1>4. CASE NewestRewardEpoch(t) < e
  <2>1. k = n + 1 /\ rewardEpochs'[t][k] = e /\ \A i \in 1..n : rewardEpochs'[t][i] = rewardEpochs[t][i]
    BY <1>1, <1>2, <1>4
  <2>2. \A i \in 1..n : rewardEpochs[t][i] < e
    <3> SUFFICES ASSUME NEW i \in 1..n PROVE rewardEpochs[t][i] < e
      OBVIOUS
    <3>1. rewardEpochs[t] # <<>> /\ n \in 1..n
      BY <1>1
    <3>2. rewardEpochs[t][n] < e
      BY <1>4, <3>1 DEF NewestRewardEpoch
    <3>3. i = n \/ rewardEpochs[t][i] < rewardEpochs[t][n]
      BY <1>1, <3>1
    <3>4. rewardEpochs[t][i] \in Nat /\ rewardEpochs[t][n] \in Nat
      BY <1>1, <3>1
    <3> QED BY <1>1, <3>2, <3>3, <3>4
  <2>3. \A i \in 1..n : rewardEpochs[t][i] # e
    BY <1>1, <2>2
  <2>4. rewardData[t][e] = 0
    BY <2>3 DEF OnlyListed
  <2> HIDE DEF n, k
  <2>5. \A i \in 1..k : i < k => rewardEpochs'[t][i] # e
    BY <1>1, <2>1, <2>3
  <2>6. k > 0 /\ \A u \in Accounts : userClaims[t][u] < k
    BY <1>1, <1>3, <2>1
  <2> QED BY <2>1, <2>4, <2>5, <2>6 DEF n, k
<1>5. CASE ~(NewestRewardEpoch(t) < e)
  <2>1. k = n /\ rewardEpochs'[t] = rewardEpochs[t]
    BY <1>2, <1>5
  <2>2. e = epoch
    BY <1>5 DEF AddRewardToEpoch, MayAddTo
  <2>3. n > 0 /\ rewardEpochs[t][n] = e
    <3>1. rewardEpochs[t] # <<>>
      BY <1>1, <1>5 DEF NewestRewardEpoch
    <3>2. n > 0 /\ n \in 1..n
      BY <1>1, <3>1
    <3>3. ~(rewardEpochs[t][n] < e)
      BY <1>5, <3>1 DEF NewestRewardEpoch
    <3>4. rewardEpochs[t][n] <= latest /\ rewardEpochs[t][n] \in Nat
      BY <1>1, <3>2
    <3> QED BY <1>1, <2>2, <3>2, <3>3, <3>4
  <2>4. \A i \in 1..n : i < n => rewardEpochs[t][i] # e
    <3>1. n \in 1..n
      BY <1>1, <2>3
    <3>2. \A i \in 1..n : i < n => rewardEpochs[t][i] < rewardEpochs[t][n]
      BY <1>1, <3>1
    <3> QED BY <1>1, <2>3, <3>2
  <2>5. ASSUME NEW u \in Accounts PROVE userClaims[t][u] < n
    <3>1. userClaims[t][u] # n
      <4> SUFFICES ASSUME userClaims[t][u] = n PROVE FALSE
        OBVIOUS
      <4>1. rewardEpochs[t][n] < latest
        BY <1>1, <1>3, <2>3
      <4> QED BY <4>1, <1>1, <2>2, <2>3
    <3> QED BY <3>1, <1>1, <1>3
  <2> QED BY <2>1, <2>3, <2>4, <2>5
<1> QED BY <1>4, <1>5

\* What an addition is worth to an account.
LEMMA AddShares ==
  ASSUME IInv, IInv', OnlyListed, NEW depositor, NEW t \in RewardTokens, NEW amount \in 1..funds[t],
         NEW e \in Epochs, AddRewardToEpoch(depositor, t, amount, e), NEW u \in Accounts
  PROVE  /\ Due(u, t)' = Due(u, t) + RewardPerShare(amount, e) * shares[e][u]
         /\ Due(u, t)' \in Nat /\ RewardPerShare(amount, e) \in Nat
         /\ Entitled(u, t) <= Entitled(u, t)'
<1>0. /\ \/ Len(rewardEpochs'[t]) = Len(rewardEpochs[t])
         \/ Len(rewardEpochs'[t]) = Len(rewardEpochs[t]) + 1 /\ rewardData[t][e] = 0
      /\ Len(rewardEpochs'[t]) > 0 /\ rewardEpochs'[t][Len(rewardEpochs'[t])] = e
      /\ \A i \in 1..Len(rewardEpochs[t]) : rewardEpochs'[t][i] = rewardEpochs[t][i]
      /\ \A i \in 1..Len(rewardEpochs'[t]) : i < Len(rewardEpochs'[t]) => rewardEpochs'[t][i] # e
      /\ \A v \in Accounts : userClaims[t][v] < Len(rewardEpochs'[t])
  BY AddLists
<1> DEFINE n == Len(rewardEpochs[t])
           k == Len(rewardEpochs'[t])
           m == userClaims[t][u]
           f == Worth(u, t)
           g == Shared(u, t)
           f2 == Worth(u, t)'
           g2 == Shared(u, t)'
           more == RewardPerShare(amount, e)
           s == shares[e][u]
           r == rewardData[t][e]
<1>1. /\ k = n \/ (k = n + 1 /\ r = 0)
      /\ k > 0 /\ rewardEpochs'[t][k] = e /\ m < k
      /\ \A i \in 1..n : rewardEpochs'[t][i] = rewardEpochs[t][i]
      /\ \A i \in 1..k : i < k => rewardEpochs'[t][i] # e
  BY <1>0
<1>2. more \in Nat
  <2>1. Supply(e) \in Nat /\ Supply(e) > 0
    BY SupplyIsNat DEF AddRewardToEpoch, IInv, TypeOK
  <2>2. amount * SharePrecision \in Nat
    <3>1. amount \in Nat /\ SharePrecision \in Nat
      BY ShareAssumption DEF IInv, TypeOK
    <3> QED BY <3>1, MulNat
  <2> QED BY <2>1, <2>2, DivRoundsDown DEF RewardPerShare
<1>3. /\ rewardData'[t][e] = r + more /\ \A d \in Epochs : d # e => rewardData'[t][d] = rewardData[t][d]
      /\ shares' = shares /\ userClaims' = userClaims
  BY DEF AddRewardToEpoch, IInv, TypeOK
<1>4. /\ n \in Nat /\ m \in 0..n /\ s \in Nat /\ r \in Nat /\ s * r \in Nat
      /\ \A i \in 1..n : /\ rewardEpochs[t][i] \in Epochs
                         /\ g[i] = shares[rewardEpochs[t][i]][u] * rewardData[t][rewardEpochs[t][i]]
                         /\ f[i] = (shares[rewardEpochs[t][i]][u] * rewardData[t][rewardEpochs[t][i]]) \div SharePrecision
                         /\ f[i] \in Nat /\ g[i] \in Nat
  BY EntryFacts DEF ClaimableAtEpoch
<1>5. k \in Nat
  BY <1>1, <1>4
<1>6. \A i \in 1..k :
        /\ g2[i] = shares[rewardEpochs'[t][i]][u] * rewardData'[t][rewardEpochs'[t][i]]
        /\ f2[i] = (shares[rewardEpochs'[t][i]][u] * rewardData'[t][rewardEpochs'[t][i]]) \div SharePrecision
  BY <1>3 DEF Worth, Shared, ClaimableAtEpoch
<1>7. s * (r + more) = s * r + more * s /\ s * (r + more) \in Nat /\ more * s \in Nat
  <2>1. s \in Nat /\ r \in Nat
    BY <1>4
  <2> HIDE DEF s, r, more
  <2> QED BY <2>1, <1>2, AddedProduct
<1>8. /\ g2[k] = s * r + more * s
      /\ f2[k] = (s * r + more * s) \div SharePrecision
  BY <1>1, <1>3, <1>5, <1>6, <1>7
<1>9. \A i \in 1..k : i < k => g2[i] = g[i] /\ f2[i] = f[i]
  <2> SUFFICES ASSUME NEW i \in 1..k, i < k PROVE g2[i] = g[i] /\ f2[i] = f[i]
    OBVIOUS
  <2>1. i \in 1..n
    BY <1>1, <1>4
  <2>2. rewardEpochs'[t][i] = rewardEpochs[t][i] /\ rewardEpochs'[t][i] # e /\ rewardEpochs[t][i] \in Epochs
    BY <2>1, <1>1, <1>4
  <2>3. rewardData'[t][rewardEpochs'[t][i]] = rewardData[t][rewardEpochs[t][i]]
    BY <2>2, <1>3
  <2> QED BY <2>1, <2>2, <2>3, <1>4, <1>6
<1>10. /\ SharePrecision \in Nat /\ SharePrecision > 0
       /\ (s * r) \div SharePrecision \in Nat /\ (s * r + more * s) \div SharePrecision \in Nat
       /\ (s * r) \div SharePrecision <= (s * r + more * s) \div SharePrecision
  <2> DEFINE x == s * r
             y == s * r + more * s
  <2>1. SharePrecision \in Nat /\ SharePrecision > 0
    BY ShareAssumption
  <2>2. x \in Nat /\ y \in Nat /\ x <= y
    BY <1>4, <1>7
  <2> HIDE DEF x, y
  <2>3. x \div SharePrecision \in Nat /\ y \div SharePrecision \in Nat
    BY <2>1, <2>2, DivRoundsDown
  <2>4. x \div SharePrecision <= y \div SharePrecision
    BY <2>1, <2>2, DivMonotone
  <2> QED BY <2>1, <2>3, <2>4 DEF x, y
<1>11. k = n => g[n] = s * r /\ f[n] = (s * r) \div SharePrecision
  BY <1>1, <1>4
<1>12. /\ Entitled(u, t) = SumBetween(f, m, n) /\ Due(u, t) = SumBetween(g, m, n)
       /\ Entitled(u, t)' = SumBetween(f2, m, k) /\ Due(u, t)' = SumBetween(g2, m, k)
  BY <1>3, SumsOfEntries
<1>13. SumBetween(f, m, n) \in Nat /\ SumBetween(g, m, n) \in Nat
  BY <1>12, EntitledIsDue
<1>14. k = n + 1 => s * r = 0 /\ (s * r) \div SharePrecision = 0
  <2>1. 0 \div SharePrecision = 0
    BY <1>10
  <2>2. r = 0 => s * r = 0
    BY <1>4
  <2> QED BY <2>1, <2>2, <1>1
<1> DEFINE x == s * r
           y == more * s
           fx == x \div SharePrecision
           fy == (x + y) \div SharePrecision
<1>15. /\ \A i \in 1..n : f[i] \in Int /\ g[i] \in Int
       /\ \A i \in 1..k : f2[i] \in Int /\ g2[i] \in Int
  <2>1. \A i \in 1..n : f[i] \in Int /\ g[i] \in Int
    BY <1>4
  <2>2. g2[k] \in Int /\ f2[k] \in Int
    BY <1>4, <1>7, <1>8, <1>10
  <2> HIDE DEF f, g, f2, g2, n, k
  <2> QED BY <2>1, <2>2, <1>1, <1>4, <1>5, <1>9
<1>16. x \in Nat /\ y \in Nat /\ fx \in Nat /\ fy \in Nat /\ fx <= fy
       /\ g2[k] = x + y /\ f2[k] = fy /\ (k = n => g[n] = x /\ f[n] = fx)
       /\ (k = n + 1 => x = 0 /\ fx = 0)
  BY <1>4, <1>7, <1>8, <1>10, <1>11, <1>14
<1> HIDE DEF n, k, m, f, g, f2, g2, x, y, fx, fy
<1>17. /\ k = n => SumBetween(g2, m, k) = SumBetween(g, m, n) + g2[k] - g[n]
       /\ k = n + 1 => SumBetween(g2, m, k) = SumBetween(g, m, n) + g2[k]
  <2>1. k = n \/ k = n + 1
    BY <1>1
  <2>2. n \in Nat /\ k \in Nat /\ m \in 0..n /\ m < k
    BY <1>1, <1>4, <1>5
  <2>3. \A i \in 1..n : g[i] \in Int
    BY <1>15
  <2>4. \A i \in 1..k : g2[i] \in Int
    BY <1>15
  <2>5. \A i \in 1..k : i < k => g2[i] = g[i]
    BY <1>9
  <2> QED BY ONLY <2>1, <2>2, <2>3, <2>4, <2>5, TailGrows, SMTT(60)
<1>18. /\ k = n => SumBetween(f2, m, k) = SumBetween(f, m, n) + f2[k] - f[n]
       /\ k = n + 1 => SumBetween(f2, m, k) = SumBetween(f, m, n) + f2[k]
  <2>1. k = n \/ k = n + 1
    BY <1>1
  <2>2. n \in Nat /\ k \in Nat /\ m \in 0..n /\ m < k
    BY <1>1, <1>4, <1>5
  <2>3. \A i \in 1..n : f[i] \in Int
    BY <1>15
  <2>4. \A i \in 1..k : f2[i] \in Int
    BY <1>15
  <2>5. \A i \in 1..k : i < k => f2[i] = f[i]
    BY <1>9
  <2> QED BY ONLY <2>1, <2>2, <2>3, <2>4, <2>5, TailGrows, SMTT(60)
<1>19. SumBetween(g2, m, k) = SumBetween(g, m, n) + y
  BY <1>1, <1>4, <1>13, <1>16, <1>17
<1>20. SumBetween(f, m, n) <= SumBetween(f2, m, k)
  BY <1>1, <1>4, <1>13, <1>16, <1>18
<1>21. Due(u, t)' = Due(u, t) + y /\ Due(u, t)' \in Nat
  BY <1>12, <1>13, <1>16, <1>19
<1>22. Entitled(u, t) <= Entitled(u, t)'
  BY <1>12, <1>20
<1> QED BY <1>2, <1>21, <1>22 DEF y

\* Locks are shares of weeks to come, which no reward has been added to.
LEMMA LockerKeepsEntries ==
  ASSUME IInv, LockerStep
  PROVE  /\ UNCHANGED <<rewardData, rewardEpochs, userClaims, pot, paid>>
         /\ \A t \in RewardTokens, u \in Accounts :
              /\ Due(u, t)' = Due(u, t) /\ Entitled(u, t)' = Entitled(u, t)
<1>1. UNCHANGED <<rewardData, rewardEpochs, userClaims, pot, paid>>
  BY DEF LockerStep, extraVars
<1>2. ASSUME NEW e \in Epochs, e <= epoch, NEW u \in Accounts PROVE shares'[e][u] = shares[e][u]
  <2>1. epoch \in Nat /\ e \in Nat
    BY Ranges, ShareAssumption DEF IInv, Epochs
  <2>2. ASSUME NEW v \in Accounts, NEW amount \in 1..MaxLock, LockShare(v, amount)
        PROVE  shares'[e] = shares[e]
    <3>1. e \notin (epoch + 1)..(epoch + LockEpochs - 1)
      BY <1>2, <2>1
    <3> QED BY <2>2, <3>1 DEF LockShare
  <2> QED BY <2>2 DEF LockerStep, ShareNext, NextEpoch, Begin, Checkpoint
<1>3. ASSUME NEW t \in RewardTokens, NEW u \in Accounts
      PROVE  Due(u, t)' = Due(u, t) /\ Entitled(u, t)' = Entitled(u, t)
  <2>1. \A i \in 1..Len(rewardEpochs[t]) : rewardEpochs[t][i] \in Epochs /\ rewardEpochs[t][i] <= epoch
    <3>1. \A i \in 1..Len(rewardEpochs[t]) :
            /\ rewardEpochs[t][i] \in Epochs /\ rewardEpochs[t][i] \in Nat /\ rewardEpochs[t][i] <= latest
      BY EntryFacts, Ranges DEF IInv, EpochsInOrder
    <3> QED BY <3>1, Ranges DEF IInv
  <2>2. Worth(u, t)' = Worth(u, t) /\ Shared(u, t)' = Shared(u, t)
    BY <1>1, <1>2, <2>1, EntriesKept
  <2> QED BY <1>1, <2>2, SumsOfEntries
<1> QED BY <1>1, <1>3

\* An account or token that a step does not touch is due what it was.
LEMMA UntouchedKeeps ==
  ASSUME IInv, NEW t \in RewardTokens, NEW u \in Accounts,
         shares' = shares, rewardData'[t] = rewardData[t], rewardEpochs'[t] = rewardEpochs[t],
         userClaims'[t][u] = userClaims[t][u]
  PROVE  Due(u, t)' = Due(u, t) /\ Entitled(u, t)' = Entitled(u, t)
<1>1. Worth(u, t)' = Worth(u, t) /\ Shared(u, t)' = Shared(u, t)
  BY EntriesKept
<1> QED BY <1>1, SumsOfEntries

\* All dues of a token together are a number.
LEMMA AllDueType ==
  ASSUME IInv, NEW t \in RewardTokens
  PROVE  AllDue(t) \in Nat /\ NumAccounts \in Nat /\ SharePrecision * pot[t] \in Nat
<1>1. NumAccounts \in Nat /\ NumAccounts \in 0..NumAccounts /\ SharePrecision \in Nat /\ pot[t] \in Nat
  BY ShareAssumption DEF IInv, TypeOK
<1> DEFINE g == [u \in Accounts |-> Due(u, t)]
<1>2. \A u \in 1..NumAccounts : g[u] \in Nat
  BY EntitledIsDue DEF Accounts
<1> HIDE DEF g
<1>3. SumTo(g, NumAccounts) \in Nat
  BY <1>1, <1>2, SumToNat
<1> QED BY <1>1, <1>3, MulNat DEF AllDue, g

\* When no account is due more, all are not.
LEMMA AllDueShrinks ==
  ASSUME IInv, NEW t \in RewardTokens,
         \A u \in Accounts : Due(u, t)' \in Int /\ Due(u, t)' <= Due(u, t)
  PROVE  AllDue(t)' <= AllDue(t)
<1> DEFINE f == [u \in Accounts |-> Due(u, t)']
           g == [u \in Accounts |-> Due(u, t)]
<1>1. NumAccounts \in Nat /\ Accounts = 1..NumAccounts
  BY ShareAssumption DEF Accounts
<1>2. \A u \in Accounts : Due(u, t) \in Nat
  BY EntitledIsDue
<1>4. \A u \in 1..NumAccounts : f[u] \in Int /\ g[u] \in Int /\ f[u] <= g[u]
  BY <1>1, <1>2
<1>5. AllDue(t)' = SumTo(f, NumAccounts) /\ AllDue(t) = SumTo(g, NumAccounts)
  BY DEF AllDue
<1> HIDE DEF f, g
<1> QED BY <1>1, <1>4, <1>5, SumToMonotone

\* A claim pays out no more than what is due shrinks by.
LEMMA ClaimKeepsCovered ==
  ASSUME IInv, DueCovered, NEW t \in RewardTokens, NEW u \in Accounts, NEW from \in Nat,
         userClaims[t][u] <= from, ClaimFrom(u, t, from)
  PROVE  DueCovered'
<1> DEFINE paying == AllClaimable(u, t, from)
           f == [v \in Accounts |-> Due(v, t)]
           g == [v \in Accounts |-> Due(v, t)']
<1>1. /\ paying \in Nat /\ Due(u, t)' \in Nat
      /\ Due(u, t)' + SharePrecision * paying <= Due(u, t)
  BY ClaimSettles
<1>2. /\ UNCHANGED <<shares, rewardData, rewardEpochs>>
      /\ pot'[t] = pot[t] - paying /\ \A s \in RewardTokens : s # t => pot'[s] = pot[s]
      /\ \A s \in RewardTokens, v \in Accounts :
           s # t \/ v # u => userClaims'[s][v] = userClaims[s][v]
  BY DEF ClaimFrom, shareVars, IInv, TypeOK
<1>3. \A s \in RewardTokens, v \in Accounts : s # t \/ v # u => Due(v, s)' = Due(v, s)
  BY <1>2, UntouchedKeeps
<1>4. \A s \in RewardTokens, v \in Accounts : Due(v, s) \in Nat
  BY EntitledIsDue
<1> HIDE DEF paying
<1>5. ASSUME NEW s \in RewardTokens, s # t PROVE AllDue(s)' <= SharePrecision * pot'[s]
  <2>1. AllDue(s) <= SharePrecision * pot[s] /\ pot'[s] = pot[s]
    BY <1>2, <1>5 DEF DueCovered
  <2>2. AllDue(s)' = AllDue(s)
    BY <1>3, <1>5 DEF AllDue
  <2> QED BY <2>1, <2>2
<1>6. AllDue(t)' <= SharePrecision * pot'[t]
  <2>1. NumAccounts \in Nat /\ Accounts = 1..NumAccounts /\ SharePrecision \in Nat /\ pot[t] \in Nat
    BY ShareAssumption DEF Accounts, IInv, TypeOK
  <2>2. /\ AllDue(t) = SumTo(f, NumAccounts) /\ AllDue(t)' = SumTo(g, NumAccounts)
        /\ f[u] = Due(u, t) /\ g[u] = Due(u, t)'
        /\ \A i \in 1..NumAccounts : f[i] \in Int /\ g[i] \in Int
        /\ \A i \in 1..NumAccounts : i # u => g[i] = f[i]
    <3>1. /\ AllDue(t) = SumTo(f, NumAccounts) /\ AllDue(t)' = SumTo(g, NumAccounts)
          /\ f[u] = Due(u, t) /\ g[u] = Due(u, t)'
      BY <2>1 DEF AllDue
    <3>2. ASSUME NEW i \in 1..NumAccounts PROVE f[i] = Due(i, t) /\ g[i] = Due(i, t)' /\ i \in Accounts
      BY <2>1
    <3>3. Due(u, t)' \in Int
      BY <1>1, <1>4
    <3> HIDE DEF f, g
    <3>4. ASSUME NEW i \in 1..NumAccounts PROVE f[i] \in Int /\ g[i] \in Int /\ (i # u => g[i] = f[i])
      BY <1>3, <1>4, <3>2, <3>3
    <3> QED BY <3>1, <3>4
  <2> HIDE DEF f, g
  <2>3. SumTo(g, NumAccounts) = SumTo(f, NumAccounts) + g[u] - f[u]
    BY <2>1, <2>2, SumToUpdate
  <2>4. SumTo(f, NumAccounts) <= SharePrecision * pot[t] /\ SumTo(f, NumAccounts) \in Int
    BY <2>2, AllDueType DEF DueCovered
  <2>5. SharePrecision * pot'[t] = SharePrecision * pot[t] - SharePrecision * paying
        /\ SharePrecision * pot[t] \in Int /\ SharePrecision * paying \in Int
    BY <2>1, <1>1, <1>2, Distributes
  <2>6. g[u] + SharePrecision * paying <= f[u] /\ g[u] \in Int /\ f[u] \in Int
    BY <1>1, <1>4, <2>2
  <2> QED BY <2>2, <2>3, <2>4, <2>5, <2>6
<1> QED BY <1>5, <1>6 DEF DueCovered

\* A forfeit only gives up what was due.
LEMMA ForfeitKeepsCovered ==
  ASSUME IInv, DueCovered, NEW t \in RewardTokens, NEW u \in Accounts, NEW index \in Nat,
         ForfeitRewards(u, t, index)
  PROVE  DueCovered'
<1>1. /\ UNCHANGED <<shares, rewardData, rewardEpochs, pot>>
      /\ userClaims'[t][u] \in userClaims[t][u]..Len(rewardEpochs[t])
      /\ \A s \in RewardTokens, v \in Accounts :
           s # t \/ v # u => userClaims'[s][v] = userClaims[s][v]
  <2>1. userClaims'[t][u] = index + 1 /\ userClaims[t][u] <= index /\ index < Len(rewardEpochs[t]) - 1
    BY DEF ForfeitRewards, IInv, TypeOK
  <2>2. userClaims[t][u] \in Nat /\ Len(rewardEpochs[t]) \in Nat
    BY EntryFacts
  <2>3. userClaims'[t][u] \in userClaims[t][u]..Len(rewardEpochs[t])
    BY <2>1, <2>2
  <2> QED BY <2>3 DEF ForfeitRewards, shareVars, IInv, TypeOK
<1>2. \A s \in RewardTokens, v \in Accounts : s # t \/ v # u => Due(v, s)' = Due(v, s)
  BY <1>1, UntouchedKeeps
<1>3. \A s \in RewardTokens, v \in Accounts : Due(v, s) \in Nat
  BY EntitledIsDue
<1>4. Due(u, t)' \in Nat /\ Due(u, t)' <= Due(u, t)
  <2>1. /\ Due(u, t) = SumBetween(Shared(u, t), userClaims[t][u], userClaims'[t][u]) + Due(u, t)'
        /\ SumBetween(Shared(u, t), userClaims[t][u], userClaims'[t][u]) \in Nat
        /\ Due(u, t)' \in Nat
    BY <1>1, MovingOn
  <2> QED BY <2>1
<1>5. \A s \in RewardTokens, v \in Accounts : Due(v, s)' \in Int /\ Due(v, s)' <= Due(v, s)
  BY <1>2, <1>3, <1>4
<1>6. ASSUME NEW s \in RewardTokens PROVE AllDue(s)' <= SharePrecision * pot'[s]
  <2>1. AllDue(s)' <= AllDue(s)
    BY <1>5, AllDueShrinks
  <2>2. AllDue(s)' \in Int
    <3> DEFINE g == [v \in Accounts |-> Due(v, s)']
    <3>1. NumAccounts \in Nat /\ \A v \in 1..NumAccounts : g[v] \in Int
      BY <1>5, ShareAssumption DEF Accounts
    <3>2. AllDue(s)' = SumTo(g, NumAccounts)
      BY DEF AllDue
    <3> HIDE DEF g
    <3> QED BY <3>1, <3>2, SumToUnfold
  <2>3. AllDue(s) <= SharePrecision * pot[s] /\ AllDue(s) \in Int /\ SharePrecision * pot[s] \in Int
    BY AllDueType DEF DueCovered
  <2>4. SharePrecision * pot'[s] = SharePrecision * pot[s]
    BY <1>1
  <2> QED BY <2>1, <2>2, <2>3, <2>4
<1> QED BY <1>6 DEF DueCovered

\* The shares of a week add up to its supply, so what an addition makes due is no more
\* than what it brings.
LEMMA AddKeepsCovered ==
  ASSUME IInv, IInv', OnlyListed, DueCovered, NEW depositor, NEW t \in RewardTokens,
         NEW amount \in 1..funds[t], NEW e \in Epochs, AddRewardToEpoch(depositor, t, amount, e)
  PROVE  DueCovered'
<1> DEFINE more == RewardPerShare(amount, e)
           f == [v \in Accounts |-> Due(v, t)]
           g == [v \in Accounts |-> Due(v, t)']
           b == shares[e]
<1>1. /\ amount \in Nat /\ SharePrecision \in Nat /\ pot[t] \in Nat
      /\ NumAccounts \in Nat /\ Accounts = 1..NumAccounts
  BY ShareAssumption DEF Accounts, IInv, TypeOK
<1>2. /\ shares' = shares /\ userClaims' = userClaims
      /\ pot'[t] = pot[t] + amount
      /\ \A s \in RewardTokens : s # t => /\ pot'[s] = pot[s] /\ rewardData'[s] = rewardData[s]
                                          /\ rewardEpochs'[s] = rewardEpochs[s]
  BY DEF AddRewardToEpoch, IInv, TypeOK
<1>3. ASSUME NEW s \in RewardTokens, s # t PROVE AllDue(s)' <= SharePrecision * pot'[s]
  <2>1. \A v \in Accounts : Due(v, s)' = Due(v, s)
    BY <1>2, <1>3, UntouchedKeeps
  <2>2. AllDue(s)' = AllDue(s)
    BY <2>1 DEF AllDue
  <2> QED BY <2>2, <1>2, <1>3 DEF DueCovered
<1>4. \A v \in Accounts : /\ Due(v, t) \in Nat /\ Due(v, t)' \in Nat /\ more \in Nat
                          /\ Due(v, t)' = Due(v, t) + more * shares[e][v] /\ shares[e][v] \in Nat
  BY AddShares, EntitledIsDue, EntryFacts
<1>5. more \in Nat /\ Supply(e) * more <= amount * SharePrecision /\ Supply(e) \in Nat
  <2>1. Supply(e) \in Nat /\ Supply(e) > 0
    BY SupplyIsNat DEF AddRewardToEpoch, IInv, TypeOK
  <2>2. amount * SharePrecision \in Nat
    BY <1>1, MulNat
  <2> QED BY <2>1, <2>2, DivRoundsDown DEF RewardPerShare
<1>6. AllDue(t)' <= SharePrecision * pot'[t]
  <2>0. more \in Int /\ \A i \in 1..NumAccounts : f[i] \in Int /\ b[i] \in Int /\ g[i] = f[i] + more * b[i]
    BY <1>1, <1>4, <1>5
  <2>1. /\ AllDue(t) = SumTo(f, NumAccounts) /\ AllDue(t)' = SumTo(g, NumAccounts)
        /\ Supply(e) = SumTo(b, NumAccounts)
    BY DEF AllDue, Supply
  <2> HIDE DEF f, g, b, more
  <2>2. SumTo(g, NumAccounts) = SumTo(f, NumAccounts) + more * SumTo(b, NumAccounts)
    <3>1. NumAccounts \in Nat
      BY <1>1
    <3> QED BY ONLY <3>1, <2>0, SumToLinear
  <2>3. SharePrecision * pot'[t] = SharePrecision * pot[t] + SharePrecision * amount
        /\ SharePrecision * pot[t] \in Int /\ SharePrecision * amount \in Int
    BY <1>1, <1>2, Distributes
  <2>4. more * Supply(e) = Supply(e) * more /\ amount * SharePrecision = SharePrecision * amount
        /\ Supply(e) * more \in Int
    BY <1>1, <1>5
  <2>5. AllDue(t) <= SharePrecision * pot[t] /\ AllDue(t) \in Int
    BY AllDueType DEF DueCovered
  <2> QED BY <1>5, <2>1, <2>2, <2>3, <2>4, <2>5
<1> QED BY <1>3, <1>6 DEF DueCovered

\* An addition lists the epoch it adds to.
LEMMA NextKeepsListed == IInv /\ IInv' /\ OnlyListed /\ [Next]_vars => OnlyListed'
<1> SUFFICES ASSUME IInv, IInv', OnlyListed, [Next]_vars PROVE OnlyListed'
  OBVIOUS
<1>1. CASE rewardData' = rewardData /\ rewardEpochs' = rewardEpochs
  BY <1>1 DEF OnlyListed
<1>2. ASSUME NEW t \in RewardTokens, NEW depositor \in Depositors, NEW amount \in 1..funds[t],
             NEW e \in Epochs, AddRewardToEpoch(depositor, t, amount, e)
      PROVE  OnlyListed'
  <2>0. /\ \/ Len(rewardEpochs'[t]) = Len(rewardEpochs[t])
           \/ Len(rewardEpochs'[t]) = Len(rewardEpochs[t]) + 1 /\ rewardData[t][e] = 0
        /\ Len(rewardEpochs'[t]) > 0 /\ rewardEpochs'[t][Len(rewardEpochs'[t])] = e
        /\ \A i \in 1..Len(rewardEpochs[t]) : rewardEpochs'[t][i] = rewardEpochs[t][i]
        /\ \A i \in 1..Len(rewardEpochs'[t]) : i < Len(rewardEpochs'[t]) => rewardEpochs'[t][i] # e
        /\ \A v \in Accounts : userClaims[t][v] < Len(rewardEpochs'[t])
    BY <1>2, AddLists
  <2> SUFFICES ASSUME NEW s \in RewardTokens, NEW d \in Epochs, rewardData'[s][d] # 0
               PROVE  \E i \in 1..Len(rewardEpochs'[s]) : rewardEpochs'[s][i] = d
    BY DEF OnlyListed
  <2>1. /\ s # t => rewardData'[s] = rewardData[s] /\ rewardEpochs'[s] = rewardEpochs[s]
        /\ d # e => rewardData'[s][d] = rewardData[s][d]
    BY <1>2 DEF AddRewardToEpoch, IInv, TypeOK
  <2>2. CASE s # t
    BY <2>1, <2>2 DEF OnlyListed
  <2>3. /\ \/ Len(rewardEpochs'[t]) = Len(rewardEpochs[t])
           \/ Len(rewardEpochs'[t]) = Len(rewardEpochs[t]) + 1
        /\ Len(rewardEpochs'[t]) > 0 /\ rewardEpochs'[t][Len(rewardEpochs'[t])] = e
        /\ \A i \in 1..Len(rewardEpochs[t]) : rewardEpochs'[t][i] = rewardEpochs[t][i]
        /\ Len(rewardEpochs[t]) \in Nat
    <3>1. Len(rewardEpochs[t]) \in Nat
      BY Ranges DEF IInv
    <3> QED BY <2>0, <3>1
  <2>4. CASE s = t /\ d = e
    <3>1. Len(rewardEpochs'[t]) \in 1..Len(rewardEpochs'[t])
      BY <2>3
    <3> QED BY <3>1, <2>3, <2>4
  <2>5. CASE s = t /\ d # e
    <3>1. PICK i \in 1..Len(rewardEpochs[t]) : rewardEpochs[t][i] = d
      BY <2>1, <2>5 DEF OnlyListed
    <3>2. i \in 1..Len(rewardEpochs'[t]) /\ rewardEpochs'[t][i] = d
      BY <2>3, <3>1
    <3> QED BY <3>2, <2>5
  <2> QED BY <2>2, <2>4, <2>5
<1> QED BY <1>1, <1>2 DEF Next, LockerStep, ModifyWhitelist, GetReward, GetRewardFromIndex,
           ClaimFrom, ForfeitRewards, vars, extraVars

\* So does every other step keep the dues covered.
LEMMA NextKeepsCovered ==
  IInv /\ IInv' /\ OnlyListed /\ DueCovered /\ [Next]_vars => DueCovered'
<1> SUFFICES ASSUME IInv, IInv', OnlyListed, DueCovered, [Next]_vars PROVE DueCovered'
  OBVIOUS
<1>1. CASE LockerStep
  BY <1>1, LockerKeepsEntries DEF DueCovered, AllDue
<1>2. ASSUME NEW depositor \in Depositors, NEW canAdd \in BOOLEAN, ModifyWhitelist(depositor, canAdd)
      PROVE  DueCovered'
  BY <1>2 DEF ModifyWhitelist, shareVars, DueCovered, AllDue, Due, Shared
<1>3. ASSUME NEW t \in RewardTokens, NEW depositor \in Depositors, NEW amount \in 1..funds[t],
             NEW e \in Epochs, AddRewardToEpoch(depositor, t, amount, e)
      PROVE  DueCovered'
  BY <1>3, AddKeepsCovered
<1>4. ASSUME NEW t \in RewardTokens, NEW u \in Accounts, GetReward(u, t) PROVE DueCovered'
  <2>1. userClaims[t][u] \in Nat
    BY DEF IInv, TypeOK
  <2> QED BY <1>4, <2>1, ClaimKeepsCovered DEF GetReward
<1>5. ASSUME NEW t \in RewardTokens, NEW u \in Accounts, NEW startIndex \in 0..Len(rewardEpochs[t]),
             GetRewardFromIndex(u, t, startIndex)
      PROVE  DueCovered'
  <2>1. userClaims[t][u] \in Nat /\ startIndex \in Nat
    BY DEF IInv, TypeOK
  <2>2. PICK from \in Nat : userClaims[t][u] <= from /\ ClaimFrom(u, t, from)
    BY <1>5, <2>1 DEF GetRewardFromIndex
  <2> QED BY <2>2, ClaimKeepsCovered
<1>6. ASSUME NEW t \in RewardTokens, NEW u \in Accounts, NEW index \in 0..Len(rewardEpochs[t]),
             ForfeitRewards(u, t, index)
      PROVE  DueCovered'
  <2>1. index \in Nat
    OBVIOUS
  <2> QED BY <1>6, <2>1, ForfeitKeepsCovered
<1>7. CASE UNCHANGED vars
  BY <1>7 DEF vars, shareVars, extraVars, DueCovered, AllDue, Due, Shared
<1> QED BY <1>1, <1>2, <1>3, <1>4, <1>5, <1>6, <1>7 DEF Next

\* Nothing is due at first.
LEMMA InitCovered == Init => OnlyListed /\ DueCovered
<1> SUFFICES ASSUME Init PROVE OnlyListed /\ DueCovered
  OBVIOUS
<1>1. OnlyListed
  BY DEF Init, OnlyListed
<1>2. ASSUME NEW t \in RewardTokens PROVE AllDue(t) <= SharePrecision * pot[t]
  <2>1. /\ rewardEpochs[t] = <<>> /\ pot[t] = 0 /\ \A u \in Accounts : userClaims[t][u] = 0
        /\ NumAccounts \in Nat /\ SharePrecision \in Nat /\ Accounts = 1..NumAccounts
    BY ShareAssumption DEF Init, Accounts
  <2>2. \A u \in Accounts : Due(u, t) = 0
    <3> SUFFICES ASSUME NEW u \in Accounts PROVE Due(u, t) = 0
      OBVIOUS
    <3>1. Due(u, t) = SumTo(Shared(u, t), 0) - SumTo(Shared(u, t), 0)
      BY <2>1 DEF Due, SumBetween
    <3>2. SumTo(Shared(u, t), 0) = 0
      BY SumToZero
    <3> QED BY <3>1, <3>2
  <2>3. AllDue(t) = SumTo([i \in 1..NumAccounts |-> 0], NumAccounts)
    BY <2>1, <2>2 DEF AllDue
  <2>4. AllDue(t) = 0 /\ SharePrecision * 0 = 0
    BY <2>1, <2>3, SumOfZeros
  <2> QED BY <2>1, <2>4
<1> QED BY <1>1, <1>2 DEF DueCovered

\* The distributor can pay everyone: its tokens cover what all accounts have yet to
\* receive, whatever is rounded, claimed in whatever order, skipped or forfeited.
THEOREM AlwaysCovered == Spec => []EntitlementsCovered
<1>1. Init => OnlyListed /\ DueCovered
  BY InitCovered
<1>2. IInv /\ IInv' /\ OnlyListed /\ DueCovered /\ [Next]_vars => OnlyListed' /\ DueCovered'
  BY NextKeepsListed, NextKeepsCovered
<1>3. IInv /\ DueCovered => EntitlementsCovered
  BY DueIsEnough
<1> QED BY <1>1, <1>2, <1>3, Invariance, PTL DEF Spec

\* What is compared below are numbers.
EntitledIsNat == \A t \in RewardTokens, u \in Accounts : Entitled(u, t) \in Nat /\ paid[t][u] \in Nat

\* An account's entitlement and what it was paid, taken together, shrink in no step
\* but its own forfeit, or a claim of its own that skips ahead.
LEMMA NothingLost ==
  ASSUME IInv, IInv', EntitledIsNat', OnlyListed, Next, NEW t \in RewardTokens, NEW u \in Accounts,
         ~\E index \in userClaims[t][u]..Len(rewardEpochs[t]) :
            \/ ForfeitRewards(u, t, index)
            \/ index > userClaims[t][u] /\ GetRewardFromIndex(u, t, index)
  PROVE  Entitled(u, t) + paid[t][u] <= Entitled(u, t)' + paid'[t][u]
<1>1. Entitled(u, t) \in Nat /\ paid[t][u] \in Nat
  BY EntitledIsDue DEF IInv, TypeOK
<1>0. Entitled(u, t)' \in Nat /\ paid'[t][u] \in Nat
  BY DEF EntitledIsNat
<1>2. CASE Entitled(u, t)' = Entitled(u, t) /\ paid'[t][u] = paid[t][u]
  BY <1>1, <1>2
<1>3. CASE LockerStep
  BY <1>2, <1>3, LockerKeepsEntries
<1>4. ASSUME NEW depositor \in Depositors, NEW canAdd \in BOOLEAN, ModifyWhitelist(depositor, canAdd)
      PROVE  Entitled(u, t)' = Entitled(u, t) /\ paid'[t][u] = paid[t][u]
  BY <1>4, UntouchedKeeps DEF ModifyWhitelist, shareVars
<1>5. ASSUME NEW s \in RewardTokens, NEW depositor \in Depositors, NEW amount \in 1..funds[s],
             NEW e \in Epochs, AddRewardToEpoch(depositor, s, amount, e)
      PROVE  Entitled(u, t) + paid[t][u] <= Entitled(u, t)' + paid'[t][u]
  <2>1. paid' = paid /\ shares' = shares /\ userClaims' = userClaims
    BY <1>5 DEF AddRewardToEpoch
  <2>2. CASE s = t
    <3>1. Due(u, t)' \in Nat /\ Entitled(u, t) <= Entitled(u, t)'
      BY <1>5, <2>2, AddShares
    <3> QED BY <1>1, <1>0, <2>1, <3>1
  <2>3. CASE s # t
    <3>1. rewardData'[t] = rewardData[t] /\ rewardEpochs'[t] = rewardEpochs[t]
      BY <1>5, <2>3 DEF AddRewardToEpoch, IInv, TypeOK
    <3> QED BY <1>2, <2>1, <3>1, UntouchedKeeps
  <2> QED BY <2>2, <2>3
\* A claim that starts where its account left off.
<1>6. ASSUME NEW s \in RewardTokens, NEW v \in Accounts, ClaimFrom(v, s, userClaims[s][v])
      PROVE  Entitled(u, t) + paid[t][u] <= Entitled(u, t)' + paid'[t][u]
  <2>1. UNCHANGED <<shares, rewardData, rewardEpochs>>
    BY <1>6 DEF ClaimFrom, shareVars
  <2>2. userClaims[s][v] \in Nat
    BY DEF IInv, TypeOK
  <2>3. CASE s = t /\ v = u
    <3>1. /\ AllClaimable(u, t, userClaims[t][u]) \in Nat
          /\ Entitled(u, t) = AllClaimable(u, t, userClaims[t][u]) + Entitled(u, t)'
      BY <1>6, <2>2, <2>3, ClaimSettles
    <3>2. paid'[t][u] = paid[t][u] + AllClaimable(u, t, userClaims[t][u])
      BY <1>6, <2>3 DEF ClaimFrom, IInv, TypeOK
    <3> QED BY <1>1, <1>0, <3>1, <3>2
  <2>4. CASE s # t \/ v # u
    <3>1. paid'[t][u] = paid[t][u] /\ userClaims'[t][u] = userClaims[t][u]
      BY <1>6, <2>4 DEF ClaimFrom, IInv, TypeOK
    <3> QED BY <1>2, <2>1, <3>1, UntouchedKeeps
  <2> QED BY <2>3, <2>4
<1>7. ASSUME NEW s \in RewardTokens, NEW v \in Accounts, GetReward(v, s)
      PROVE  Entitled(u, t) + paid[t][u] <= Entitled(u, t)' + paid'[t][u]
  BY <1>6, <1>7 DEF GetReward
<1>8. ASSUME NEW s \in RewardTokens, NEW v \in Accounts, NEW startIndex \in 0..Len(rewardEpochs[s]),
             GetRewardFromIndex(v, s, startIndex)
      PROVE  Entitled(u, t) + paid[t][u] <= Entitled(u, t)' + paid'[t][u]
  <2>1. userClaims[s][v] \in Nat /\ startIndex \in Nat
    BY DEF IInv, TypeOK
  <2>2. CASE startIndex <= userClaims[s][v]
    <3>1. ClaimFrom(v, s, userClaims[s][v])
      BY <1>8, <2>1, <2>2 DEF GetRewardFromIndex
    <3> QED BY <3>1, <1>6
  <2>3. CASE startIndex > userClaims[s][v]
    <3>1. s # t \/ v # u
      <4> SUFFICES ASSUME s = t, v = u PROVE FALSE
        OBVIOUS
      <4>1. startIndex \in userClaims[t][u]..Len(rewardEpochs[t])
        BY <2>1, <2>3
      <4> QED BY <4>1, <1>8, <2>3
    <3>2. PICK from \in Nat : ClaimFrom(v, s, from)
      BY <1>8, <2>1 DEF GetRewardFromIndex
    <3>3. paid'[t][u] = paid[t][u] /\ userClaims'[t][u] = userClaims[t][u]
          /\ UNCHANGED <<shares, rewardData, rewardEpochs>>
      BY <3>1, <3>2 DEF ClaimFrom, shareVars, IInv, TypeOK
    <3> QED BY <1>2, <3>3, UntouchedKeeps
  <2> QED BY <2>1, <2>2, <2>3
<1>9. ASSUME NEW s \in RewardTokens, NEW v \in Accounts, NEW index \in 0..Len(rewardEpochs[s]),
             ForfeitRewards(v, s, index)
      PROVE  Entitled(u, t)' = Entitled(u, t) /\ paid'[t][u] = paid[t][u]
  <2>1. s # t \/ v # u
    <3> SUFFICES ASSUME s = t, v = u PROVE FALSE
      OBVIOUS
    <3>1. index \in userClaims[t][u]..Len(rewardEpochs[t])
      <4>1. userClaims[t][u] \in Nat /\ Len(rewardEpochs[t]) \in Nat
        BY EntryFacts
      <4>2. userClaims[t][u] <= index
        BY <1>9 DEF ForfeitRewards
      <4> QED BY <4>1, <4>2
    <3> QED BY <3>1, <1>9
  <2>2. userClaims'[t][u] = userClaims[t][u] /\ paid' = paid
        /\ UNCHANGED <<shares, rewardData, rewardEpochs>>
    BY <1>9, <2>1 DEF ForfeitRewards, shareVars, IInv, TypeOK
  <2> QED BY <2>2, UntouchedKeeps
<1> QED BY <1>2, <1>3, <1>4, <1>5, <1>7, <1>8, <1>9 DEF Next

\* Only an account itself can make it lose a reward: everybody else's calls, claims
\* made for it included, leave what it has yet to receive or pay it out.
THEOREM LossesAreOwn == Spec => OnlyOwnerForfeits
<1>1. Init => OnlyListed
  BY InitCovered
<1>2. IInv /\ IInv' /\ OnlyListed /\ [Next]_vars => OnlyListed'
  BY NextKeepsListed
<1>3. IInv => EntitledIsNat
  BY EntitledIsDue DEF EntitledIsNat, IInv, TypeOK
<1>4. ASSUME IInv, IInv', EntitledIsNat, EntitledIsNat', OnlyListed, Next,
             NEW t \in RewardTokens, NEW u \in Accounts,
             Entitled(u, t)' + paid'[t][u] < Entitled(u, t) + paid[t][u]
      PROVE  \E index \in userClaims[t][u]..Len(rewardEpochs[t]) :
               \/ ForfeitRewards(u, t, index)
               \/ index > userClaims[t][u] /\ GetRewardFromIndex(u, t, index)
  <2> SUFFICES ASSUME ~\E index \in userClaims[t][u]..Len(rewardEpochs[t]) :
                         \/ ForfeitRewards(u, t, index)
                         \/ index > userClaims[t][u] /\ GetRewardFromIndex(u, t, index)
               PROVE  FALSE
    OBVIOUS
  <2>1. Entitled(u, t) + paid[t][u] <= Entitled(u, t)' + paid'[t][u]
    BY <1>4, NothingLost
  <2>2. /\ Entitled(u, t) \in Nat /\ paid[t][u] \in Nat
        /\ Entitled(u, t)' \in Nat /\ paid'[t][u] \in Nat
    BY <1>4 DEF EntitledIsNat
  <2> QED BY <1>4, <2>1, <2>2
<1>5. IInv /\ IInv' /\ EntitledIsNat /\ EntitledIsNat' /\ OnlyListed /\ [Next]_vars
        => [\A u \in Accounts, t \in RewardTokens :
              Entitled(u, t)' + paid'[t][u] < Entitled(u, t) + paid[t][u]
                => \E index \in userClaims[t][u]..Len(rewardEpochs[t]) :
                     \/ ForfeitRewards(u, t, index)
                     \/ index > userClaims[t][u] /\ GetRewardFromIndex(u, t, index)]_vars
  BY <1>4
<1> QED BY <1>1, <1>2, <1>3, <1>5, Invariance, PTL DEF Spec, OnlyOwnerForfeits
=================================================================================
