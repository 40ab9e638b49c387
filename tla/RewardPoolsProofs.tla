---------------------------- MODULE RewardPoolsProofs ----------------------------
(***************************************************************************)
(* The reward pools keep their types, stay backed and stay solvent, for     *)
(* every number of accounts and virtual pools and every amount, duration    *)
(* and precision.  A pool is solvent because its debt, as counted in       *)
(* SharedProofs, is covered; the time does not enter the debt, a    *)
(* settled account's share of it is fixed, and a pool that the base pool    *)
(* does not call has no debt.  What a step may do to earnings follows:      *)
(* settling leaves them, a claim pays them in full, and what comes in is    *)
(* put aside or streamed.                                                   *)
(***************************************************************************)
EXTENDS RewardPools, SharedProofs

ClockOK == now \in StartTime..MaxTime

StakeOK ==
  /\ totalSupply \in Nat /\ staked \in Nat
  /\ balances \in [Accounts -> Nat] /\ wallet \in [Accounts -> Nat]
  /\ StakeBacked

AccessOK == allowances \in [Accounts -> [Operators -> Nat]] /\ permitted \subseteq Accounts \X Operators

\* Every virtual pool is called, and one that does not exist yet has nothing.
LinksOK ==
  /\ created \subseteq Extras /\ IsFiniteSet(created)
  /\ extraRewards = created
  /\ \A p \in Extras \ created :
       /\ rewardData[p] = NoRewardData /\ queuedRewards[p] = 0
       /\ \A u \in Accounts : userData[p][u] = NoUserData

FundsOK ==
  /\ epochRewards \in [Extras -> [Weeks -> Nat]]
  /\ funds \in [Pools -> Nat]
  /\ received \in [Accounts -> [Pools -> Nat]]

StreamsOK ==
  /\ rewardData \in [Pools -> RewardDataType]
  /\ userData \in [Pools -> [Accounts -> UserDataType]]
  /\ queuedRewards \in [Pools -> Nat]
  /\ held \in [Pools -> Nat]
  /\ \A p \in Pools :
       StreamFine(NumAccounts, rewardData[p], userData[p], queuedRewards[p], held[p], balances, now)

IInv == ClockOK /\ StakeOK /\ AccessOK /\ LinksOK /\ FundsOK /\ StreamsOK

----------------------------------------------------------------------------------
(* All pools *)

\* The streams, settled data and tokens that the pools may have next, when the
\* balances are then c.
NextStreams(rds, uds, hs, c) ==
  /\ rds \in [Pools -> RewardDataType]
  /\ uds \in [Pools -> [Accounts -> UserDataType]]
  /\ hs \in [Pools -> Nat]
  /\ \A p \in Pools : StreamFine(NumAccounts, rds[p], uds[p], queuedRewards[p], hs[p], c, now)
  /\ \A p \in Extras \ created : rds[p] = rewardData[p] /\ uds[p] = userData[p]

\* The clock counts in natural numbers.
LEMMA NowIsNat == ASSUME ClockOK PROVE now \in Nat
BY TimeAssumption DEF ClockOK

\* Some pools settle some accounts, whose balances change only if every pool that
\* has ever streamed is among them.
LEMMA SettledPoolsFine ==
  ASSUME IInv, NEW pools, pools \subseteq CalledPools, NEW users, NEW c \in [Accounts -> Nat],
         \A u \in Accounts : u \notin users => c[u] = balances[u],
         pools = CalledPools \/ c = balances
  PROVE  NextStreams(RefreshedPools(pools), SettledUsers(pools, users), held, c)
<1> USE AccountsAssumption
<1> DEFINE rds == RefreshedPools(pools)
           uds == SettledUsers(pools, users)
<1>1. /\ balances \in [Accounts -> Nat] /\ totalSupply = SumTo(balances, NumAccounts)
      /\ now \in Nat /\ held \in [Pools -> Nat]
      /\ userData \in [Pools -> [Accounts -> UserDataType]]
  BY NowIsNat DEF IInv, StakeOK, StakeBacked, StreamsOK
<1>2. ASSUME NEW p \in Pools, p \notin pools
      PROVE  rds[p] = rewardData[p] /\ uds[p] = userData[p]
  <2>1. uds[p] = [u \in Accounts |-> userData[p][u]]
    BY <1>2 DEF SettledUsers
  <2>2. userData[p] \in [Accounts -> UserDataType]
    BY <1>1
  <2>3. uds[p] = userData[p]
    BY <2>1, <2>2
  <2> QED BY <1>2, <2>3 DEF RefreshedPools
<1>3. ASSUME NEW p \in Extras \ created
      PROVE  p \in Pools /\ p \notin pools
  BY <1>3, PoolsAssumption DEF Pools, CalledPools, IInv, LinksOK
<1>4. ASSUME NEW p \in Pools
      PROVE  StreamFine(NumAccounts, rds[p], uds[p], queuedRewards[p], held[p], c, now)
  <2>0. StreamFine(NumAccounts, rewardData[p], userData[p], queuedRewards[p], held[p], balances, now)
    BY DEF IInv, StreamsOK
  <2>1. CASE p \in pools
    <3>1. rds[p] = Refreshed(rewardData[p], SumTo(balances, NumAccounts), now)
      BY <1>1, <2>1 DEF RefreshedPools
    <3>2. \A u \in 1..NumAccounts :
            u \in users => uds[p][u] = Settled(userData[p][u], balances[u],
              RewardPerToken(rewardData[p], SumTo(balances, NumAccounts), now))
      BY <1>1, <2>1 DEF SettledUsers, Accounts, PerToken
    <3>3. \A u \in 1..NumAccounts : u \notin users => uds[p][u] = userData[p][u] /\ c[u] = balances[u]
      BY <2>1 DEF SettledUsers, Accounts
    <3>4. \A u \in 1..NumAccounts : balances[u] \in Nat /\ c[u] \in Nat
      BY <1>1 DEF Accounts
    <3>5. NumAccounts \in Nat /\ now \in Nat
      BY <1>1
    <3> HIDE DEF rds, uds
    <3> QED BY ONLY <3>1, <3>2, <3>3, <3>4, <3>5, <2>0, SettledFine
  <2>2. CASE p \notin pools /\ c = balances
    BY <1>2, <2>0, <2>2
  <2>3. CASE p \notin pools /\ pools = CalledPools
    <3>1. p \in Extras \ created
      BY <2>3 DEF Pools, CalledPools, IInv, LinksOK
    <3>2. /\ rewardData[p] = NoRewardData /\ queuedRewards[p] = 0 /\ held[p] \in Nat
          /\ \A u \in 1..NumAccounts : c[u] \in Nat /\ userData[p][u] = NoUserData
      BY <3>1, <1>1 DEF IInv, LinksOK, Accounts
    <3>3. StreamFine(NumAccounts, NoRewardData, userData[p], 0, held[p], c, now)
      BY <3>2, <1>1, IdleFine
    <3> QED BY <3>2, <3>3, <2>3, <1>2
  <2> QED BY <2>1, <2>2, <2>3
<1>5. rds \in [Pools -> RewardDataType] /\ uds \in [Pools -> [Accounts -> UserDataType]]
  <2>1. \A p \in Pools : rds[p] \in RewardDataType
    BY <1>4 DEF StreamFine
  <2>2. \A p \in Pools : \A u \in Accounts : uds[p][u] \in UserDataType
    BY <1>4 DEF StreamFine, Accounts
  <2>3. rds = [p \in Pools |-> rds[p]]
    BY DEF RefreshedPools
  <2>4. uds = [p \in Pools |-> [u \in Accounts |-> uds[p][u]]]
    BY DEF SettledUsers
  <2> HIDE DEF rds, uds
  <2>5. rds \in [Pools -> RewardDataType]
    BY <2>1, <2>3
  <2>6. uds \in [Pools -> [Accounts -> UserDataType]]
    BY <2>2, <2>4
  <2> QED BY <2>5, <2>6
<1> HIDE DEF rds, uds
<1>6. NextStreams(rds, uds, held, c)
  BY <1>1, <1>2, <1>3, <1>4, <1>5 DEF NextStreams
<1> QED BY <1>6 DEF rds, uds

\* Settle, in an action that changes nothing else of the pools.
LEMMA SettleKeepsStreams ==
  ASSUME IInv, NEW pools, pools \subseteq CalledPools, NEW users, Settle(pools, users),
         balances' \in [Accounts -> Nat],
         \A u \in Accounts : u \notin users => balances'[u] = balances[u],
         pools = CalledPools \/ balances' = balances,
         UNCHANGED <<now, linkVars, queuedRewards>>
  PROVE  StreamsOK' /\ LinksOK'
<1>1. NextStreams(RefreshedPools(pools), SettledUsers(pools, users), held, balances')
  BY SettledPoolsFine
<1>2. NextStreams(rewardData', userData', held', balances')
  BY <1>1 DEF Settle
<1>3. StreamsOK'
  BY <1>2 DEF NextStreams, StreamsOK, IInv, linkVars
<1>4. LinksOK'
  BY <1>2 DEF NextStreams, LinksOK, IInv, linkVars
<1> QED BY <1>3, <1>4

\* Some of the pools that settled an account pay it.
LEMMA PaidPoolsFine ==
  ASSUME NEW called, NEW claimed, claimed \subseteq called, called \subseteq CalledPools,
         NEW u \in Accounts, NEW olitTo, NEW rds, NEW uds, NEW c \in [Accounts -> Nat],
         IInv, NextStreams(rds, uds, held, c),
         NEW paid, NEW hs,
         \A p \in claimed : uds[p][u].rewards <= held[p],
         paid = [p \in Pools |-> IF p \in claimed THEN [uds[p] EXCEPT ![u].rewards = 0] ELSE uds[p]],
         hs = [p \in Pools |-> held[p] - (IF p \in claimed THEN uds[p][u].rewards ELSE 0)]
  PROVE  NextStreams(rds, paid, hs, c)
<1> USE AccountsAssumption
<1>1. /\ rds \in [Pools -> RewardDataType] /\ uds \in [Pools -> [Accounts -> UserDataType]]
      /\ held \in [Pools -> Nat] /\ now \in Nat
      /\ \A p \in Pools : StreamFine(NumAccounts, rds[p], uds[p], queuedRewards[p], held[p], c, now)
      /\ \A p \in Extras \ created : rds[p] = rewardData[p] /\ uds[p] = userData[p]
  BY NowIsNat DEF NextStreams, IInv
<1>2. ASSUME NEW p \in Pools
      PROVE  /\ StreamFine(NumAccounts, rds[p], paid[p], queuedRewards[p], hs[p], c, now)
             /\ paid[p] \in [Accounts -> UserDataType]
             /\ hs[p] \in Nat
  <2>0. StreamFine(NumAccounts, rds[p], uds[p], queuedRewards[p], held[p], c, now)
    BY <1>1
  <2>1. CASE p \in claimed
    <3>1. uds[p] \in [Accounts -> UserDataType]
      BY <1>1
    <3>2. /\ \A a \in 1..NumAccounts : a # u => paid[p][a] = uds[p][a]
          /\ paid[p][u] = [uds[p][u] EXCEPT !.rewards = 0]
          /\ paid[p] = [uds[p] EXCEPT ![u] = paid[p][u]]
      BY <2>1, <3>1 DEF Accounts
    <3>3. hs[p] = held[p] - uds[p][u].rewards
      BY <2>1
    <3>4. \A a \in 1..NumAccounts : c[a] \in Nat
      BY DEF Accounts
    <3>5. uds[p][u].rewards <= held[p]
      BY <2>1
    <3>6. NumAccounts \in Nat /\ now \in Nat /\ u \in 1..NumAccounts
      BY <1>1 DEF Accounts
    <3>7. StreamFine(NumAccounts, rds[p], paid[p], queuedRewards[p], held[p] - uds[p][u].rewards, c, now)
      BY ONLY <2>0, <3>2, <3>4, <3>5, <3>6, PaidFine
    <3>8. uds[p][u] \in UserDataType
      BY <3>1
    <3>9. paid[p][u] \in UserDataType
      BY <3>2, <3>8 DEF UserDataType
    <3> QED BY <3>1, <3>2, <3>3, <3>7, <3>9 DEF StreamFine
  <2>2. CASE p \notin claimed
    <3>1. held[p] \in Nat /\ uds[p] \in [Accounts -> UserDataType]
      BY <1>1
    <3>2. paid[p] = uds[p]
      BY <2>2
    <3>3. hs[p] = held[p]
      BY <2>2, <3>1
    <3> QED BY <3>1, <3>2, <3>3, <2>0
  <2> QED BY <2>1, <2>2
<1>3. \A p \in Extras \ created : p \in Pools /\ p \notin claimed
  BY PoolsAssumption DEF Pools, CalledPools, IInv, LinksOK
<1>4. \A p \in Extras \ created : paid[p] = userData[p]
  BY <1>1, <1>3
<1>5. paid \in [Pools -> [Accounts -> UserDataType]] /\ hs \in [Pools -> Nat]
  BY <1>2
<1> QED BY <1>1, <1>2, <1>4, <1>5 DEF NextStreams

\* SettleAndPay, in an action that changes nothing else of the pools.
LEMMA SettleAndPayKeepsStreams ==
  ASSUME IInv, NEW called, NEW claimed, claimed \subseteq called, called \subseteq CalledPools,
         NEW u \in Accounts, NEW olitTo \in Accounts, SettleAndPay(called, claimed, u, olitTo),
         balances' \in [Accounts -> Nat],
         \A a \in Accounts : a # u => balances'[a] = balances[a],
         called = CalledPools \/ balances' = balances,
         UNCHANGED <<now, linkVars, queuedRewards, epochRewards, funds>>
  PROVE  StreamsOK' /\ LinksOK' /\ FundsOK'
<1> DEFINE uds == SettledUsers(called, {u})
           reward(p) == IF p \in claimed THEN uds[p][u].rewards ELSE 0
<1>1. NextStreams(RefreshedPools(called), uds, held, balances')
  BY SettledPoolsFine
<1>2. /\ \A p \in claimed : uds[p][u].rewards <= held[p]
      /\ rewardData' = RefreshedPools(called)
      /\ userData' = [p \in Pools |-> IF p \in claimed THEN [uds[p] EXCEPT ![u].rewards = 0] ELSE uds[p]]
      /\ held' = [p \in Pools |-> held[p] - reward(p)]
      /\ received' = [a \in Accounts |-> [p \in Pools |->
           received[a][p] + (IF a = (IF p = Base THEN olitTo ELSE u) THEN reward(p) ELSE 0)]]
  BY DEF SettleAndPay
<1>3. uds \in [Pools -> [Accounts -> UserDataType]]
  BY <1>1 DEF NextStreams
<1> HIDE DEF uds
<1>4. NextStreams(rewardData', userData', held', balances')
  BY <1>1, <1>2, PaidPoolsFine
<1>5. StreamsOK' /\ LinksOK'
  BY <1>4 DEF NextStreams, StreamsOK, LinksOK, IInv, linkVars
<1>6. received' \in [Accounts -> [Pools -> Nat]]
  <2>1. \A p \in Pools : reward(p) \in Nat
    <3>1. \A p \in Pools : uds[p][u] \in UserDataType
      BY <1>3
    <3> QED BY <3>1 DEF UserDataType
  <2>2. received \in [Accounts -> [Pools -> Nat]]
    BY DEF IInv, FundsOK
  <2> HIDE DEF reward
  <2> QED BY <1>2, <2>1, <2>2
<1>7. FundsOK'
  BY <1>6 DEF FundsOK, IInv
<1> QED BY <1>5, <1>7

----------------------------------------------------------------------------------
(* Balances *)

\* One balance changes, and so does the sum.
LEMMA SumFollowsBalance ==
  ASSUME StakeOK, NEW u \in Accounts, NEW c \in [Accounts -> Nat],
         \A a \in Accounts : a # u => c[a] = balances[a]
  PROVE  SumTo(c, NumAccounts) = totalSupply + c[u] - balances[u]
<1>1. /\ \A a \in 1..NumAccounts : balances[a] \in Int /\ c[a] \in Int
      /\ \A a \in 1..NumAccounts : a # u => c[a] = balances[a]
      /\ u \in 1..NumAccounts /\ NumAccounts \in Nat
      /\ totalSupply = SumTo(balances, NumAccounts)
  BY AccountsAssumption DEF StakeOK, StakeBacked, Accounts
<1> QED BY ONLY <1>1, SumToUpdate

\* A stake adds as much to the supply and the tokens as to one balance.
LEMMA StakeKeepsStake ==
  ASSUME IInv, NEW sender \in Accounts, NEW receiver \in Accounts, NEW amount,
         Stake(sender, receiver, amount)
  PROVE  /\ StakeOK'
         /\ \A a \in Accounts : a # receiver => balances'[a] = balances[a]
<1>1. /\ totalSupply \in Nat /\ staked \in Nat /\ totalSupply = staked
      /\ balances \in [Accounts -> Nat] /\ wallet \in [Accounts -> Nat]
  BY DEF IInv, StakeOK, StakeBacked
<1>2. /\ amount \in 1..wallet[sender] /\ wallet[sender] \in Nat
      /\ balances' = [balances EXCEPT ![receiver] = @ + amount]
      /\ wallet' = [wallet EXCEPT ![sender] = @ - amount]
      /\ totalSupply' = totalSupply + amount /\ staked' = staked + amount
  BY <1>1 DEF Stake
<1>3. amount \in Nat /\ wallet[sender] - amount \in Nat /\ balances[receiver] \in Nat
  BY <1>1, <1>2
<1>4. /\ balances' \in [Accounts -> Nat] /\ wallet' \in [Accounts -> Nat]
      /\ balances'[receiver] = balances[receiver] + amount
      /\ \A a \in Accounts : a # receiver => balances'[a] = balances[a]
  BY <1>1, <1>2, <1>3
<1>5. SumTo(balances', NumAccounts) = totalSupply + balances'[receiver] - balances[receiver]
  BY <1>4, SumFollowsBalance DEF IInv
<1>6. totalSupply' = SumTo(balances', NumAccounts) /\ totalSupply' = staked'
      /\ totalSupply' \in Nat /\ staked' \in Nat
  BY <1>1, <1>2, <1>3, <1>4, <1>5
<1> QED BY <1>4, <1>6 DEF StakeOK, StakeBacked

\* A withdrawal takes it from all three.
LEMMA TakeStakeKeepsStake ==
  ASSUME IInv, NEW owner \in Accounts, NEW receiver \in Accounts, NEW amount \in Nat,
         TakeStake(owner, receiver, amount)
  PROVE  /\ StakeOK'
         /\ \A a \in Accounts : a # owner => balances'[a] = balances[a]
<1>1. /\ totalSupply \in Nat /\ staked \in Nat /\ totalSupply = staked
      /\ balances \in [Accounts -> Nat] /\ wallet \in [Accounts -> Nat]
  BY DEF IInv, StakeOK, StakeBacked
<1>2. /\ amount <= balances[owner] /\ amount <= totalSupply
      /\ balances' = [balances EXCEPT ![owner] = @ - amount]
      /\ wallet' = [wallet EXCEPT ![receiver] = @ + amount]
      /\ totalSupply' = totalSupply - amount /\ staked' = staked - amount
  BY DEF TakeStake
<1>3. balances[owner] \in Nat /\ balances[owner] - amount \in Nat /\ wallet[receiver] + amount \in Nat
  BY <1>1, <1>2
<1>4. /\ balances' \in [Accounts -> Nat] /\ wallet' \in [Accounts -> Nat]
      /\ balances'[owner] = balances[owner] - amount
      /\ \A a \in Accounts : a # owner => balances'[a] = balances[a]
  BY <1>1, <1>2, <1>3
<1>5. SumTo(balances', NumAccounts) = totalSupply + balances'[owner] - balances[owner]
  BY <1>4, SumFollowsBalance DEF IInv
<1>6. totalSupply' = SumTo(balances', NumAccounts) /\ totalSupply' = staked'
      /\ totalSupply' \in Nat /\ staked' \in Nat
  BY <1>1, <1>2, <1>3, <1>4, <1>5
<1> QED BY <1>4, <1>6 DEF StakeOK, StakeBacked

\* Shares that move between two accounts, which may be one, leave the sum alone.
LEMMA MoveSharesKeepsStake ==
  ASSUME IInv, NEW from \in Accounts, NEW to \in Accounts, NEW amount \in Nat,
         MoveShares(from, to, amount), UNCHANGED <<totalSupply, staked, wallet>>
  PROVE  /\ StakeOK'
         /\ \A a \in Accounts : a \notin {from, to} => balances'[a] = balances[a]
<1>1. /\ totalSupply \in Nat /\ balances \in [Accounts -> Nat]
      /\ totalSupply = SumTo(balances, NumAccounts)
      /\ amount <= balances[from] /\ balances[from] \in Nat /\ balances[to] \in Nat
  BY DEF IInv, StakeOK, StakeBacked, MoveShares
<1> DEFINE mid == [balances EXCEPT ![from] = @ - amount]
<1>2. /\ mid \in [Accounts -> Nat] /\ mid[from] = balances[from] - amount
      /\ \A a \in Accounts : a # from => mid[a] = balances[a]
  <2>1. balances[from] - amount \in Nat
    BY <1>1
  <2> QED BY <1>1, <2>1
<1>3. \A a \in Accounts : balances'[a] = balances[a] - (IF a = from THEN amount ELSE 0)
                                                      + (IF a = to THEN amount ELSE 0)
  BY DEF MoveShares
<1>4. balances' = [a \in Accounts |-> balances'[a]]
  BY DEF MoveShares
<1> HIDE DEF mid
<1>5. /\ \A a \in Accounts : a # to => balances'[a] = mid[a]
      /\ balances'[to] = mid[to] + amount
      /\ \A a \in Accounts : balances'[a] \in Nat
      /\ \A a \in Accounts : a \notin {from, to} => balances'[a] = balances[a]
  <2>1. ASSUME NEW a \in Accounts
        PROVE  /\ a # to => balances'[a] = mid[a]
               /\ a = to => balances'[a] = mid[a] + amount
               /\ balances'[a] \in Nat
               /\ a \notin {from, to} => balances'[a] = balances[a]
    <3>1. balances[a] \in Nat /\ mid[a] \in Nat
      BY <1>1, <1>2
    <3>2. balances'[a] = balances[a] - (IF a = from THEN amount ELSE 0) + (IF a = to THEN amount ELSE 0)
      BY <1>3
    <3> QED BY <1>1, <1>2, <3>1, <3>2
  <2> QED BY <2>1
<1>6. balances' \in [Accounts -> Nat]
  BY <1>4, <1>5
<1>7. SumTo(mid, NumAccounts) = totalSupply + mid[from] - balances[from]
  BY <1>2, SumFollowsBalance DEF IInv
<1>8. SumTo(balances', NumAccounts) = SumTo(mid, NumAccounts) + balances'[to] - mid[to]
  <2>1. /\ \A a \in 1..NumAccounts : mid[a] \in Int /\ balances'[a] \in Int
        /\ \A a \in 1..NumAccounts : a # to => balances'[a] = mid[a]
        /\ to \in 1..NumAccounts /\ NumAccounts \in Nat
    BY <1>2, <1>5, AccountsAssumption DEF Accounts
  <2> QED BY ONLY <2>1, SumToUpdate
<1>9. SumTo(balances', NumAccounts) = totalSupply
  <2>1. mid[to] \in Nat
    BY <1>2
  <2> QED BY <1>1, <1>2, <1>5, <1>7, <1>8, <2>1
<1> QED BY <1>5, <1>6, <1>9 DEF StakeOK, StakeBacked, IInv

----------------------------------------------------------------------------------
(* Funding *)

\* One of the pools that are called streams, queues or gets something.
LEMMA OnePoolChanges ==
  ASSUME IInv, NEW p \in CalledPools, NEW rd, NEW q, NEW h,
         StreamFine(NumAccounts, rd, userData[p], q, h, balances, now),
         rewardData' = [rewardData EXCEPT ![p] = rd],
         queuedRewards' = [queuedRewards EXCEPT ![p] = q],
         held' = [held EXCEPT ![p] = h],
         UNCHANGED <<now, balances, linkVars, userData>>
  PROVE  StreamsOK' /\ LinksOK'
<1>1. /\ rewardData \in [Pools -> RewardDataType] /\ queuedRewards \in [Pools -> Nat]
      /\ held \in [Pools -> Nat] /\ userData \in [Pools -> [Accounts -> UserDataType]]
      /\ \A o \in Pools : StreamFine(NumAccounts, rewardData[o], userData[o], queuedRewards[o], held[o], balances, now)
  BY DEF IInv, StreamsOK
<1>2. rd \in RewardDataType /\ q \in Nat /\ h \in Nat
  BY DEF StreamFine
<1>3. /\ \A o \in Pools : o = p => rewardData'[o] = rd /\ queuedRewards'[o] = q /\ held'[o] = h
      /\ \A o \in Pools : o # p => /\ rewardData'[o] = rewardData[o] /\ held'[o] = held[o]
                                   /\ queuedRewards'[o] = queuedRewards[o]
  BY <1>1
<1>4. ASSUME NEW o \in Pools
      PROVE  StreamFine(NumAccounts, rewardData[o], userData[o], queuedRewards[o], held[o], balances, now)'
  <2>1. CASE o = p
    BY <2>1, <1>3
  <2>2. CASE o # p
    BY <2>2, <1>1, <1>3
  <2> QED BY <2>1, <2>2
<1>5. StreamsOK'
  BY <1>1, <1>2, <1>4 DEF StreamsOK
<1>6. \A o \in Extras \ created : o \in Pools /\ o # p
  BY PoolsAssumption DEF Pools, CalledPools, IInv, LinksOK
<1>7. LinksOK'
  BY <1>3, <1>6 DEF IInv, LinksOK, linkVars
<1> QED BY <1>5, <1>7

\* The pools that are called are pools.
LEMMA CalledArePools ==
  ASSUME IInv
  PROVE  CalledPools \subseteq Pools
BY DEF IInv, LinksOK, CalledPools, Pools

\* queueNewRewards streams what came in, or sets it aside.
LEMMA NotifyOrQueueKeepsStreams ==
  ASSUME IInv, NEW p \in CalledPools, NEW amount \in Nat, NotifyOrQueue(p, amount),
         held' = [held EXCEPT ![p] = @ + amount],
         UNCHANGED <<now, balances, linkVars, userData>>
  PROVE  StreamsOK' /\ LinksOK'
<1>1. /\ rewardData \in [Pools -> RewardDataType] /\ queuedRewards[p] \in Nat /\ p \in Pools
      /\ StreamFine(NumAccounts, rewardData[p], userData[p], queuedRewards[p], held[p], balances, now)
      /\ now \in Nat /\ NumAccounts \in Nat /\ \A u \in 1..NumAccounts : balances[u] \in Nat
      /\ totalSupply = SumTo(balances, NumAccounts)
  BY CalledArePools, NowIsNat, AccountsAssumption
     DEF IInv, StreamsOK, StakeOK, StakeBacked, Accounts
<1>2. CASE Notify(p, amount + queuedRewards[p]) /\ queuedRewards' = [queuedRewards EXCEPT ![p] = 0]
  <2> DEFINE rd == Notified(Refreshed(rewardData[p], SumTo(balances, NumAccounts), now),
                            amount + queuedRewards[p], now)
  <2>1. StreamFine(NumAccounts, rd, userData[p], 0, held[p] + amount, balances, now)
    BY <1>1, NotifiedFine
  <2>2. rewardData' = [rewardData EXCEPT ![p] = rd]
    BY <1>1, <1>2 DEF Notify
  <2> HIDE DEF rd
  <2> QED BY <1>2, <2>1, <2>2, OnePoolChanges
<1>3. CASE UNCHANGED rewardData /\ queuedRewards' = [queuedRewards EXCEPT ![p] = amount + queuedRewards[p]]
  <2>1. StreamFine(NumAccounts, rewardData[p], userData[p], amount + queuedRewards[p], held[p] + amount, balances, now)
    BY <1>1, FundedFine
  <2>2. rewardData' = [rewardData EXCEPT ![p] = rewardData[p]]
    BY <1>1, <1>3
  <2> QED BY <1>3, <2>1, <2>2, OnePoolChanges
<1> QED BY <1>2, <1>3 DEF NotifyOrQueue

\* A week of the clock's range.
LEMMA ThisWeekIsAWeek ==
  ASSUME ClockOK
  PROVE  ThisWeek \in Weeks
<1>1. /\ now \in Nat /\ StartTime <= now /\ now <= MaxTime /\ StartTime \in Nat /\ MaxTime \in Nat
      /\ RewardsDuration \in Nat /\ RewardsDuration > 0
  BY TimeAssumption, RewardsDurationAssumption DEF ClockOK
<1>2. ASSUME NEW a \in Nat, NEW b \in Nat, NEW d \in Nat, d > 0, a <= b
      PROVE  a \div d \in Nat /\ b \div d \in Nat /\ a \div d <= b \div d
  BY <1>2
<1> QED BY <1>1, <1>2 DEF ThisWeek, Weeks

\* oLIT from the Booster,
LEMMA QueueNewRewardsKeeps ==
  ASSUME IInv, NEW amount \in 0..funds[Base], QueueNewRewards(amount)
  PROVE  IInv'
<1>1. funds \in [Pools -> Nat] /\ Base \in Pools /\ Base \in CalledPools
  BY DEF IInv, FundsOK, Pools, CalledPools
<1>2. amount \in Nat /\ funds[Base] - amount \in Nat
  BY <1>1
<1>3. StreamsOK' /\ LinksOK'
  BY <1>1, <1>2, NotifyOrQueueKeepsStreams DEF QueueNewRewards, stakeVars
<1>4. FundsOK'
  BY <1>1, <1>2 DEF IInv, FundsOK, QueueNewRewards
<1>5. ClockOK' /\ StakeOK' /\ AccessOK'
  BY DEF IInv, ClockOK, StakeOK, StakeBacked, AccessOK, QueueNewRewards, stakeVars, accessVars
<1> QED BY <1>3, <1>4, <1>5 DEF IInv

\* and another reward from the stash, below and above the weekly cap.
LEMMA QueueExtraRewardsKeeps ==
  ASSUME IInv, NEW p \in Extras, NEW amount, QueueExtraRewards(p, amount)
  PROVE  IInv'
<1>1. /\ funds \in [Pools -> Nat] /\ epochRewards \in [Extras -> [Weeks -> Nat]]
      /\ p \in Pools /\ p \in CalledPools /\ ThisWeek \in Weeks
  BY ThisWeekIsAWeek DEF IInv, FundsOK, LinksOK, Pools, CalledPools, QueueExtraRewards
<1>2. amount \in Nat /\ funds[p] - amount \in Nat
  <2>1. funds[p] \in Nat
    BY <1>1
  <2> QED BY <2>1 DEF QueueExtraRewards
<1>3. StreamsOK' /\ LinksOK'
  <2>1. /\ held' = [held EXCEPT ![p] = @ + amount]
        /\ UNCHANGED <<now, balances, linkVars, userData>>
    BY DEF QueueExtraRewards, stakeVars
  <2>2. CASE NotifyOrQueue(p, amount)
    BY <1>1, <1>2, <2>1, <2>2, NotifyOrQueueKeepsStreams
  <2>3. CASE UNCHANGED <<rewardData, queuedRewards>>
    <3>1. /\ rewardData \in [Pools -> RewardDataType] /\ queuedRewards \in [Pools -> Nat]
          /\ StreamFine(NumAccounts, rewardData[p], userData[p], queuedRewards[p], held[p], balances, now)
          /\ now \in Nat /\ NumAccounts \in Nat /\ \A u \in 1..NumAccounts : balances[u] \in Nat
      BY <1>1, NowIsNat, AccountsAssumption DEF IInv, StreamsOK, StakeOK, Accounts
    <3>2. StreamFine(NumAccounts, rewardData[p], userData[p], queuedRewards[p], held[p] + amount, balances, now)
      BY <1>2, <3>1, FundedFine
    <3>3. /\ rewardData' = [rewardData EXCEPT ![p] = rewardData[p]]
          /\ queuedRewards' = [queuedRewards EXCEPT ![p] = queuedRewards[p]]
      BY <2>3, <3>1
    <3> QED BY <1>1, <2>1, <3>2, <3>3, OnePoolChanges
  <2> QED BY <2>2, <2>3 DEF QueueExtraRewards
<1>4. FundsOK'
  <2>1. epochRewards[p][ThisWeek] + amount \in Nat
    BY <1>1, <1>2
  <2>2. epochRewards' \in [Extras -> [Weeks -> Nat]]
    BY <1>1, <2>1 DEF QueueExtraRewards
  <2> QED BY <1>1, <1>2, <2>2 DEF IInv, FundsOK, QueueExtraRewards
<1>5. ClockOK' /\ StakeOK' /\ AccessOK'
  BY DEF IInv, ClockOK, StakeOK, StakeBacked, AccessOK, QueueExtraRewards, stakeVars, accessVars
<1> QED BY <1>3, <1>4, <1>5 DEF IInv

\* processIdleRewards streams what was set aside, and nothing comes in.
LEMMA ProcessIdleRewardsKeeps ==
  ASSUME IInv, ProcessIdleRewards
  PROVE  IInv'
<1>1. /\ rewardData \in [Pools -> RewardDataType] /\ queuedRewards[Base] \in Nat
      /\ held \in [Pools -> Nat] /\ Base \in Pools /\ Base \in CalledPools
      /\ StreamFine(NumAccounts, rewardData[Base], userData[Base], queuedRewards[Base], held[Base], balances, now)
      /\ now \in Nat /\ NumAccounts \in Nat /\ \A u \in 1..NumAccounts : balances[u] \in Nat
      /\ totalSupply = SumTo(balances, NumAccounts)
  BY NowIsNat, AccountsAssumption
     DEF IInv, StreamsOK, StakeOK, StakeBacked, Accounts, Pools, CalledPools
<1> DEFINE rd == Notified(Refreshed(rewardData[Base], SumTo(balances, NumAccounts), now),
                          queuedRewards[Base], now)
<1>2. StreamFine(NumAccounts, rd, userData[Base], 0, held[Base], balances, now)
  <2>1. 0 \in Nat /\ 0 + queuedRewards[Base] = queuedRewards[Base] /\ held[Base] + 0 = held[Base]
    BY <1>1
  <2>2. StreamFine(NumAccounts, Notified(Refreshed(rewardData[Base], SumTo(balances, NumAccounts), now),
                          0 + queuedRewards[Base], now),
                 userData[Base], 0, held[Base] + 0, balances, now)
    BY <1>1, <2>1, NotifiedFine
  <2> QED BY <2>1, <2>2
<1>3. rewardData' = [rewardData EXCEPT ![Base] = rd]
  BY <1>1 DEF ProcessIdleRewards, Notify
<1>4. /\ queuedRewards' = [queuedRewards EXCEPT ![Base] = 0]
      /\ held' = [held EXCEPT ![Base] = held[Base]]
      /\ UNCHANGED <<now, balances, linkVars, userData>>
  BY <1>1 DEF ProcessIdleRewards, stakeVars
<1> HIDE DEF rd
<1>5. StreamsOK' /\ LinksOK'
  BY <1>1, <1>2, <1>3, <1>4, OnePoolChanges
<1>6. ClockOK' /\ StakeOK' /\ AccessOK' /\ FundsOK'
  BY DEF IInv, ClockOK, StakeOK, StakeBacked, AccessOK, FundsOK, ProcessIdleRewards, stakeVars, accessVars
<1> QED BY <1>5, <1>6 DEF IInv

----------------------------------------------------------------------------------
(* The other actions *)

\* A stake settles its receiver in all pools.
LEMMA StakeKeeps ==
  ASSUME IInv, NEW sender \in Accounts, NEW receiver \in Accounts, NEW amount,
         Stake(sender, receiver, amount)
  PROVE  IInv'
<1>1. StakeOK' /\ \A a \in Accounts : a # receiver => balances'[a] = balances[a]
  BY StakeKeepsStake
<1>2. Settle(CalledPools, {receiver}) /\ UNCHANGED <<now, accessVars, linkVars, fundVars>>
  BY DEF Stake
<1>3. balances' \in [Accounts -> Nat]
  BY <1>1 DEF StakeOK
<1>4. StreamsOK' /\ LinksOK'
  BY <1>1, <1>2, <1>3, SettleKeepsStreams DEF fundVars
<1>5. ClockOK' /\ AccessOK' /\ FundsOK'
  BY <1>2 DEF IInv, ClockOK, AccessOK, FundsOK, Settle, accessVars, fundVars
<1> QED BY <1>1, <1>4, <1>5 DEF IInv

\* A withdrawal settles its account, and may claim.
LEMMA WithdrawKeeps ==
  ASSUME IInv, NEW u \in Accounts, NEW amount \in 1..totalSupply, NEW claim \in BOOLEAN,
         Withdraw(u, amount, claim)
  PROVE  IInv'
<1>0. amount \in Nat
  BY DEF IInv, StakeOK
<1>1. StakeOK' /\ \A a \in Accounts : a # u => balances'[a] = balances[a]
  BY <1>0, TakeStakeKeepsStake DEF Withdraw
<1>2. UNCHANGED <<now, accessVars, linkVars, fundVars>>
  BY DEF Withdraw
<1>3. balances' \in [Accounts -> Nat]
  BY <1>1 DEF StakeOK
<1>4. StreamsOK' /\ LinksOK' /\ FundsOK'
  <2>1. CASE Settle(CalledPools, {u})
    <3>1. StreamsOK' /\ LinksOK'
      BY <1>1, <1>2, <1>3, <2>1, SettleKeepsStreams DEF fundVars
    <3>2. FundsOK'
      BY <1>2, <2>1 DEF IInv, FundsOK, Settle, fundVars
    <3> QED BY <3>1, <3>2
  <2>2. CASE SettleAndPay(CalledPools, CalledPools, u, u)
    BY <1>1, <1>2, <1>3, <2>2, SettleAndPayKeepsStreams DEF fundVars
  <2> QED BY <2>1, <2>2 DEF Withdraw
<1>5. ClockOK' /\ AccessOK'
  BY <1>2 DEF IInv, ClockOK, AccessOK, accessVars
<1> QED BY <1>1, <1>4, <1>5 DEF IInv

\* A withdrawal by an operator, who spends its allowance.
LEMMA WithdrawFromKeeps ==
  ASSUME IInv, NEW u \in Accounts, NEW caller \in Operators, NEW to \in Accounts,
         NEW amount \in 1..totalSupply, WithdrawFrom(caller, u, to, amount)
  PROVE  IInv'
<1>0. amount \in Nat
  BY DEF IInv, StakeOK
<1>1. StakeOK' /\ \A a \in Accounts : a # u => balances'[a] = balances[a]
  BY <1>0, TakeStakeKeepsStake DEF WithdrawFrom
<1>2. Settle(CalledPools, {u}) /\ UNCHANGED <<now, permitted, linkVars, fundVars>>
  BY DEF WithdrawFrom
<1>3. balances' \in [Accounts -> Nat]
  BY <1>1 DEF StakeOK
<1>4. StreamsOK' /\ LinksOK'
  BY <1>1, <1>2, <1>3, SettleKeepsStreams DEF fundVars
<1>5. ClockOK' /\ FundsOK'
  BY <1>2 DEF IInv, ClockOK, FundsOK, Settle, fundVars
<1>6. AccessOK'
  <2>1. allowances \in [Accounts -> [Operators -> Nat]]
    BY DEF IInv, AccessOK
  <2>2. allowances[u][caller] - amount \in Nat
    BY <2>1 DEF WithdrawFrom
  <2>3. allowances' \in [Accounts -> [Operators -> Nat]]
    BY <2>1, <2>2 DEF WithdrawFrom
  <2> QED BY <1>2, <2>3 DEF IInv, AccessOK
<1> QED BY <1>1, <1>4, <1>5, <1>6 DEF IInv

\* A transfer settles both accounts.
LEMMA TransferKeeps ==
  ASSUME IInv, NEW from \in Accounts, NEW to \in Accounts, NEW amount \in 1..totalSupply,
         \/ Transfer(from, to, amount)
         \/ \E caller \in Operators : TransferFrom(caller, from, to, amount)
  PROVE  IInv'
<1>0. amount \in Nat
  BY DEF IInv, StakeOK
<1>1. MoveShares(from, to, amount) /\ UNCHANGED <<now, totalSupply, staked, wallet, permitted, linkVars, fundVars>>
  BY DEF Transfer, TransferFrom, accessVars
<1>2. StakeOK' /\ \A a \in Accounts : a \notin {from, to} => balances'[a] = balances[a]
  BY <1>0, <1>1, MoveSharesKeepsStake
<1>3. Settle(CalledPools, {from, to}) /\ balances' \in [Accounts -> Nat]
  BY <1>1, <1>2 DEF MoveShares, StakeOK
<1>4. StreamsOK' /\ LinksOK'
  BY <1>1, <1>2, <1>3, SettleKeepsStreams DEF fundVars
<1>5. ClockOK' /\ FundsOK'
  BY <1>1, <1>3 DEF IInv, ClockOK, FundsOK, Settle, fundVars
<1>6. AccessOK'
  <2>1. allowances \in [Accounts -> [Operators -> Nat]]
    BY DEF IInv, AccessOK
  <2>2. CASE Transfer(from, to, amount)
    BY <2>2 DEF IInv, AccessOK, Transfer, accessVars
  <2>3. ASSUME NEW caller \in Operators, TransferFrom(caller, from, to, amount) PROVE AccessOK'
    <3>1. allowances[from][caller] - amount \in Nat
      BY <2>1, <2>3 DEF TransferFrom
    <3>2. allowances' \in [Accounts -> [Operators -> Nat]]
      BY <2>1, <2>3, <3>1 DEF TransferFrom
    <3> QED BY <1>1, <3>2 DEF IInv, AccessOK
  <2> QED BY <2>2, <2>3
<1> QED BY <1>2, <1>4, <1>5, <1>6 DEF IInv

\* Claims: of the base pool, of all pools, or of a virtual one.
LEMMA ClaimKeeps ==
  ASSUME IInv, NEW pools, pools \subseteq CalledPools, NEW u \in Accounts, NEW olitTo \in Accounts,
         SettleAndPay(pools, pools, u, olitTo),
         UNCHANGED <<now, stakeVars, accessVars, linkVars, fundVars>>
  PROVE  IInv'
<1>1. StakeOK' /\ ClockOK' /\ AccessOK' /\ balances' = balances
  BY DEF IInv, StakeOK, StakeBacked, ClockOK, AccessOK, stakeVars, accessVars
<1>2. balances' \in [Accounts -> Nat]
  BY <1>1 DEF StakeOK
<1>3. StreamsOK' /\ LinksOK' /\ FundsOK'
  BY <1>1, <1>2, SettleAndPayKeepsStreams DEF fundVars
<1> QED BY <1>1, <1>3 DEF IInv

\* approve and modifyPermission.
LEMMA AccessKeeps ==
  ASSUME IInv,
         UNCHANGED <<now, stakeVars, linkVars, fundVars, rewardData, userData, held, received>>,
         allowances' \in [Accounts -> [Operators -> Nat]], permitted' \subseteq Accounts \X Operators
  PROVE  IInv'
<1>1. AccessOK'
  BY DEF AccessOK
<1>2. ClockOK' /\ StakeOK' /\ LinksOK' /\ FundsOK' /\ StreamsOK'
  BY DEF IInv, ClockOK, StakeOK, StakeBacked, LinksOK, FundsOK, StreamsOK, stakeVars, linkVars, fundVars
<1> QED BY <1>1, <1>2 DEF IInv

\* A virtual pool is never one too many for the base pool to call.
LEMMA CreateTokenRewardsKeeps ==
  ASSUME IInv, NEW p \in Extras, CreateTokenRewards(p)
  PROVE  IInv'
<1>1. /\ created \subseteq Extras /\ IsFiniteSet(created) /\ extraRewards = created
      /\ Cardinality(created) < PoolLimit /\ PoolLimit <= MaxExtras
      /\ PoolLimit \in Nat /\ MaxExtras \in Nat
  BY PoolsAssumption DEF IInv, LinksOK, CreateTokenRewards
<1>2. Cardinality(created) \in Nat
  BY <1>1, FS_CardinalityType
<1>3. ~(Cardinality(extraRewards) >= MaxExtras)
  BY <1>1, <1>2
<1>4. created' = created \cup {p} /\ extraRewards' = created'
  BY <1>1, <1>3 DEF CreateTokenRewards, Linked
<1>5. IsFiniteSet(created')
  BY <1>1, <1>4, FS_AddElement
<1>6. UNCHANGED <<now, stakeVars, accessVars, fundVars, rewardData, userData, held, received>>
  BY DEF CreateTokenRewards
<1>7. LinksOK'
  BY <1>1, <1>4, <1>5, <1>6 DEF IInv, LinksOK, fundVars
<1>8. ClockOK' /\ StakeOK' /\ AccessOK' /\ FundsOK' /\ StreamsOK'
  BY <1>6 DEF IInv, ClockOK, StakeOK, StakeBacked, AccessOK, FundsOK, StreamsOK, stakeVars, accessVars, fundVars
<1> QED BY <1>7, <1>8 DEF IInv

\* Time moves no debt.
LEMMA TickKeeps ==
  ASSUME IInv, Tick
  PROVE  IInv'
<1>1. now \in Nat /\ now' = now + 1
  BY NowIsNat DEF IInv, Tick
<1>2. UNCHANGED <<stakeVars, accessVars, linkVars, fundVars, rewardData, userData, held, received>>
  BY DEF Tick
<1>3. ClockOK'
  BY TimeAssumption DEF IInv, ClockOK, Tick
<1>4. \A p \in Pools : StreamFine(NumAccounts, rewardData[p], userData[p], queuedRewards[p], held[p], balances, now + 1)
  BY <1>1, LaterFine DEF IInv, StreamsOK
<1>5. StreamsOK'
  BY <1>1, <1>2, <1>4 DEF IInv, StreamsOK, stakeVars, fundVars
<1>6. StakeOK' /\ AccessOK' /\ LinksOK' /\ FundsOK'
  BY <1>2 DEF IInv, StakeOK, StakeBacked, AccessOK, LinksOK, FundsOK, stakeVars, accessVars, linkVars, fundVars
<1> QED BY <1>3, <1>5, <1>6 DEF IInv

----------------------------------------------------------------------------------
(* The specification *)

\* Without stakes and rewards there is no debt.
LEMMA InitIInv ==
  ASSUME Init
  PROVE  IInv
<1>1. ClockOK
  BY TimeAssumption, RewardsDurationAssumption DEF Init, ClockOK
<1>2. StakeOK
  <2>1. SumTo(balances, NumAccounts) = 0
    BY AccountsAssumption, SumOfZeros DEF Init, Accounts
  <2> QED BY <2>1, AmountAssumption DEF Init, StakeOK, StakeBacked
<1>3. AccessOK /\ LinksOK
  BY FS_EmptySet DEF Init, AccessOK, LinksOK, Pools
<1>4. FundsOK
  BY AmountAssumption DEF Init, FundsOK
<1>5. StreamsOK
  <2>1. NoRewardData \in RewardDataType /\ NoUserData \in UserDataType
    BY DEF NoRewardData, NoUserData, RewardDataType, UserDataType
  <2>2. now \in Nat /\ NumAccounts \in Nat
    BY <1>1, NowIsNat, AccountsAssumption
  <2>3. ASSUME NEW p \in Pools
        PROVE  StreamFine(NumAccounts, rewardData[p], userData[p], queuedRewards[p], held[p], balances, now)
    <3>1. /\ rewardData[p] = NoRewardData /\ queuedRewards[p] = 0 /\ held[p] = 0
          /\ \A u \in 1..NumAccounts : balances[u] \in Nat /\ userData[p][u] = NoUserData
      BY DEF Init, Accounts
    <3>2. 0 \in Nat
      OBVIOUS
    <3>3. StreamFine(NumAccounts, NoRewardData, userData[p], 0, 0, balances, now)
      BY <2>2, <3>1, <3>2, IdleFine
    <3> QED BY <3>1, <3>3
  <2> QED BY <2>1, <2>3 DEF Init, StreamsOK
<1> QED BY <1>1, <1>2, <1>3, <1>4, <1>5 DEF IInv

\* Every step of the pools keeps the invariant.
LEMMA NextKeepsIInv ==
  ASSUME IInv, [Next]_vars
  PROVE  IInv'
<1>1. CASE UNCHANGED vars
  BY <1>1 DEF vars, stakeVars, accessVars, linkVars, fundVars, IInv, ClockOK, StakeOK, StakeBacked,
              AccessOK, LinksOK, FundsOK, StreamsOK
<1>2. CASE Tick
  BY <1>2, TickKeeps
<1>3. ASSUME NEW u \in Accounts, NEW receiver \in Accounts, NEW amount, Stake(u, receiver, amount)
      PROVE  IInv'
  BY <1>3, StakeKeeps
<1>4. ASSUME NEW u \in Accounts, NEW amount \in 1..totalSupply, NEW claim \in BOOLEAN,
             Withdraw(u, amount, claim)
      PROVE  IInv'
  BY <1>4, WithdrawKeeps
<1>5. ASSUME NEW u \in Accounts, NEW to \in Accounts, NEW amount \in 1..totalSupply,
             \/ Transfer(u, to, amount)
             \/ \E caller \in Operators : TransferFrom(caller, u, to, amount)
      PROVE  IInv'
  BY <1>5, TransferKeeps
<1>6. ASSUME NEW u \in Accounts, NEW caller \in Operators, NEW to \in Accounts,
             NEW amount \in 1..totalSupply, WithdrawFrom(caller, u, to, amount)
      PROVE  IInv'
  BY <1>6, WithdrawFromKeeps
<1>7. ASSUME NEW u \in Accounts, NEW spender \in Operators, NEW amount \in AllowanceValues,
             Approve(u, spender, amount)
      PROVE  IInv'
  <2>1. amount \in Nat /\ allowances \in [Accounts -> [Operators -> Nat]] /\ permitted \subseteq Accounts \X Operators
    BY AmountAssumption DEF IInv, AccessOK
  <2>2. allowances' \in [Accounts -> [Operators -> Nat]] /\ permitted' = permitted
    BY <1>7, <2>1 DEF Approve
  <2> QED BY <1>7, <2>1, <2>2, AccessKeeps DEF Approve
<1>8. Base \in CalledPools /\ {Base} \subseteq CalledPools /\ created \subseteq CalledPools
  BY DEF IInv, LinksOK, CalledPools
<1>9. ASSUME NEW u \in Accounts, NEW claimExtras \in BOOLEAN, GetReward(u, claimExtras)
      PROVE  IInv'
  BY <1>8, <1>9, ClaimKeeps DEF GetReward
<1>10. ASSUME NEW u \in Accounts, NEW caller \in Operators \cup {u}, NEW claimExtras \in BOOLEAN,
              GetRewardFor(caller, u, claimExtras)
       PROVE  IInv'
  <2>1. caller \in Accounts
    BY AccountsAssumption
  <2> QED BY <1>8, <1>10, <2>1, ClaimKeeps DEF GetRewardFor
<1>11. ASSUME NEW u \in Accounts, NEW caller \in Operators, NEW grant \in BOOLEAN,
              ModifyPermission(u, caller, grant)
       PROVE  IInv'
  <2>1. allowances \in [Accounts -> [Operators -> Nat]] /\ permitted \subseteq Accounts \X Operators
    BY DEF IInv, AccessOK
  <2>2. permitted' \subseteq Accounts \X Operators /\ allowances' = allowances
    BY <1>11, <2>1 DEF ModifyPermission
  <2> QED BY <1>11, <2>1, <2>2, AccessKeeps DEF ModifyPermission
<1>12. ASSUME NEW u \in Accounts, NEW p \in Extras, GetExtraReward(p, u)
       PROVE  IInv'
  <2>1. {p} \subseteq CalledPools
    BY <1>8, <1>12 DEF GetExtraReward
  <2> QED BY <1>12, <2>1, ClaimKeeps DEF GetExtraReward
<1>13. ASSUME NEW amount \in 0..funds[Base], QueueNewRewards(amount)
       PROVE  IInv'
  BY <1>13, QueueNewRewardsKeeps
<1>14. ASSUME NEW p \in Extras, NEW amount, QueueExtraRewards(p, amount)
       PROVE  IInv'
  BY <1>14, QueueExtraRewardsKeeps
<1>15. ASSUME NEW p \in Extras, CreateTokenRewards(p)
       PROVE  IInv'
  BY <1>15, CreateTokenRewardsKeeps
<1>16. CASE ProcessIdleRewards
  BY <1>16, ProcessIdleRewardsKeeps
<1> QED BY <1>1, <1>2, <1>3, <1>4, <1>5, <1>6, <1>7, <1>9, <1>10, <1>11, <1>12, <1>13, <1>14, <1>15, <1>16
       DEF Next

\* The pools stay typed, backed, linked and covered.
THEOREM Invariance == Spec => []IInv
<1>1. Init => IInv
  BY InitIInv
<1>2. IInv /\ [Next]_vars => IInv'
  BY NextKeepsIInv
<1> QED BY <1>1, <1>2, PTL DEF Spec

\* The variables of the pools keep their types.
THEOREM TypeCorrect == Spec => []TypeOK
<1>1. IInv => TypeOK
  BY DEF IInv, ClockOK, StakeOK, AccessOK, LinksOK, FundsOK, StreamsOK, TypeOK
<1> QED BY <1>1, Invariance, PTL

\* Every staked token can be withdrawn.
THEOREM StakeIsBacked == Spec => []StakeBacked
<1>1. IInv => StakeBacked
  BY DEF IInv, StakeOK
<1> QED BY <1>1, Invariance, PTL

\* The tokens of every pool cover what is earned, what waits and what will be released.
THEOREM Solvent == Spec => []PoolSolvency
<1>1. ASSUME IInv, NEW p \in Pools
      PROVE  SumTo([u \in Accounts |-> EarnedBy(u, p)], NumAccounts) + Unreleased(p) <= held[p]
  <2>1. /\ StreamFine(NumAccounts, rewardData[p], userData[p], queuedRewards[p], held[p], balances, now)
        /\ totalSupply = SumTo(balances, NumAccounts)
        /\ \A u \in 1..NumAccounts : balances[u] \in Nat
        /\ now \in Nat /\ NumAccounts \in Nat
    BY <1>1, NowIsNat, AccountsAssumption DEF IInv, StreamsOK, StakeOK, StakeBacked, Accounts
  <2> DEFINE e == [u \in 1..NumAccounts |-> Earned(userData[p][u], balances[u],
                     RewardPerToken(rewardData[p], SumTo(balances, NumAccounts), now))]
  <2>2. SumTo(e, NumAccounts) + queuedRewards[p]
          + Remaining(rewardData[p], now) * rewardData[p].rewardRate <= held[p]
    BY <2>1, DebtCoversEarned DEF StreamFine
  <2>3. [u \in Accounts |-> EarnedBy(u, p)] = e
    BY <2>1 DEF EarnedBy, PerToken, Accounts
  <2>4. SumTo(e, NumAccounts) \in Int /\ queuedRewards[p] \in Int
        /\ Remaining(rewardData[p], now) * rewardData[p].rewardRate \in Int
    <3>1. /\ rewardData[p] \in RewardDataType /\ queuedRewards[p] \in Nat
          /\ rewardData[p].lastUpdateTime <= now
          /\ rewardData[p].lastUpdateTime <= rewardData[p].periodFinish
          /\ \A u \in 1..NumAccounts : /\ userData[p][u] \in UserDataType
               /\ userData[p][u].rewardPerTokenPaid <= rewardData[p].rewardPerTokenStored
      BY <2>1 DEF StreamFine
    <3>2. SumTo(balances, NumAccounts) \in Nat
      BY <2>1, SumToNat
    <3>3. Remaining(rewardData[p], now) * rewardData[p].rewardRate \in Int
      BY <2>1, <3>1, <3>2, RefreshedReleases
    <3>4. \A u \in 1..NumAccounts : e[u] \in Int
      <4> SUFFICES ASSUME NEW u \in 1..NumAccounts PROVE e[u] \in Int
        OBVIOUS
      <4> DEFINE perToken == RewardPerToken(rewardData[p], SumTo(balances, NumAccounts), now)
      <4>1. perToken \in Nat /\ rewardData[p].rewardPerTokenStored <= perToken
        <5>1. /\ Refreshed(rewardData[p], SumTo(balances, NumAccounts), now) \in RewardDataType
              /\ rewardData[p].rewardPerTokenStored
                   <= Refreshed(rewardData[p], SumTo(balances, NumAccounts), now).rewardPerTokenStored
          BY <2>1, <3>1, <3>2, RefreshedType
        <5> QED BY <3>1, <5>1 DEF Refreshed, RewardDataType
      <4>2. userData[p][u].rewardPerTokenPaid <= perToken
        <5> HIDE DEF perToken
        <5> QED BY <3>1, <4>1 DEF UserDataType, RewardDataType
      <4> HIDE DEF perToken
      <4>3. Settled(userData[p][u], balances[u], perToken) \in UserDataType
        BY <2>1, <3>1, <4>1, <4>2, SettledType
      <4>4. Earned(userData[p][u], balances[u], perToken) \in Nat
        BY <4>3 DEF Settled, UserDataType
      <4> QED BY <4>4 DEF perToken
    <3> HIDE DEF e
    <3> QED BY <2>1, <3>1, <3>3, <3>4, SumToUnfold
  <2> HIDE DEF e
  <2> QED BY <2>2, <2>3, <2>4 DEF Unreleased
<1>2. IInv => PoolSolvency
  BY <1>1 DEF PoolSolvency
<1> QED BY <1>2, Invariance, PTL

----------------------------------------------------------------------------------
(* Earnings *)

\* What account u has earned of pool p, step by step.
LEMMA EarnedFacts ==
  ASSUME IInv, NEW p \in Pools, NEW u \in Accounts
  PROVE  /\ rewardData[p] \in RewardDataType /\ userData[p][u] \in UserDataType
         /\ rewardData[p].lastUpdateTime <= now
         /\ rewardData[p].lastUpdateTime <= rewardData[p].periodFinish
         /\ now \in Nat /\ totalSupply \in Nat /\ balances[u] \in Nat
         /\ PerToken(p) \in Nat
         /\ userData[p][u].rewardPerTokenPaid <= PerToken(p)
         /\ EarnedBy(u, p) \in Nat
<1>1. /\ StreamFine(NumAccounts, rewardData[p], userData[p], queuedRewards[p], held[p], balances, now)
      /\ now \in Nat /\ totalSupply \in Nat /\ balances[u] \in Nat /\ u \in 1..NumAccounts
  BY NowIsNat DEF IInv, StreamsOK, StakeOK, Accounts
<1>2. /\ rewardData[p] \in RewardDataType /\ userData[p][u] \in UserDataType
      /\ rewardData[p].lastUpdateTime <= now
      /\ rewardData[p].lastUpdateTime <= rewardData[p].periodFinish
      /\ userData[p][u].rewardPerTokenPaid <= rewardData[p].rewardPerTokenStored
  BY <1>1 DEF StreamFine
<1>3. PerToken(p) \in Nat /\ rewardData[p].rewardPerTokenStored <= PerToken(p)
  BY <1>1, <1>2, RefreshedPerToken DEF PerToken
<1>4. userData[p][u].rewardPerTokenPaid \in Nat /\ rewardData[p].rewardPerTokenStored \in Nat
  BY <1>2 DEF UserDataType, RewardDataType
<1>5. userData[p][u].rewardPerTokenPaid <= PerToken(p)
  BY <1>2, <1>3, <1>4
<1>6. EarnedBy(u, p) \in Nat
  BY <1>1, <1>2, <1>3, <1>5, EarnedGrows DEF EarnedBy
<1> QED BY <1>1, <1>2, <1>3, <1>5, <1>6

\* A pool that never streamed has nothing to give, whatever the balances.
LEMMA IdleEarns ==
  ASSUME NEW supply \in Nat, NEW balance \in Nat, NEW t \in Nat
  PROVE  Earned(NoUserData, balance, RewardPerToken(NoRewardData, supply, t)) = 0
<1>1. LastTimeRewardApplicable(NoRewardData, t) = 0
  BY DEF LastTimeRewardApplicable, AtMost, NoRewardData
<1>2. RewardPerToken(NoRewardData, supply, t) = 0
  <2>1. (0 - 0) * 0 * Precision = 0
    BY PrecisionAssumption
  <2>2. supply # 0 => 0 \div supply = 0
    OBVIOUS
  <2> QED BY <1>1, <2>1, <2>2 DEF RewardPerToken, NoRewardData
<1>3. balance * (0 - 0) = 0 /\ 0 \div Precision = 0
  BY PrecisionAssumption
<1> QED BY <1>2, <1>3 DEF Earned, NoUserData

\* A settled pool and account: what was earned is what is settled.
LEMMA SettledAccountEarns ==
  ASSUME IInv, NEW p \in Pools, NEW u \in Accounts, NEW c \in Nat, NEW supply \in Nat
  PROVE  /\ RewardPerToken(Refreshed(rewardData[p], totalSupply, now), supply, now) = PerToken(p)
         /\ Earned(Settled(userData[p][u], balances[u], PerToken(p)), c, PerToken(p)) = EarnedBy(u, p)
         /\ Earned([Settled(userData[p][u], balances[u], PerToken(p)) EXCEPT !.rewards = 0], c, PerToken(p)) = 0
         /\ Settled(userData[p][u], balances[u], PerToken(p)).rewards = EarnedBy(u, p)
<1> DEFINE ud == userData[p][u]
           new == Settled(ud, balances[u], PerToken(p))
           paid == [new EXCEPT !.rewards = 0]
<1>1. /\ rewardData[p] \in RewardDataType /\ ud \in UserDataType
      /\ rewardData[p].lastUpdateTime <= now
      /\ rewardData[p].lastUpdateTime <= rewardData[p].periodFinish
      /\ now \in Nat /\ totalSupply \in Nat /\ balances[u] \in Nat
      /\ PerToken(p) \in Nat /\ ud.rewardPerTokenPaid <= PerToken(p)
  BY EarnedFacts
<1>2. RewardPerToken(Refreshed(rewardData[p], totalSupply, now), supply, now) = PerToken(p)
  BY <1>1, RefreshedPerToken DEF PerToken
<1>3. Earned(new, c, PerToken(p)) = EarnedBy(u, p)
  BY <1>1, SettledEarns DEF EarnedBy
<1>4. new \in UserDataType /\ new.rewardPerTokenPaid = PerToken(p) /\ new.rewards = EarnedBy(u, p)
  BY <1>1, SettledType DEF Settled, EarnedBy
<1> HIDE DEF new
<1>5. paid.rewardPerTokenPaid = PerToken(p) /\ paid.rewards = 0
  BY <1>4 DEF UserDataType
<1> HIDE DEF paid
<1>6. Earned(paid, c, PerToken(p)) = 0
  BY <1>1, <1>5, PaidEarns
<1> QED BY <1>2, <1>3, <1>4, <1>6 DEF new, paid

\* What becomes of the earnings in u's claim: they are paid, or they stay.
PaidOut(u, p) ==
  /\ EarnedBy(u, p)' = 0
  /\ \E a \in Accounts :
       /\ received'[a][p] = received[a][p] + EarnedBy(u, p)
       /\ a # u => p = Base /\ <<u, a>> \in permitted

\* Settling leaves everybody's earnings as they are.
LEMMA SettleKeepsEarnings ==
  ASSUME IInv, IInv', NEW pools, pools \subseteq CalledPools, NEW users,
         rewardData' = RefreshedPools(pools),
         NEW u \in Accounts, NEW p \in Pools,
         userData'[p][u] = SettledUsers(pools, users)[p][u],
         u \notin users => balances'[u] = balances[u],
         pools = CalledPools \/ UNCHANGED <<balances, totalSupply>>,
         UNCHANGED now
  PROVE  EarnedBy(u, p)' = EarnedBy(u, p)
<1> DEFINE ud == userData[p][u]
<1>1. PICK supply \in Nat, c \in Nat : supply = totalSupply' /\ c = balances'[u]
  BY DEF IInv, StakeOK
<1>2. EarnedBy(u, p)' = Earned(userData'[p][u], c, RewardPerToken(rewardData'[p], supply, now))
  BY <1>1 DEF EarnedBy, PerToken
<1>3. CASE p \in pools
  <2>1. rewardData'[p] = Refreshed(rewardData[p], totalSupply, now)
    BY <1>3 DEF RefreshedPools
  <2>2. RewardPerToken(rewardData'[p], supply, now) = PerToken(p)
    BY <2>1, SettledAccountEarns
  <2>3. CASE u \in users
    <3>1. userData'[p][u] = Settled(ud, balances[u], PerToken(p))
      BY <1>3, <2>3 DEF SettledUsers
    <3>2. Earned(Settled(ud, balances[u], PerToken(p)), c, PerToken(p)) = EarnedBy(u, p)
      BY SettledAccountEarns
    <3> QED BY <1>2, <2>2, <3>1, <3>2
  <2>4. CASE u \notin users
    <3>1. userData'[p][u] = ud /\ c = balances[u]
      BY <1>1, <2>4 DEF SettledUsers
    <3> QED BY <1>2, <2>2, <3>1 DEF EarnedBy
  <2> QED BY <2>3, <2>4
<1>4. CASE p \notin pools
  <2>1. rewardData'[p] = rewardData[p] /\ userData'[p][u] = ud
    BY <1>4 DEF RefreshedPools, SettledUsers
  <2>2. CASE UNCHANGED <<balances, totalSupply>>
    BY <1>1, <1>2, <2>1, <2>2 DEF EarnedBy, PerToken
  <2>3. CASE pools = CalledPools
    <3>1. p \in Extras \ created
      BY <1>4, <2>3 DEF Pools, CalledPools, IInv, LinksOK
    <3>2. rewardData[p] = NoRewardData /\ ud = NoUserData
      BY <3>1 DEF IInv, LinksOK
    <3>3. now \in Nat /\ totalSupply \in Nat /\ balances[u] \in Nat
      BY EarnedFacts
    <3>4. Earned(NoUserData, balances[u], RewardPerToken(NoRewardData, totalSupply, now)) = 0
      BY <3>3, IdleEarns
    <3>5. Earned(NoUserData, c, RewardPerToken(NoRewardData, supply, now)) = 0
      BY <3>3, IdleEarns
    <3> QED BY <1>2, <2>1, <3>2, <3>4, <3>5 DEF EarnedBy, PerToken
  <2> QED BY <2>2, <2>3
<1> QED BY <1>3, <1>4

\* A claim pays the earnings of one account in the pools it names and leaves the others.
LEMMA ClaimPaysEarnings ==
  ASSUME IInv, IInv', NEW called, NEW claimed, claimed \subseteq called, called \subseteq CalledPools,
         NEW owner \in Accounts, NEW olitTo \in Accounts, SettleAndPay(called, claimed, owner, olitTo),
         NEW u \in Accounts, NEW p \in Pools,
         u # owner => balances'[u] = balances[u],
         called = CalledPools \/ UNCHANGED <<balances, totalSupply>>,
         UNCHANGED now,
         olitTo # owner => <<owner, olitTo>> \in permitted
  PROVE  EarnedBy(u, p)' = EarnedBy(u, p) \/ PaidOut(u, p)
<1> DEFINE uds == SettledUsers(called, {owner})
           reward == IF p \in claimed THEN uds[p][owner].rewards ELSE 0
           payee == IF p = Base THEN olitTo ELSE owner
<1>1. /\ rewardData' = RefreshedPools(called)
      /\ p \in claimed => userData'[p] = [uds[p] EXCEPT ![owner].rewards = 0]
      /\ p \notin claimed => userData'[p] = uds[p]
      /\ \A a \in Accounts : received'[a][p] = received[a][p] + (IF a = payee THEN reward ELSE 0)
  BY DEF SettleAndPay
<1>2. CASE u = owner /\ p \in claimed
  <2> DEFINE settled == Settled(userData[p][u], balances[u], PerToken(p))
  <2>1. uds[p][u] = settled /\ uds[p] = [a \in Accounts |-> uds[p][a]]
    BY <1>2 DEF SettledUsers
  <2>2. userData'[p][u] = [settled EXCEPT !.rewards = 0]
    BY <1>1, <1>2, <2>1
  <2>3. PICK supply \in Nat, c \in Nat : supply = totalSupply' /\ c = balances'[u]
    BY DEF IInv, StakeOK
  <2>4. rewardData'[p] = Refreshed(rewardData[p], totalSupply, now)
    BY <1>1, <1>2 DEF RefreshedPools
  <2>5. EarnedBy(u, p)' = Earned(userData'[p][u], c, RewardPerToken(rewardData'[p], supply, now))
    BY <2>3 DEF EarnedBy, PerToken
  <2>6. /\ RewardPerToken(Refreshed(rewardData[p], totalSupply, now), supply, now) = PerToken(p)
        /\ Earned([settled EXCEPT !.rewards = 0], c, PerToken(p)) = 0
        /\ settled.rewards = EarnedBy(u, p)
    BY SettledAccountEarns
  <2> HIDE DEF settled, uds
  <2>7. EarnedBy(u, p)' = 0
    BY <2>2, <2>4, <2>5, <2>6
  <2>8. reward = EarnedBy(u, p)
    BY <1>2, <2>1, <2>6
  <2>9. payee \in Accounts /\ received'[payee][p] = received[payee][p] + EarnedBy(u, p)
    BY <1>1, <2>8
  <2>10. payee # u => p = Base /\ <<u, payee>> \in permitted
    BY <1>2
  <2> QED BY <2>7, <2>9, <2>10 DEF PaidOut
<1>3. CASE u # owner \/ p \notin claimed
  <2>1. userData'[p][u] = uds[p][u]
    <3>1. uds[p] = [a \in Accounts |-> uds[p][a]]
      BY DEF SettledUsers
    <3> HIDE DEF uds
    <3> QED BY <1>1, <1>3, <3>1
  <2>2. u \notin {owner} => balances'[u] = balances[u]
    OBVIOUS
  <2>3. EarnedBy(u, p)' = EarnedBy(u, p)
    BY <1>1, <2>1, <2>2, SettleKeepsEarnings
  <2> QED BY <2>3
<1> QED BY <1>2, <1>3

\* Nor does a new reward change what has been earned before it.
LEMMA NotifiedEarnings ==
  ASSUME IInv, NEW u \in Accounts, NEW p \in Pools, NEW reward \in Nat,
         \/ rewardData'[p] = rewardData[p]
         \/ rewardData'[p] = Notified(Refreshed(rewardData[p], totalSupply, now), reward, now),
         UNCHANGED <<now, totalSupply, balances, userData>>
  PROVE  EarnedBy(u, p)' = EarnedBy(u, p)
<1> DEFINE new == Refreshed(rewardData[p], totalSupply, now)
<1>1. /\ rewardData[p] \in RewardDataType /\ now \in Nat /\ totalSupply \in Nat
      /\ rewardData[p].lastUpdateTime <= now
      /\ rewardData[p].lastUpdateTime <= rewardData[p].periodFinish
  BY EarnedFacts
<1>2. EarnedBy(u, p)' = Earned(userData[p][u], balances[u], RewardPerToken(rewardData'[p], totalSupply, now))
  BY DEF EarnedBy, PerToken
<1>3. CASE rewardData'[p] = rewardData[p]
  BY <1>2, <1>3 DEF EarnedBy, PerToken
<1>4. CASE rewardData'[p] = Notified(new, reward, now)
  <2>1. new \in RewardDataType /\ new.rewardPerTokenStored = PerToken(p)
    BY <1>1, RefreshedType DEF PerToken, Refreshed, RewardDataType
  <2> HIDE DEF new
  <2>2. RewardPerToken(Notified(new, reward, now), totalSupply, now) = PerToken(p)
    BY <1>1, <2>1, NotifiedPerToken
  <2> QED BY <1>2, <1>4, <2>2 DEF EarnedBy
<1> QED BY <1>3, <1>4

\* Time only adds to it.
LEMMA TimeEarns ==
  ASSUME IInv, NEW u \in Accounts, NEW p \in Pools, Tick
  PROVE  now' # now /\ EarnedBy(u, p) <= EarnedBy(u, p)'
<1>1. now' = now + 1 /\ UNCHANGED <<totalSupply, balances, rewardData, userData>>
  BY DEF Tick, stakeVars
<1>2. /\ rewardData[p] \in RewardDataType /\ userData[p][u] \in UserDataType
      /\ rewardData[p].lastUpdateTime <= now
      /\ rewardData[p].lastUpdateTime <= rewardData[p].periodFinish
      /\ now \in Nat /\ totalSupply \in Nat /\ balances[u] \in Nat
      /\ PerToken(p) \in Nat /\ userData[p][u].rewardPerTokenPaid <= PerToken(p)
  BY EarnedFacts
<1> DEFINE later == RewardPerToken(rewardData[p], totalSupply, now + 1)
<1>3. PerToken(p) <= later
  <2>1. now + 1 \in Nat /\ now <= now + 1 /\ totalSupply <= totalSupply
    BY <1>2
  <2> QED BY <1>2, <2>1, PerTokenGrows DEF PerToken
<1>4. later \in Nat
  <2>1. now + 1 \in Nat /\ rewardData[p].lastUpdateTime <= now + 1
    BY <1>2 DEF RewardDataType
  <2> QED BY <1>2, <2>1, RefreshedPerToken
<1>5. EarnedBy(u, p)' = Earned(userData[p][u], balances[u], later)
  BY <1>1 DEF EarnedBy, PerToken
<1> HIDE DEF later
<1>6. EarnedBy(u, p) <= Earned(userData[p][u], balances[u], later)
  BY <1>2, <1>3, <1>4, EarnedGrows DEF EarnedBy
<1> QED BY <1>1, <1>2, <1>5, <1>6

\* What a step makes of an account's earnings of a pool.
EarningsOutcome(u, p) ==
  \/ EarnedBy(u, p)' = EarnedBy(u, p)
  \/ PaidOut(u, p)
  \/ now' # now /\ EarnedBy(u, p) <= EarnedBy(u, p)'

\* Settle, in an action that changes the balances of those who are settled.
LEMMA SettleOutcome ==
  ASSUME IInv, IInv', NEW users, Settle(CalledPools, users), UNCHANGED now,
         \A a \in Accounts : a \notin users => balances'[a] = balances[a],
         NEW u \in Accounts, NEW p \in Pools
  PROVE  EarningsOutcome(u, p)
<1>1. userData'[p][u] = SettledUsers(CalledPools, users)[p][u] /\ rewardData' = RefreshedPools(CalledPools)
  BY DEF Settle
<1>2. EarnedBy(u, p)' = EarnedBy(u, p)
  BY <1>1, SettleKeepsEarnings
<1> QED BY <1>2 DEF EarningsOutcome

\* A claim in which the pools that settle the account pay it.
LEMMA ClaimOutcome ==
  ASSUME IInv, IInv', NEW pools, pools \subseteq CalledPools, NEW owner \in Accounts,
         NEW olitTo \in Accounts, SettleAndPay(pools, pools, owner, olitTo),
         olitTo # owner => <<owner, olitTo>> \in permitted,
         UNCHANGED <<now, stakeVars>>,
         NEW u \in Accounts, NEW p \in Pools
  PROVE  EarningsOutcome(u, p)
<1>1. UNCHANGED <<now, balances, totalSupply>>
  BY DEF stakeVars
<1>2. EarnedBy(u, p)' = EarnedBy(u, p) \/ PaidOut(u, p)
  BY <1>1, ClaimPaysEarnings
<1> QED BY <1>2 DEF EarningsOutcome

\* Every step leaves earnings, pays them in full, or lets time add to them.
LEMMA EarningsStep ==
  ASSUME IInv, IInv', [Next]_vars, NEW u \in Accounts, NEW p \in Pools
  PROVE  EarningsOutcome(u, p)
<1>0. ASSUME UNCHANGED <<now, stakeVars, rewardData, userData>>
      PROVE  EarningsOutcome(u, p)
  <2>1. UNCHANGED <<now, totalSupply, balances, rewardData, userData>>
    BY <1>0 DEF stakeVars
  <2>2. EarnedBy(u, p)' = EarnedBy(u, p)
    BY <2>1 DEF EarnedBy, PerToken
  <2> QED BY <2>2 DEF EarningsOutcome
<1>1. CASE UNCHANGED vars
  BY <1>0, <1>1 DEF vars
<1>2. CASE Tick
  BY <1>2, TimeEarns DEF EarningsOutcome
<1>3. ASSUME NEW a \in Accounts, NEW receiver \in Accounts, NEW amount, Stake(a, receiver, amount)
      PROVE  EarningsOutcome(u, p)
  <2>1. \A b \in Accounts : b \notin {receiver} => balances'[b] = balances[b]
    BY <1>3, StakeKeepsStake
  <2>2. Settle(CalledPools, {receiver}) /\ UNCHANGED now
    BY <1>3 DEF Stake
  <2> QED BY <2>1, <2>2, SettleOutcome
<1>4. ASSUME NEW a \in Accounts, NEW amount \in 1..totalSupply, NEW claim \in BOOLEAN,
             Withdraw(a, amount, claim)
      PROVE  EarningsOutcome(u, p)
  <2>0. amount \in Nat
    BY DEF IInv, StakeOK
  <2>1. \A b \in Accounts : b # a => balances'[b] = balances[b]
    BY <1>4, <2>0, TakeStakeKeepsStake DEF Withdraw
  <2>2. UNCHANGED now
    BY <1>4 DEF Withdraw
  <2>3. CASE Settle(CalledPools, {a})
    BY <2>1, <2>2, <2>3, SettleOutcome
  <2>4. CASE SettleAndPay(CalledPools, CalledPools, a, a)
    <3>1. EarnedBy(u, p)' = EarnedBy(u, p) \/ PaidOut(u, p)
      BY <2>1, <2>2, <2>4, ClaimPaysEarnings
    <3> QED BY <3>1 DEF EarningsOutcome
  <2> QED BY <1>4, <2>3, <2>4 DEF Withdraw
<1>5. ASSUME NEW a \in Accounts, NEW to \in Accounts, NEW amount \in 1..totalSupply,
             \/ Transfer(a, to, amount)
             \/ \E caller \in Operators : TransferFrom(caller, a, to, amount)
      PROVE  EarningsOutcome(u, p)
  <2>0. amount \in Nat
    BY DEF IInv, StakeOK
  <2>1. MoveShares(a, to, amount) /\ UNCHANGED <<now, totalSupply, staked, wallet>>
    BY <1>5 DEF Transfer, TransferFrom
  <2>2. \A b \in Accounts : b \notin {a, to} => balances'[b] = balances[b]
    BY <2>0, <2>1, MoveSharesKeepsStake
  <2>3. Settle(CalledPools, {a, to})
    BY <2>1 DEF MoveShares
  <2> QED BY <2>1, <2>2, <2>3, SettleOutcome
<1>6. ASSUME NEW a \in Accounts, NEW caller \in Operators, NEW to \in Accounts,
             NEW amount \in 1..totalSupply, WithdrawFrom(caller, a, to, amount)
      PROVE  EarningsOutcome(u, p)
  <2>0. amount \in Nat
    BY DEF IInv, StakeOK
  <2>1. \A b \in Accounts : b \notin {a} => balances'[b] = balances[b]
    BY <1>6, <2>0, TakeStakeKeepsStake DEF WithdrawFrom
  <2>2. Settle(CalledPools, {a}) /\ UNCHANGED now
    BY <1>6 DEF WithdrawFrom
  <2> QED BY <2>1, <2>2, SettleOutcome
<1>7. ASSUME NEW a \in Accounts, NEW spender, NEW amount, Approve(a, spender, amount)
      PROVE  EarningsOutcome(u, p)
  BY <1>0, <1>7 DEF Approve
<1>8. {Base} \subseteq CalledPools /\ created \subseteq CalledPools
  BY DEF IInv, LinksOK, CalledPools
<1>9. ASSUME NEW a \in Accounts, NEW claimExtras \in BOOLEAN, GetReward(a, claimExtras)
      PROVE  EarningsOutcome(u, p)
  <2> DEFINE claimed == IF claimExtras THEN CalledPools ELSE {Base}
  <2>1. SettleAndPay(claimed, claimed, a, a) /\ UNCHANGED <<now, stakeVars>>
    BY <1>9 DEF GetReward
  <2>2. claimed \subseteq CalledPools
    BY <1>8
  <2> HIDE DEF claimed
  <2> QED BY <2>1, <2>2, ClaimOutcome
<1>10. ASSUME NEW a \in Accounts, NEW caller \in Operators \cup {a}, NEW claimExtras \in BOOLEAN,
              GetRewardFor(caller, a, claimExtras)
       PROVE  EarningsOutcome(u, p)
  <2> DEFINE claimed == IF claimExtras THEN CalledPools ELSE {Base}
  <2>1. SettleAndPay(claimed, claimed, a, caller) /\ UNCHANGED <<now, stakeVars>>
    BY <1>10 DEF GetRewardFor
  <2>2. claimed \subseteq CalledPools /\ caller \in Accounts
    BY <1>8, AccountsAssumption
  <2>3. caller # a => <<a, caller>> \in permitted
    BY <1>10 DEF GetRewardFor, HasPermission
  <2> HIDE DEF claimed
  <2> QED BY <2>1, <2>2, <2>3, ClaimOutcome
<1>11. ASSUME NEW a \in Accounts, NEW caller, NEW grant, ModifyPermission(a, caller, grant)
       PROVE  EarningsOutcome(u, p)
  BY <1>0, <1>11 DEF ModifyPermission
<1>12. ASSUME NEW a \in Accounts, NEW e \in Extras, GetExtraReward(e, a)
       PROVE  EarningsOutcome(u, p)
  <2>1. SettleAndPay({e}, {e}, a, a) /\ UNCHANGED <<now, stakeVars>>
    BY <1>12 DEF GetExtraReward
  <2>2. {e} \subseteq CalledPools
    BY <1>8, <1>12 DEF GetExtraReward
  <2> QED BY <2>1, <2>2, ClaimOutcome
<1>13. ASSUME NEW o \in Pools, NEW reward \in Nat,
              \/ rewardData' = rewardData
              \/ rewardData' = [rewardData EXCEPT ![o] = Notified(Refreshed(@, totalSupply, now), reward, now)],
              UNCHANGED <<now, stakeVars, userData>>
       PROVE  EarningsOutcome(u, p)
  <2>1. UNCHANGED <<now, totalSupply, balances, userData>>
    BY <1>13 DEF stakeVars
  <2>2. rewardData \in [Pools -> RewardDataType]
    BY DEF IInv, StreamsOK
  <2>3. \/ rewardData'[p] = rewardData[p]
        \/ rewardData'[p] = Notified(Refreshed(rewardData[p], totalSupply, now), reward, now)
    BY <1>13, <2>2
  <2>4. EarnedBy(u, p)' = EarnedBy(u, p)
    BY <1>13, <2>1, <2>3, NotifiedEarnings
  <2> QED BY <2>4 DEF EarningsOutcome
<1>14. queuedRewards \in [Pools -> Nat] /\ funds \in [Pools -> Nat] /\ Base \in Pools
  BY DEF IInv, StreamsOK, FundsOK, Pools
<1>15. ASSUME NEW amount \in 0..funds[Base], QueueNewRewards(amount)
       PROVE  EarningsOutcome(u, p)
  <2>1. amount + queuedRewards[Base] \in Nat
    BY <1>14
  <2>2. UNCHANGED <<now, stakeVars, userData>>
    BY <1>15 DEF QueueNewRewards
  <2> QED BY <1>13, <1>14, <1>15, <2>1, <2>2 DEF QueueNewRewards, NotifyOrQueue, Notify
<1>16. ASSUME NEW e \in Extras, NEW amount \in 1..funds[e], QueueExtraRewards(e, amount)
       PROVE  EarningsOutcome(u, p)
  <2>1. e \in Pools /\ amount + queuedRewards[e] \in Nat
    BY <1>14 DEF Pools
  <2>2. UNCHANGED <<now, stakeVars, userData>>
    BY <1>16 DEF QueueExtraRewards
  <2> QED BY <1>13, <1>16, <2>1, <2>2 DEF QueueExtraRewards, NotifyOrQueue, Notify
<1>17. ASSUME NEW e \in Extras, CreateTokenRewards(e)
       PROVE  EarningsOutcome(u, p)
  BY <1>0, <1>17 DEF CreateTokenRewards
<1>18. CASE ProcessIdleRewards
  <2>1. UNCHANGED <<now, stakeVars, userData>> /\ queuedRewards[Base] \in Nat
    BY <1>14, <1>18 DEF ProcessIdleRewards
  <2> QED BY <1>13, <1>14, <1>18, <2>1 DEF ProcessIdleRewards, Notify
<1> QED BY <1>1, <1>2, <1>3, <1>4, <1>5, <1>6, <1>7, <1>9, <1>10, <1>11, <1>12, <1>15, <1>16, <1>17, <1>18
       DEF Next

\* Rewards of any pool are earned by the passing of time alone.
THEOREM NothingRetroactive == Spec => NoRetroactiveRewards
<1>1. ASSUME IInv, IInv', [Next]_vars, now' = now, NEW u \in Accounts, NEW p \in Pools
      PROVE  EarnedBy(u, p)' <= EarnedBy(u, p)
  <2>1. EarnedBy(u, p) \in Nat
    BY <1>1, EarnedFacts
  <2>2. EarnedBy(u, p)' = EarnedBy(u, p) \/ EarnedBy(u, p)' = 0
    BY <1>1, EarningsStep DEF EarningsOutcome, PaidOut
  <2> QED BY <2>1, <2>2
<1>2. IInv /\ IInv' /\ [Next]_vars
        => [now' = now => \A u \in Accounts, p \in Pools : EarnedBy(u, p)' <= EarnedBy(u, p)]_vars
  BY <1>1
<1> QED BY <1>2, Invariance, PTL DEF Spec, NoRetroactiveRewards

\* What an account has earned shrinks only when it is paid in full, to it or, for
\* the base pool, to a caller with its permission.
THEOREM EarningsArrive == Spec => EarningsReachOwner
<1> DEFINE Body(u, p) ==
             EarnedBy(u, p)' < EarnedBy(u, p) =>
               /\ EarnedBy(u, p)' = 0
               /\ \E a \in Accounts :
                    /\ received'[a][p] = received[a][p] + EarnedBy(u, p)
                    /\ a # u => p = Base /\ <<u, a>> \in permitted
<1>1. IInv => \A u \in Accounts, p \in Pools : EarnedBy(u, p) \in Nat
  BY EarnedFacts
<1>2. IInv' => (\A u \in Accounts, p \in Pools : EarnedBy(u, p) \in Nat)'
  BY <1>1, PTL
<1>3. ASSUME IInv, IInv', [Next]_vars, NEW u \in Accounts, NEW p \in Pools
      PROVE  Body(u, p)
  <2>1. EarnedBy(u, p) \in Nat
    BY <1>3, EarnedFacts
  <2>2. PICK e \in Nat : e = EarnedBy(u, p)'
    BY <1>3, <1>2
  <2>3. CASE EarnedBy(u, p)' = EarnedBy(u, p)
    BY <2>1, <2>3
  <2>4. CASE PaidOut(u, p)
    BY <2>4 DEF PaidOut
  <2>5. CASE EarnedBy(u, p) <= EarnedBy(u, p)'
    BY <2>1, <2>2, <2>5
  <2> QED BY <1>3, <2>3, <2>4, <2>5, EarningsStep DEF EarningsOutcome
<1>4. IInv /\ IInv' /\ [Next]_vars => [\A u \in Accounts, p \in Pools : Body(u, p)]_vars
  BY <1>3
<1> QED BY <1>4, Invariance, PTL DEF Spec, EarningsReachOwner

----------------------------------------------------------------------------------
(* New rewards *)

\* A new stream releases the reward and the rest of the old one, but for what the
\* rate rounds off.
LEMMA NotifiedReleases ==
  ASSUME NEW rd \in RewardDataType, NEW supply \in Nat, NEW t \in Nat, NEW reward \in Nat,
         rd.lastUpdateTime <= t, rd.lastUpdateTime <= rd.periodFinish,
         NEW next, next = Notified(Refreshed(rd, supply, t), reward, t)
  PROVE  /\ Remaining(next, t) * next.rewardRate \in Nat
         /\ Remaining(next, t) * next.rewardRate + RewardsDuration > reward + Remaining(rd, t) * rd.rewardRate
<1> DEFINE new == Refreshed(rd, supply, t)
           rest == Remaining(rd, t) * rd.rewardRate
           total == reward + rest
           rate == total \div RewardsDuration
<1>1. new \in RewardDataType
  BY RefreshedType
<1>2. /\ Remaining(new, t) * new.rewardRate = rest /\ rest \in Nat
  BY RefreshedReleases
<1>3. RewardsDuration \in Nat /\ RewardsDuration > 0
  BY RewardsDurationAssumption
<1> HIDE DEF new, rest
<1>4. next.rewardRate = rate /\ next.periodFinish = t + RewardsDuration
  BY <1>1, <1>2 DEF Notified, RewardDataType, new
<1>5. Remaining(next, t) = RewardsDuration
  BY <1>3, <1>4 DEF Remaining
<1>6. total \in Nat
  BY <1>2
<1> HIDE DEF total
<1>7. rate \in Nat /\ RewardsDuration * rate \in Nat /\ total < RewardsDuration * rate + RewardsDuration
  <2>1. ASSUME NEW x \in Nat, NEW d \in Nat, d > 0
        PROVE  x \div d \in Nat /\ d * (x \div d) \in Nat /\ x < d * (x \div d) + d
    BY <2>1, DivRoundsDown
  <2> QED BY <1>3, <1>6, <2>1
<1> HIDE DEF rate
<1> QED BY <1>3, <1>4, <1>5, <1>6, <1>7 DEF total, rest

\* What reaches a pool that streams or queues it is promised on top of what was.
LEMMA NotifyOrQueueReleases ==
  ASSUME IInv, IInv', NEW p \in Pools, NEW amount \in Nat, NotifyOrQueue(p, amount), UNCHANGED now
  PROVE  Unreleased(p)' + RewardsDuration > Unreleased(p) + amount
<1>1. /\ rewardData \in [Pools -> RewardDataType] /\ queuedRewards \in [Pools -> Nat]
      /\ now \in Nat /\ totalSupply \in Nat
      /\ rewardData[p].lastUpdateTime <= now
      /\ rewardData[p].lastUpdateTime <= rewardData[p].periodFinish
  BY NowIsNat DEF IInv, StreamsOK, StreamFine, StakeOK
<1>2. RewardsDuration \in Nat /\ RewardsDuration > 0
  BY RewardsDurationAssumption
<1> DEFINE total == amount + queuedRewards[p]
           rest == Remaining(rewardData[p], now) * rewardData[p].rewardRate
<1>3. rest \in Nat /\ total \in Nat /\ queuedRewards[p] \in Nat
  BY <1>1, RefreshedReleases
<1>4. CASE Notify(p, total) /\ queuedRewards' = [queuedRewards EXCEPT ![p] = 0]
  <2> DEFINE next == Notified(Refreshed(rewardData[p], totalSupply, now), total, now)
  <2>1. rewardData'[p] = next /\ queuedRewards'[p] = 0
    BY <1>1, <1>4 DEF Notify
  <2>2. /\ Remaining(next, now) * next.rewardRate \in Nat
        /\ Remaining(next, now) * next.rewardRate + RewardsDuration > total + rest
    <3> HIDE DEF total
    <3> QED BY <1>1, <1>3, NotifiedReleases
  <2> HIDE DEF next
  <2>3. Unreleased(p)' = Remaining(next, now) * next.rewardRate
    BY <2>1, <2>2 DEF Unreleased
  <2>4. Unreleased(p) = queuedRewards[p] + rest
    BY DEF Unreleased
  <2> HIDE DEF rest
  <2> QED BY <1>2, <1>3, <2>2, <2>3, <2>4
<1>5. CASE UNCHANGED rewardData /\ queuedRewards' = [queuedRewards EXCEPT ![p] = total]
  <2>1. rewardData'[p] = rewardData[p] /\ queuedRewards'[p] = total
    BY <1>1, <1>5
  <2>2. Unreleased(p)' = total + rest
    BY <2>1 DEF Unreleased
  <2>3. Unreleased(p) = queuedRewards[p] + rest
    BY DEF Unreleased
  <2> HIDE DEF rest
  <2> QED BY <1>2, <1>3, <2>2, <2>3
<1> QED BY <1>4, <1>5 DEF NotifyOrQueue

\* A claim only takes tokens from the pools.
LEMMA ClaimTakes ==
  ASSUME IInv, NEW called, NEW claimed, claimed \subseteq called, called \subseteq CalledPools,
         NEW u \in Accounts, NEW olitTo, SettleAndPay(called, claimed, u, olitTo),
         NEW p \in Pools
  PROVE  held'[p] <= held[p]
<1> DEFINE uds == SettledUsers(called, {u})
           reward == IF p \in claimed THEN uds[p][u].rewards ELSE 0
<1>1. held'[p] = held[p] - reward
  BY DEF SettleAndPay
<1>2. held[p] \in Nat
  BY DEF IInv, StreamsOK
<1>3. reward \in Nat
  <2>1. CASE p \in claimed
    <3>1. uds[p][u].rewards = EarnedBy(u, p)
      BY <2>1 DEF SettledUsers, Settled, EarnedBy
    <3> QED BY <2>1, <3>1, EarnedFacts
  <2>2. CASE p \notin claimed
    BY <2>2
  <2> QED BY <2>1, <2>2
<1> HIDE DEF reward
<1> QED BY <1>1, <1>2, <1>3

\* Only funding adds to a pool's tokens.
LEMMA HeldGrowsByFunding ==
  ASSUME IInv, [Next]_vars, NEW p \in Pools, held'[p] > held[p]
  PROVE  \/ p = Base /\ \E amount \in 0..funds[Base] : QueueNewRewards(amount)
         \/ p \in Extras /\ \E amount \in 1..funds[p] : QueueExtraRewards(p, amount)
<1>1. held \in [Pools -> Nat]
  BY DEF IInv, StreamsOK
<1>2. ASSUME held' = held PROVE FALSE
  BY <1>1, <1>2
<1>3. ASSUME NEW called, NEW claimed, claimed \subseteq called, called \subseteq CalledPools,
             NEW u \in Accounts, NEW olitTo, SettleAndPay(called, claimed, u, olitTo)
      PROVE  FALSE
  <2>1. held'[p] <= held[p]
    BY <1>3, ClaimTakes
  <2>2. held'[p] \in Int /\ held[p] \in Int
    <3>1. held'[p] = held[p] - (IF p \in claimed THEN SettledUsers(called, {u})[p][u].rewards ELSE 0)
      BY <1>3 DEF SettleAndPay
    <3>2. p \in claimed => SettledUsers(called, {u})[p][u].rewards = EarnedBy(u, p)
      BY <1>3 DEF SettledUsers, Settled, EarnedBy
    <3>3. EarnedBy(u, p) \in Nat
      BY <1>3, EarnedFacts
    <3> QED BY <1>1, <3>1, <3>2, <3>3
  <2> QED BY <2>1, <2>2
<1>4. {Base} \subseteq CalledPools /\ created \subseteq CalledPools
  BY DEF IInv, LinksOK, CalledPools
<1>5. ~UNCHANGED vars /\ ~Tick /\ ~ProcessIdleRewards /\ \A e \in Extras : ~CreateTokenRewards(e)
  BY <1>2 DEF vars, Tick, ProcessIdleRewards, CreateTokenRewards
<1>6. ASSUME NEW u \in Accounts, NEW to \in Accounts, NEW amount
      PROVE  ~Stake(u, to, amount) /\ ~Transfer(u, to, amount)
  BY <1>2 DEF Stake, Transfer, MoveShares, Settle
<1>7. ASSUME NEW u \in Accounts, NEW caller, NEW to \in Accounts, NEW amount
      PROVE  ~WithdrawFrom(caller, u, to, amount) /\ ~TransferFrom(caller, u, to, amount)
  BY <1>2 DEF WithdrawFrom, TransferFrom, MoveShares, Settle
<1>8. ASSUME NEW u, NEW caller, NEW amount
      PROVE  ~Approve(u, caller, amount) /\ ~ModifyPermission(u, caller, amount)
  BY <1>2 DEF Approve, ModifyPermission
<1>9. ASSUME NEW u \in Accounts, NEW amount, NEW claim
      PROVE  ~Withdraw(u, amount, claim)
  BY <1>2, <1>3 DEF Withdraw, Settle
<1>10. ASSUME NEW u \in Accounts, NEW caller, NEW claimExtras
       PROVE  ~GetReward(u, claimExtras) /\ ~GetRewardFor(caller, u, claimExtras)
  BY <1>3, <1>4 DEF GetReward, GetRewardFor
<1>11. ASSUME NEW u \in Accounts, NEW e \in Extras
       PROVE  ~GetExtraReward(e, u)
  BY <1>3, <1>4 DEF GetExtraReward
<1>12. Next
  BY <1>5
<1>13. \/ \E amount \in 0..funds[Base] : QueueNewRewards(amount)
       \/ \E e \in Extras : \E amount \in 1..funds[e] : QueueExtraRewards(e, amount)
  BY <1>5, <1>6, <1>7, <1>8, <1>9, <1>10, <1>11, <1>12 DEF Next
<1>14. ASSUME NEW amount, QueueNewRewards(amount) PROVE p = Base
  BY <1>1, <1>14 DEF QueueNewRewards
<1>15. ASSUME NEW e \in Extras, NEW amount, QueueExtraRewards(e, amount) PROVE p = e
  BY <1>1, <1>15 DEF QueueExtraRewards
<1> QED BY <1>13, <1>14, <1>15

\* A reward below the weekly cap is streamed or waits to be, on top of what was before.
THEOREM NothingStranded == Spec => NoRewardStranded
<1> DEFINE Body(p) ==
             /\ held'[p] > held[p]
             /\ p \in Extras => epochRewards'[p][ThisWeek] <= EpochCap
             => Unreleased(p)' + RewardsDuration > Unreleased(p) + held'[p] - held[p]
<1>1. ASSUME IInv, IInv', [Next]_vars, NEW p \in Pools, held'[p] > held[p],
             p \in Extras => epochRewards'[p][ThisWeek] <= EpochCap
      PROVE  Unreleased(p)' + RewardsDuration > Unreleased(p) + held'[p] - held[p]
  <2>1. /\ held \in [Pools -> Nat] /\ funds \in [Pools -> Nat]
        /\ queuedRewards \in [Pools -> Nat] /\ epochRewards \in [Extras -> [Weeks -> Nat]]
        /\ Base \in Pools /\ ThisWeek \in Weeks
    BY <1>1, ThisWeekIsAWeek DEF IInv, StreamsOK, FundsOK, Pools
  <2>2. Unreleased(p) \in Nat
    <3>1. /\ rewardData[p] \in RewardDataType /\ now \in Nat
          /\ rewardData[p].lastUpdateTime <= now
          /\ rewardData[p].lastUpdateTime <= rewardData[p].periodFinish
      BY <1>1, NowIsNat DEF IInv, StreamsOK, StreamFine
    <3>2. 0 \in Nat
      OBVIOUS
    <3>3. Remaining(rewardData[p], now) * rewardData[p].rewardRate \in Nat
      BY <3>1, <3>2, RefreshedReleases
    <3> QED BY <2>1, <3>3 DEF Unreleased
  <2>3. ASSUME NEW amount \in Nat, NotifyOrQueue(p, amount), UNCHANGED now,
               held'[p] = held[p] + amount
        PROVE  Unreleased(p)' + RewardsDuration > Unreleased(p) + held'[p] - held[p]
    <3>1. Unreleased(p)' + RewardsDuration > Unreleased(p) + amount
      BY <1>1, <2>3, NotifyOrQueueReleases
    <3>2. Unreleased(p) + held'[p] - held[p] = Unreleased(p) + amount
      BY <2>1, <2>2, <2>3
    <3> QED BY <3>1, <3>2
  <2>4. CASE p = Base /\ \E amount \in 0..funds[Base] : QueueNewRewards(amount)
    <3>1. PICK amount \in 0..funds[Base] : QueueNewRewards(amount)
      BY <2>4
    <3>2. amount \in Nat
      BY <2>1
    <3> QED BY <2>1, <2>3, <2>4, <3>1, <3>2 DEF QueueNewRewards
  <2>5. CASE p \in Extras /\ \E amount \in 1..funds[p] : QueueExtraRewards(p, amount)
    <3>1. PICK amount \in 1..funds[p] : QueueExtraRewards(p, amount)
      BY <2>5
    <3>2. amount \in Nat
      BY <2>1
    <3>3. epochRewards'[p][ThisWeek] = epochRewards[p][ThisWeek] + amount
      BY <2>1, <2>5, <3>1 DEF QueueExtraRewards
    <3>4. epochRewards[p][ThisWeek] + amount <= EpochCap
      BY <1>1, <2>5, <3>3
    <3>5. NotifyOrQueue(p, amount)
      <4>1. EpochCap \in Nat /\ epochRewards[p][ThisWeek] + amount \in Nat
        BY <2>1, <2>5, <3>2, AmountAssumption
      <4> QED BY <3>1, <3>4, <4>1 DEF QueueExtraRewards
    <3>6. held'[p] = held[p] + amount /\ UNCHANGED now
      BY <2>1, <3>1 DEF QueueExtraRewards
    <3> QED BY <2>3, <3>2, <3>5, <3>6
  <2> QED BY <1>1, <2>4, <2>5, HeldGrowsByFunding
<1>2. IInv /\ IInv' /\ [Next]_vars => [\A p \in Pools : Body(p)]_vars
  BY <1>1
<1> QED BY <1>2, Invariance, PTL DEF Spec, NoRewardStranded
=================================================================================
