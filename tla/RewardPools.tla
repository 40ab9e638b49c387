------------------------------- MODULE RewardPools -------------------------------
(***************************************************************************)
(* convex-platform BaseRewardPool, BaseRewardPool4626 and the               *)
(* VirtualBalanceRewardPools linked to it: accounts stake in the base pool, *)
(* which streams oLIT to them, and every linked pool streams another token  *)
(* by the same balances, which it reads from the base pool.  A stake, a     *)
(* withdrawal or a transfer therefore has to call each linked pool before   *)
(* the balances change.                                                     *)
(*                                                                          *)
(* The LP token, the deposit token that the Booster mints for it one to one *)
(* and the wallet an account keeps them in are one: `wallet`.  The LIQ that *)
(* Booster.rewardClaimed mints on a claim is left to the Booster.           *)
(***************************************************************************)
EXTENDS Integers, FiniteSets, Sums, RewardStream

CONSTANTS
  NumAccounts,        \* accounts 1..NumAccounts
  Base,               \* the base pool
  Extras,             \* the virtual pools that may be created for it
  Operators,          \* callers with an allowance or a permission of an account
  StartTime,
  MaxTime,            \* bound on the clock
  InitialWallet,      \* what every account can stake
  InitialOlit,        \* oLIT with the Booster, for the base pool
  InitialExtra,       \* reward tokens with the stash or the Booster, for each virtual pool
  MaxExtras,          \* 12
  PoolLimit,          \* what the stash (4 + 8) or the Booster (10) will create
  EpochCap,           \* 1e31
  AllowanceValues     \* what an owner may approve

Accounts == 1..NumAccounts
Pools == Extras \cup {Base}

ASSUME AccountsAssumption == NumAccounts \in Nat /\ Operators \subseteq Accounts
ASSUME PoolsAssumption == Base \notin Extras /\ PoolLimit \in Nat /\ MaxExtras \in Nat /\ PoolLimit <= MaxExtras
ASSUME TimeAssumption == StartTime \in Nat /\ MaxTime \in Nat /\ RewardsDuration <= StartTime /\ StartTime <= MaxTime
ASSUME AmountAssumption ==
  /\ InitialWallet \in Nat /\ InitialOlit \in Nat /\ InitialExtra \in Nat /\ EpochCap \in Nat
  /\ AllowanceValues \subseteq Nat

VARIABLES
  now,                \* block.timestamp
  totalSupply,        \* _totalSupply of the base pool
  balances,           \* account -> _balances of the base pool
  allowances,         \* account -> operator -> shares it may move
  permitted,          \* pairs <<owner, caller>>
  created,            \* the virtual pools that exist
  extraRewards,       \* those that the base pool calls
  rewardData,         \* pool -> its stream
  queuedRewards,      \* pool -> rewards that wait for the next stream
  userData,           \* pool -> account -> what is settled
  epochRewards,       \* virtual pool -> week -> rewards it was sent
  staked,             \* deposit tokens the base pool holds
  wallet,             \* account -> what it holds of them
  held,               \* pool -> reward tokens it holds
  funds,              \* pool -> reward tokens it may yet be sent
  received            \* account -> pool -> reward tokens paid to it

stakeVars == <<totalSupply, balances, staked, wallet>>
accessVars == <<allowances, permitted>>
linkVars == <<created, extraRewards>>
fundVars == <<queuedRewards, epochRewards, funds>>
vars == <<now, stakeVars, accessVars, linkVars, fundVars, rewardData, userData, held, received>>

Weeks == (StartTime \div RewardsDuration)..(MaxTime \div RewardsDuration)

----------------------------------------------------------------------------------
(* updateReward *)

PerToken(p) == RewardPerToken(rewardData[p], totalSupply, now)

\* earned, of any of the pools.
EarnedBy(u, p) == Earned(userData[p][u], balances[u], PerToken(p))

\* Slip: the linked pools are not told.
BasePoolOnly == {Base}

\* The pools that a stake, a withdrawal or a transfer settles.
CalledPools == extraRewards \cup {Base}

\* The modifier in each of `pools`.
RefreshedPools(pools) ==
  [p \in Pools |-> IF p \in pools THEN Refreshed(rewardData[p], totalSupply, now) ELSE rewardData[p]]

SettledUsers(pools, users) ==
  [p \in Pools |-> [u \in Accounts |->
     IF p \in pools /\ u \in users THEN Settled(userData[p][u], balances[u], PerToken(p))
     ELSE userData[p][u]]]

Settle(pools, users) ==
  /\ rewardData' = RefreshedPools(pools)
  /\ userData' = SettledUsers(pools, users)
  /\ UNCHANGED <<held, received>>

\* The pools in `called` settle u, and those in `claimed` pay it, oLIT to `olitTo`.
SettleAndPay(called, claimed, u, olitTo) ==
  LET reward(p) == IF p \in claimed THEN SettledUsers(called, {u})[p][u].rewards ELSE 0
      payee(p)  == IF p = Base THEN olitTo ELSE u
  IN
  /\ \A p \in claimed : reward(p) <= held[p]
  /\ rewardData' = RefreshedPools(called)
  /\ userData' = [p \in Pools |-> IF p \in claimed
                                  THEN [SettledUsers(called, {u})[p] EXCEPT ![u].rewards = 0]
                                  ELSE SettledUsers(called, {u})[p]]
  /\ held' = [p \in Pools |-> held[p] - reward(p)]
  /\ received' = [a \in Accounts |-> [p \in Pools |->
                    received[a][p] + (IF a = payee(p) THEN reward(p) ELSE 0)]]

----------------------------------------------------------------------------------
(* Staking *)

\* stake, stakeAll, stakeFor, deposit and mint.
Stake(sender, receiver, amount) ==
  /\ amount \in 1..wallet[sender]
  /\ Settle(CalledPools, {receiver})
  /\ totalSupply' = totalSupply + amount
  /\ balances' = [balances EXCEPT ![receiver] = @ + amount]
  /\ wallet' = [wallet EXCEPT ![sender] = @ - amount]
  /\ staked' = staked + amount
  /\ UNCHANGED <<now, accessVars, linkVars, fundVars>>

\* The balances after a withdrawal, and the tokens on their way to the receiver.
TakeStake(owner, receiver, amount) ==
  /\ amount <= balances[owner] /\ amount <= totalSupply /\ amount <= staked
  /\ totalSupply' = totalSupply - amount
  /\ balances' = [balances EXCEPT ![owner] = @ - amount]
  /\ staked' = staked - amount
  /\ wallet' = [wallet EXCEPT ![receiver] = @ + amount]

\* withdraw, withdrawAll, withdrawAndUnwrap and withdrawAllAndUnwrap: a claim
\* follows when the balances have changed, in the same block.
Withdraw(u, amount, claim) ==
  /\ amount > 0
  /\ TakeStake(u, u, amount)
  /\ \/ ~claim /\ Settle(CalledPools, {u})
     \/ claim /\ SettleAndPay(CalledPools, CalledPools, u, u)
  /\ UNCHANGED <<now, accessVars, linkVars, fundVars>>

\* withdraw and redeem of the ERC4626 interface by an operator.
WithdrawFrom(caller, owner, receiver, amount) ==
  /\ amount \in 1..allowances[owner][caller]
  /\ TakeStake(owner, receiver, amount)
  /\ Settle(CalledPools, {owner})
  /\ allowances' = [allowances EXCEPT ![owner][caller] = @ - amount]
  /\ UNCHANGED <<now, permitted, linkVars, fundVars>>

\* Slip: the receiver is not settled.
MoveSharesFrom(from, to, amount) ==
  /\ amount <= balances[from]
  /\ Settle(CalledPools, {from})
  /\ balances' = [u \in Accounts |-> balances[u] - (IF u = from THEN amount ELSE 0)
                                                 + (IF u = to THEN amount ELSE 0)]

\* _transfer: both accounts are settled, which may be one.
MoveShares(from, to, amount) ==
  /\ amount <= balances[from]
  /\ Settle(CalledPools, {from, to})
  /\ balances' = [u \in Accounts |-> balances[u] - (IF u = from THEN amount ELSE 0)
                                                 + (IF u = to THEN amount ELSE 0)]

Transfer(from, to, amount) ==
  /\ amount > 0
  /\ MoveShares(from, to, amount)
  /\ UNCHANGED <<now, totalSupply, staked, wallet, accessVars, linkVars, fundVars>>

TransferFrom(caller, from, to, amount) ==
  /\ amount \in 1..allowances[from][caller]
  /\ MoveShares(from, to, amount)
  /\ allowances' = [allowances EXCEPT ![from][caller] = @ - amount]
  /\ UNCHANGED <<now, totalSupply, staked, wallet, permitted, linkVars, fundVars>>

Approve(owner, spender, amount) ==
  /\ allowances' = [allowances EXCEPT ![owner][spender] = amount]
  /\ UNCHANGED <<now, stakeVars, permitted, linkVars, fundVars, rewardData, userData, held, received>>

----------------------------------------------------------------------------------
(* Claiming *)

\* getReward of the base pool, for anyone.
GetReward(u, claimExtras) ==
  LET claimed == IF claimExtras THEN CalledPools ELSE {Base} IN
  /\ SettleAndPay(claimed, claimed, u, u)
  /\ UNCHANGED <<now, stakeVars, accessVars, linkVars, fundVars>>

\* Slip: anyone may redirect the oLIT.
AnyoneMay(owner, caller) == TRUE

HasPermission(owner, caller) == owner = caller \/ <<owner, caller>> \in permitted

GetRewardFor(caller, u, claimExtras) ==
  LET claimed == IF claimExtras THEN CalledPools ELSE {Base} IN
  /\ HasPermission(u, caller)
  /\ SettleAndPay(claimed, claimed, u, caller)
  /\ UNCHANGED <<now, stakeVars, accessVars, linkVars, fundVars>>

\* getReward of a virtual pool.
GetExtraReward(p, u) ==
  /\ p \in created
  /\ SettleAndPay({p}, {p}, u, u)
  /\ UNCHANGED <<now, stakeVars, accessVars, linkVars, fundVars>>

ModifyPermission(owner, caller, grant) ==
  /\ permitted' = IF grant THEN permitted \cup {<<owner, caller>>} ELSE permitted \ {<<owner, caller>>}
  /\ UNCHANGED <<now, stakeVars, allowances, linkVars, fundVars, rewardData, userData, held, received>>

----------------------------------------------------------------------------------
(* Funding *)

\* notifyRewardAmount: its modifier refreshes the stream first.
Notify(p, reward) ==
  rewardData' = [rewardData EXCEPT ![p] = Notified(Refreshed(@, totalSupply, now), reward, now)]

\* The rest of queueNewRewards: the ratio has the reward for its divisor.
NotifyOrQueue(p, amount) ==
  LET total == amount + queuedRewards[p] IN
  /\ now < rewardData[p].periodFinish => total > 0
  /\ \/ /\ ~Waits(rewardData[p], total, now)
        /\ Notify(p, total)
        /\ queuedRewards' = [queuedRewards EXCEPT ![p] = 0]
     \/ /\ Waits(rewardData[p], total, now)
        /\ queuedRewards' = [queuedRewards EXCEPT ![p] = total]
        /\ UNCHANGED rewardData

\* The Booster sends oLIT to the base pool and queues it.
QueueNewRewards(amount) ==
  /\ amount <= funds[Base]
  /\ NotifyOrQueue(Base, amount)
  /\ funds' = [funds EXCEPT ![Base] = @ - amount]
  /\ held' = [held EXCEPT ![Base] = @ + amount]
  /\ UNCHANGED <<now, stakeVars, accessVars, linkVars, epochRewards, userData, received>>

ThisWeek == now \div RewardsDuration

\* Slip: a reward that just fills the cap is not streamed.
QueueBelowCap(p, amount) ==
  LET sent == epochRewards[p][ThisWeek] + amount IN
  /\ p \in created
  /\ amount \in 1..funds[p]
  /\ epochRewards' = [epochRewards EXCEPT ![p][ThisWeek] = sent]
  /\ \/ sent >= EpochCap /\ UNCHANGED <<rewardData, queuedRewards>>
     \/ sent < EpochCap /\ NotifyOrQueue(p, amount)
  /\ funds' = [funds EXCEPT ![p] = @ - amount]
  /\ held' = [held EXCEPT ![p] = @ + amount]
  /\ UNCHANGED <<now, stakeVars, accessVars, linkVars, userData, received>>

\* The stash or the Booster does the same for a virtual pool; what exceeds the
\* week's cap is kept and never streamed.
QueueExtraRewards(p, amount) ==
  LET sent == epochRewards[p][ThisWeek] + amount IN
  /\ p \in created
  /\ amount \in 1..funds[p]
  /\ epochRewards' = [epochRewards EXCEPT ![p][ThisWeek] = sent]
  /\ \/ sent > EpochCap /\ UNCHANGED <<rewardData, queuedRewards>>
     \/ sent <= EpochCap /\ NotifyOrQueue(p, amount)
  /\ funds' = [funds EXCEPT ![p] = @ - amount]
  /\ held' = [held EXCEPT ![p] = @ + amount]
  /\ UNCHANGED <<now, stakeVars, accessVars, linkVars, userData, received>>

ProcessIdleRewards ==
  /\ now >= rewardData[Base].periodFinish
  /\ queuedRewards[Base] > 0
  /\ Notify(Base, queuedRewards[Base])
  /\ queuedRewards' = [queuedRewards EXCEPT ![Base] = 0]
  /\ UNCHANGED <<now, stakeVars, accessVars, linkVars, epochRewards, funds, userData, held, received>>

\* addExtraReward: a pool too many is not linked, and nobody is told.
Linked(p) ==
  IF Cardinality(extraRewards) >= MaxExtras THEN extraRewards ELSE extraRewards \cup {p}

\* RewardFactory.CreateTokenRewards for setExtraReward, for a new reward of the
\* gauge or for setFeeInfo.
CreateTokenRewards(p) ==
  /\ p \notin created
  /\ Cardinality(created) < PoolLimit
  /\ created' = created \cup {p}
  /\ extraRewards' = Linked(p)
  /\ UNCHANGED <<now, stakeVars, accessVars, fundVars, rewardData, userData, held, received>>

----------------------------------------------------------------------------------

Init ==
  /\ now = StartTime
  /\ totalSupply = 0
  /\ balances = [u \in Accounts |-> 0]
  /\ allowances = [u \in Accounts |-> [o \in Operators |-> 0]]
  /\ permitted = {}
  /\ created = {} /\ extraRewards = {}
  /\ rewardData = [p \in Pools |-> NoRewardData]
  /\ queuedRewards = [p \in Pools |-> 0]
  /\ userData = [p \in Pools |-> [u \in Accounts |-> NoUserData]]
  /\ epochRewards = [p \in Extras |-> [w \in Weeks |-> 0]]
  /\ staked = 0
  /\ wallet = [u \in Accounts |-> InitialWallet]
  /\ held = [p \in Pools |-> 0]
  /\ funds = [p \in Pools |-> IF p = Base THEN InitialOlit ELSE InitialExtra]
  /\ received = [u \in Accounts |-> [p \in Pools |-> 0]]

Tick ==
  /\ now < MaxTime
  /\ now' = now + 1
  /\ UNCHANGED <<stakeVars, accessVars, linkVars, fundVars, rewardData, userData, held, received>>

Next ==
  \/ Tick
  \/ \E u \in Accounts :
       \/ \E receiver \in Accounts, amount \in 1..wallet[u] : Stake(u, receiver, amount)
       \/ \E amount \in 1..totalSupply, claim \in BOOLEAN : Withdraw(u, amount, claim)
       \/ \E to \in Accounts, amount \in 1..totalSupply : Transfer(u, to, amount)
       \/ \E caller \in Operators, to \in Accounts, amount \in 1..totalSupply :
            WithdrawFrom(caller, u, to, amount) \/ TransferFrom(caller, u, to, amount)
       \/ \E spender \in Operators \ {u}, amount \in AllowanceValues : Approve(u, spender, amount)
       \/ \E claimExtras \in BOOLEAN : GetReward(u, claimExtras)
       \/ \E caller \in Operators \cup {u}, claimExtras \in BOOLEAN : GetRewardFor(caller, u, claimExtras)
       \/ \E caller \in Operators \ {u}, grant \in BOOLEAN : ModifyPermission(u, caller, grant)
       \/ \E p \in Extras : GetExtraReward(p, u)
  \/ \E amount \in 0..funds[Base] : QueueNewRewards(amount)
  \/ \E p \in Extras :
       \/ \E amount \in 1..funds[p] : QueueExtraRewards(p, amount)
       \/ CreateTokenRewards(p)
  \/ ProcessIdleRewards

Spec == Init /\ [][Next]_vars

----------------------------------------------------------------------------------
(* Properties *)

TypeOK ==
  /\ now \in StartTime..MaxTime
  /\ totalSupply \in Nat
  /\ balances \in [Accounts -> Nat]
  /\ allowances \in [Accounts -> [Operators -> Nat]]
  /\ permitted \subseteq Accounts \X Operators
  /\ created \subseteq Extras /\ extraRewards \subseteq created
  /\ rewardData \in [Pools -> RewardDataType]
  /\ queuedRewards \in [Pools -> Nat]
  /\ userData \in [Pools -> [Accounts -> UserDataType]]
  /\ epochRewards \in [Extras -> [Weeks -> Nat]]
  /\ staked \in Nat
  /\ wallet \in [Accounts -> Nat]
  /\ held \in [Pools -> Nat]
  /\ funds \in [Pools -> Nat]
  /\ received \in [Accounts -> [Pools -> Nat]]

\* What pool p has promised: earned by the accounts, waiting, or yet to be released.
Unreleased(p) == queuedRewards[p] + Remaining(rewardData[p], now) * rewardData[p].rewardRate

\* The reward tokens of every pool, also of one created or funded when accounts had
\* staked already, cover what all accounts have earned of it, what waits and what
\* the running stream will still release.
PoolSolvency ==
  \A p \in Pools :
    SumTo([u \in Accounts |-> EarnedBy(u, p)], NumAccounts) + Unreleased(p) <= held[p]

\* Every staked token can be withdrawn: supply, balances and tokens agree.
StakeBacked ==
  /\ totalSupply = SumTo(balances, NumAccounts)
  /\ totalSupply = staked

\* Rewards of any pool are earned by the passing of time alone: a stake, a transfer
\* (to oneself, too), a withdrawal or a new pool makes nobody's earnings jump.
NoRetroactiveRewards ==
  [][now' = now => \A u \in Accounts, p \in Pools : EarnedBy(u, p)' <= EarnedBy(u, p)]_vars

\* What an account has earned of any pool shrinks only when it is paid to it in
\* full; the oLIT of the base pool may go to a caller with its permission.
EarningsReachOwner ==
  [][\A u \in Accounts, p \in Pools :
       EarnedBy(u, p)' < EarnedBy(u, p) =>
         /\ EarnedBy(u, p)' = 0
         /\ \E a \in Accounts :
              /\ received'[a][p] = received[a][p] + EarnedBy(u, p)
              /\ a # u => p = Base /\ <<u, a>> \in permitted]_vars

\* A reward that reaches a pool below its weekly cap is streamed or waits to be,
\* on top of what was before, but for the rounding of the rate.
NoRewardStranded ==
  [][\A p \in Pools :
       /\ held'[p] > held[p]
       /\ p \in Extras => epochRewards'[p][ThisWeek] <= EpochCap
       => Unreleased(p)' + RewardsDuration > Unreleased(p) + held'[p] - held[p]]_vars
=================================================================================
