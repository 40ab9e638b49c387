-------------------------------- MODULE Booster --------------------------------
(***************************************************************************)
(* Booster as the keeper of LP tokens, with those it works with: VoterProxy *)
(* that stakes them in the gauges, a DepositToken per pool that stands for  *)
(* them, PoolManager and PoolManagerProxy that add and shut down pools, and *)
(* BoosterOwner that shuts down the system.  The tokens of an open pool are *)
(* in its gauge, those of a closed one in the Booster.                      *)
(*                                                                          *)
(* An account's deposit tokens of a pool are one number, whether it holds   *)
(* them or staked them (RewardPools), as withdraw and withdrawTo take both. *)
(* The operator of PoolManagerProxy is PoolManager and its owner a DAO, as  *)
(* deployed.  A gauge may stop and go on again, but loses nothing.  What    *)
(* another Booster does with VoterProxy after this one is not followed.     *)
(***************************************************************************)
EXTENDS Integers, Sequences, Sums

CONSTANTS
  NumGauges,          \* gauges 1..NumGauges
  LpTokens,
  LpToken,            \* gauge -> lp_token
  NumAccounts,
  MaxPools,           \* bound on the pools
  FORCE_DELAY,
  MaxTime,            \* bound on the clock
  InitialWallet       \* what every account has of every LP token

Gauges == 1..NumGauges
Accounts == 1..NumAccounts
Pids == 1..MaxPools

ASSUME CountsAssumption == NumGauges \in Nat /\ NumAccounts \in Nat /\ MaxPools \in Nat
ASSUME TokensAssumption == LpToken \in [Gauges -> LpTokens] /\ InitialWallet \in Nat
ASSUME TimeAssumption == FORCE_DELAY \in Nat /\ MaxTime \in Nat

VARIABLES
  now,                \* block.timestamp
  poolInfo,           \* the pools: [gauge, shutdown]
  gaugeMap,           \* gauge -> whether a pool may not be added for it
  isShutdown,         \* of the Booster
  managerShutdown,    \* isShutdown of PoolManagerProxy
  isForceTimerStarted, forceTimestamp,
  operating,          \* this Booster is VoterProxy's operator
  halted,             \* the gauges that pay nothing out and take nothing in
  wallet,             \* account -> LP token -> what it holds
  deposits,           \* pid -> account -> deposit tokens
  atStaker,           \* LP token -> what VoterProxy holds
  inBooster,          \* LP token -> what the Booster holds
  inGauge             \* gauge -> what it holds for VoterProxy

tokenVars == <<wallet, deposits, atStaker, inBooster, inGauge>>
poolVars == <<poolInfo, gaugeMap>>
forceVars == <<isForceTimerStarted, forceTimestamp>>
switchVars == <<isShutdown, managerShutdown, operating, halted>>
vars == <<now, tokenVars, poolVars, forceVars, switchVars>>

Pool(pid) == poolInfo[pid]
LpOf(pid) == LpToken[Pool(pid).gauge]
TotalSupply(pid) == SumTo(deposits[pid], NumAccounts)
OpenPids == {pid \in DOMAIN poolInfo : ~Pool(pid).shutdown}

----------------------------------------------------------------------------------
(* Deposits and withdrawals *)

\* deposit and depositAll: VoterProxy stakes all of the LP token that it holds.
Deposit(u, pid, amount) ==
  LET lp == LpOf(pid)
      staked == atStaker[lp] + amount
  IN
  /\ ~isShutdown /\ ~Pool(pid).shutdown
  /\ operating
  /\ amount <= wallet[u][lp]
  /\ staked > 0 => Pool(pid).gauge \notin halted
  /\ wallet' = [wallet EXCEPT ![u][lp] = @ - amount]
  /\ atStaker' = [atStaker EXCEPT ![lp] = 0]
  /\ inGauge' = [inGauge EXCEPT ![Pool(pid).gauge] = @ + staked]
  /\ deposits' = [deposits EXCEPT ![pid][u] = @ + amount]
  /\ UNCHANGED <<now, inBooster, poolVars, forceVars, switchVars>>

\* VoterProxy.withdraw: what it holds goes first, the gauge pays the rest.
PullFromGauge(pid, amount) ==
  LET lp == LpOf(pid)
      gauge == Pool(pid).gauge
      rest == IF atStaker[lp] < amount THEN amount - atStaker[lp] ELSE 0
  IN
  /\ operating
  /\ rest > 0 => gauge \notin halted
  /\ rest <= inGauge[gauge]
  /\ inGauge' = [inGauge EXCEPT ![gauge] = @ - rest]
  /\ atStaker' = [atStaker EXCEPT ![lp] = @ + rest - amount]
  /\ UNCHANGED inBooster

\* A closed pool's tokens are in the Booster.
PayFromBooster(pid, amount) ==
  /\ amount <= inBooster[LpOf(pid)]
  /\ inBooster' = [inBooster EXCEPT ![LpOf(pid)] = @ - amount]
  /\ UNCHANGED <<atStaker, inGauge>>

\* Slip: the gauge pays until the system, and not the pool, is shut down.
WithdrawBySystemState(u, to, pid, amount) ==
  /\ amount <= deposits[pid][u]
  /\ deposits' = [deposits EXCEPT ![pid][u] = @ - amount]
  /\ \/ ~isShutdown /\ PullFromGauge(pid, amount)
     \/ isShutdown /\ PayFromBooster(pid, amount)
  /\ wallet' = [wallet EXCEPT ![to][LpOf(pid)] = @ + amount]
  /\ UNCHANGED <<now, poolVars, forceVars, switchVars>>

\* withdraw, withdrawAll and withdrawTo.
Withdraw(u, to, pid, amount) ==
  /\ amount <= deposits[pid][u]
  /\ deposits' = [deposits EXCEPT ![pid][u] = @ - amount]
  /\ \/ ~Pool(pid).shutdown /\ PullFromGauge(pid, amount)
     \/ Pool(pid).shutdown /\ PayFromBooster(pid, amount)
  /\ wallet' = [wallet EXCEPT ![to][LpOf(pid)] = @ + amount]
  /\ UNCHANGED <<now, poolVars, forceVars, switchVars>>

\* LP tokens sent to VoterProxy directly.
SendToStaker(u, lp, amount) ==
  /\ amount \in 1..wallet[u][lp]
  /\ wallet' = [wallet EXCEPT ![u][lp] = @ - amount]
  /\ atStaker' = [atStaker EXCEPT ![lp] = @ + amount]
  /\ UNCHANGED <<now, deposits, inBooster, inGauge, poolVars, forceVars, switchVars>>

----------------------------------------------------------------------------------
(* Pools *)

\* Slip: the gauge may have a pool already.
AddAnyPool(gauge) ==
  /\ ~managerShutdown /\ ~isShutdown
  /\ Len(poolInfo) < MaxPools
  /\ poolInfo' = Append(poolInfo, [gauge |-> gauge, shutdown |-> FALSE])
  /\ gaugeMap' = [gaugeMap EXCEPT ![gauge] = TRUE]
  /\ UNCHANGED <<now, tokenVars, forceVars, switchVars>>

\* PoolManager, for a gauge that has weight, PoolManagerProxy and Booster.  The gauge
\* of an open pool is refused; an LP token is never a gauge.
AddPool(gauge) ==
  /\ ~managerShutdown /\ ~isShutdown
  /\ ~gaugeMap[gauge]
  /\ Len(poolInfo) < MaxPools
  /\ poolInfo' = Append(poolInfo, [gauge |-> gauge, shutdown |-> FALSE])
  /\ gaugeMap' = [gaugeMap EXCEPT ![gauge] = TRUE]
  /\ UNCHANGED <<now, tokenVars, forceVars, switchVars>>

\* Whether VoterProxy.withdrawAll does not revert.
CanWithdrawAll(gauge) == operating /\ (inGauge[gauge] > 0 => gauge \notin halted)

\* VoterProxy.withdrawAll, for one gauge after the other, where it does not revert.
Recovered(gauges, lp) ==
  SumTo([g \in Gauges |-> IF g \in gauges /\ LpToken[g] = lp THEN inGauge[g] ELSE 0], NumGauges)
    + (IF \E g \in gauges : LpToken[g] = lp THEN atStaker[lp] ELSE 0)

WithdrawAll(gauges) ==
  /\ inBooster' = [lp \in LpTokens |-> inBooster[lp] + Recovered(gauges, lp)]
  /\ atStaker' = [lp \in LpTokens |-> IF \E g \in gauges : LpToken[g] = lp THEN 0 ELSE atStaker[lp]]
  /\ inGauge' = [g \in Gauges |-> IF g \in gauges THEN 0 ELSE inGauge[g]]
  /\ UNCHANGED <<wallet, deposits>>

WithPoolsShutdown(pids) ==
  [pid \in DOMAIN poolInfo |->
     IF pid \in pids THEN [Pool(pid) EXCEPT !.shutdown = TRUE] ELSE Pool(pid)]

\* Slip: what has been withdrawn is not compared with the supply.
ShutdownPoolUnchecked(pid) ==
  LET gauge == Pool(pid).gauge
      gauges == IF CanWithdrawAll(gauge) THEN {gauge} ELSE {}
  IN
  /\ ~managerShutdown
  /\ ~Pool(pid).shutdown
  /\ WithdrawAll(gauges)
  /\ poolInfo' = WithPoolsShutdown({pid})
  /\ gaugeMap' = [gaugeMap EXCEPT ![gauge] = FALSE]
  /\ UNCHANGED <<now, forceVars, switchVars>>

\* PoolManager, PoolManagerProxy and Booster.  The Booster swallows a failing
\* withdrawal; PoolManager then finds too little.
ShutdownPool(pid) ==
  LET gauge == Pool(pid).gauge
      gauges == IF CanWithdrawAll(gauge) THEN {gauge} ELSE {}
  IN
  /\ ~managerShutdown
  /\ ~Pool(pid).shutdown
  /\ Recovered(gauges, LpOf(pid)) >= TotalSupply(pid)
  /\ WithdrawAll(gauges)
  /\ poolInfo' = WithPoolsShutdown({pid})
  /\ gaugeMap' = [gaugeMap EXCEPT ![gauge] = FALSE]
  /\ UNCHANGED <<now, forceVars, switchVars>>

----------------------------------------------------------------------------------
(* The end of the system *)

\* PoolManagerProxy.shutdownSystem: no pool can be added or shut down any more.
ShutdownManager ==
  /\ managerShutdown' = TRUE
  /\ UNCHANGED <<now, tokenVars, poolVars, forceVars, isShutdown, operating, halted>>

\* Booster.shutdownSystem: a pool that cannot be emptied stays open.
ShutdownSystem ==
  LET emptied == {pid \in OpenPids : CanWithdrawAll(Pool(pid).gauge)} IN
  /\ WithdrawAll({Pool(pid).gauge : pid \in emptied})
  /\ poolInfo' = WithPoolsShutdown(emptied)
  /\ isShutdown' = TRUE
  /\ UNCHANGED <<now, gaugeMap, forceVars, managerShutdown, operating, halted>>

\* BoosterOwner.shutdownSystem.
ShutdownInOrder ==
  /\ managerShutdown
  /\ OpenPids = {}
  /\ ShutdownSystem

QueueForceShutdown ==
  /\ managerShutdown
  /\ ~isForceTimerStarted
  /\ isForceTimerStarted' = TRUE
  /\ forceTimestamp' = now + FORCE_DELAY
  /\ UNCHANGED <<now, tokenVars, poolVars, switchVars>>

ForceShutdownSystem ==
  /\ isForceTimerStarted
  /\ now > forceTimestamp
  /\ ShutdownSystem

\* VoterProxy.setOperator gives VoterProxy to another Booster.
SetOperator ==
  /\ isShutdown
  /\ operating' = FALSE
  /\ UNCHANGED <<now, tokenVars, poolVars, forceVars, isShutdown, managerShutdown, halted>>

----------------------------------------------------------------------------------

\* A gauge stops or goes on.
Halt(gauges) ==
  /\ halted' = gauges
  /\ UNCHANGED <<now, tokenVars, poolVars, forceVars, isShutdown, managerShutdown, operating>>

Tick ==
  /\ now < MaxTime
  /\ now' = now + 1
  /\ UNCHANGED <<tokenVars, poolVars, forceVars, switchVars>>

Init ==
  /\ now = 0
  /\ poolInfo = <<>>
  /\ gaugeMap = [g \in Gauges |-> FALSE]
  /\ isShutdown = FALSE /\ managerShutdown = FALSE
  /\ isForceTimerStarted = FALSE /\ forceTimestamp = 0
  /\ operating = TRUE
  /\ halted = {}
  /\ wallet = [u \in Accounts |-> [lp \in LpTokens |-> InitialWallet]]
  /\ deposits = [pid \in Pids |-> [u \in Accounts |-> 0]]
  /\ atStaker = [lp \in LpTokens |-> 0]
  /\ inBooster = [lp \in LpTokens |-> 0]
  /\ inGauge = [g \in Gauges |-> 0]

Next ==
  \/ Tick
  \/ \E u \in Accounts :
       \/ \E pid \in DOMAIN poolInfo :
            \/ \E amount \in 0..wallet[u][LpOf(pid)] : Deposit(u, pid, amount)
            \/ \E to \in Accounts, amount \in 0..TotalSupply(pid) : Withdraw(u, to, pid, amount)
       \/ \E lp \in LpTokens : \E amount \in 1..wallet[u][lp] : SendToStaker(u, lp, amount)
  \/ \E g \in Gauges : AddPool(g)
  \/ \E pid \in DOMAIN poolInfo : ShutdownPool(pid)
  \/ ShutdownManager
  \/ ShutdownInOrder
  \/ QueueForceShutdown
  \/ ForceShutdownSystem
  \/ SetOperator
  \/ \E gauges \in SUBSET Gauges : Halt(gauges)

Spec == Init /\ [][Next]_vars

----------------------------------------------------------------------------------
(* Properties *)

\* What is owed from the Booster itself in an LP token.
OwedFromBooster(lp) ==
  SumTo([pid \in Pids |-> IF pid \in DOMAIN poolInfo \ OpenPids /\ LpOf(pid) = lp
                          THEN TotalSupply(pid) ELSE 0], MaxPools)

\* The deposit tokens of all closed pools of an LP token are backed in the Booster
\* together, and those of an open pool in its own gauge as long as VoterProxy obeys,
\* also when a gauge fails in a shutdown, has pools one after another or shares its
\* token with others (Booster._withdraw, shutdownPool, PoolManagerProxy.addPool).
DepositsBacked ==
  /\ \A lp \in LpTokens : OwedFromBooster(lp) <= inBooster[lp]
  /\ operating => \A pid \in OpenPids : TotalSupply(pid) <= inGauge[Pool(pid).gauge]

\* A pool is closed only when the Booster is sent at least what its depositors own
\* (Booster.shutdownPool, shutdownSystem, PoolManager): nobody is paid out of what
\* other pools brought.
ClosedPoolsBringTheirTokens ==
  [][\A pid \in OpenPids :
       poolInfo'[pid].shutdown => inBooster'[LpOf(pid)] >= inBooster[LpOf(pid)] + TotalSupply(pid)]_vars

\* An account can withdraw (Booster._withdraw) all it has from a closed pool at any
\* time, whatever became of the system, and from an open one, also after a forced
\* shutdown, while its gauge pays and VoterProxy obeys.
ExitsOpen ==
  \A u \in Accounts, pid \in DOMAIN poolInfo :
    Pool(pid).shutdown \/ (operating /\ Pool(pid).gauge \notin halted)
      => ENABLED Withdraw(u, u, pid, deposits[pid][u])
=================================================================================
