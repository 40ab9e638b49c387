------------------------------ MODULE BoosterProofs ------------------------------
(***************************************************************************)
(* The Booster can pay out every deposit token of its closed pools, and the *)
(* gauge of an open pool those of the pool, for every number of gauges, LP  *)
(* tokens, pools and accounts; and no pool is closed at the expense of the  *)
(* others.                                                                  *)
(***************************************************************************)
EXTENDS Booster, SharedProofs

PoolType == [gauge: Gauges, shutdown: BOOLEAN]

\* The type invariant of Booster.
TypeOK ==
  /\ now \in Nat /\ forceTimestamp \in Nat
  /\ {isShutdown, managerShutdown, isForceTimerStarted, operating} \subseteq BOOLEAN
  /\ poolInfo \in Seq(PoolType) /\ Len(poolInfo) <= MaxPools
  /\ gaugeMap \in [Gauges -> BOOLEAN]
  /\ halted \subseteq Gauges
  /\ wallet \in [Accounts -> [LpTokens -> Nat]]
  /\ deposits \in [Pids -> [Accounts -> Nat]]
  /\ atStaker \in [LpTokens -> Nat]
  /\ inBooster \in [LpTokens -> Nat]
  /\ inGauge \in [Gauges -> Nat]

\* No two open pools share a gauge: gaugeMap keeps the gauge of an open pool from
\* being added again, as long as pools are added at all.
GaugesApart ==
  /\ \A p, q \in OpenPids : Pool(p).gauge = Pool(q).gauge => p = q
  /\ ~isShutdown => \A p \in OpenPids : gaugeMap[Pool(p).gauge]

\* A pool starts without deposits.
NoneBefore == \A pid \in Pids \ DOMAIN poolInfo : TotalSupply(pid) = 0

IInv == TypeOK /\ GaugesApart /\ NoneBefore /\ DepositsBacked

----------------------------------------------------------------------------------
(* Types *)

\* The pools are a sequence of records, numbered by pool ids.
LEMMA PoolFacts ==
  ASSUME TypeOK
  PROVE  /\ DOMAIN poolInfo = 1..Len(poolInfo) /\ Len(poolInfo) \in Nat
         /\ DOMAIN poolInfo \subseteq Pids
         /\ \A pid \in DOMAIN poolInfo : /\ Pool(pid) \in PoolType /\ Pool(pid).gauge \in Gauges
                                         /\ Pool(pid).shutdown \in BOOLEAN
                                         /\ LpOf(pid) \in LpTokens
<1>1. poolInfo \in Seq(PoolType) /\ Len(poolInfo) \in Nat /\ Len(poolInfo) <= MaxPools /\ MaxPools \in Nat
  BY CountsAssumption DEF TypeOK
<1>2. DOMAIN poolInfo = 1..Len(poolInfo)
  BY <1>1
<1>3. \A pid \in DOMAIN poolInfo : Pool(pid) \in PoolType
  BY <1>1 DEF Pool
<1> QED BY <1>1, <1>2, <1>3, TokensAssumption DEF Pids, PoolType, LpOf

\* The supply of a pool is a number, and an account has a part of it.
LEMMA SupplyFacts ==
  ASSUME TypeOK, NEW pid \in Pids
  PROVE  /\ TotalSupply(pid) \in Nat
         /\ \A u \in Accounts : deposits[pid][u] \in Nat /\ deposits[pid][u] <= TotalSupply(pid)
<1>1. NumAccounts \in Nat /\ NumAccounts \in 0..NumAccounts /\ Accounts = 1..NumAccounts
  BY CountsAssumption DEF Accounts
<1>2. \A u \in 1..NumAccounts : deposits[pid][u] \in Nat
  BY <1>1 DEF TypeOK
<1> QED BY <1>1, <1>2, SumToNat, SumToMember DEF TotalSupply

\* What VoterProxy.withdrawAll brings is a number, and no less than any gauge has.
LEMMA RecoveredFacts ==
  ASSUME TypeOK, NEW gauges \in SUBSET Gauges, NEW lp \in LpTokens
  PROVE  /\ Recovered(gauges, lp) \in Nat
         /\ SumTo([g \in Gauges |-> IF g \in gauges /\ LpToken[g] = lp THEN inGauge[g] ELSE 0], NumGauges)
              <= Recovered(gauges, lp)
         /\ \A g \in gauges : LpToken[g] = lp => inGauge[g] <= Recovered(gauges, lp)
<1> DEFINE f == [g \in Gauges |-> IF g \in gauges /\ LpToken[g] = lp THEN inGauge[g] ELSE 0]
           rest == IF \E g \in gauges : LpToken[g] = lp THEN atStaker[lp] ELSE 0
<1>1. NumGauges \in Nat /\ NumGauges \in 0..NumGauges /\ Gauges = 1..NumGauges
  BY CountsAssumption DEF Gauges
<1>2. (\A g \in 1..NumGauges : f[g] \in Nat) /\ rest \in Nat
  BY <1>1 DEF TypeOK
<1>3. \A g \in gauges : LpToken[g] = lp => f[g] = inGauge[g] /\ g \in 1..NumGauges
  BY <1>1
<1>4. Recovered(gauges, lp) = SumTo(f, NumGauges) + rest
  BY DEF Recovered
<1> HIDE DEF f, rest
<1>5. SumTo(f, NumGauges) \in Nat
  BY <1>1, <1>2, SumToNat
<1>6. \A g \in 1..NumGauges : f[g] <= SumTo(f, NumGauges)
  BY <1>1, <1>2, SumToMember
<1>7. SumTo(f, NumGauges) <= Recovered(gauges, lp) /\ Recovered(gauges, lp) \in Nat
  BY <1>2, <1>4, <1>5
<1>8. ASSUME NEW g \in gauges, LpToken[g] = lp PROVE inGauge[g] <= Recovered(gauges, lp)
  <2>1. f[g] = inGauge[g] /\ f[g] <= SumTo(f, NumGauges) /\ f[g] \in Nat
    BY <1>2, <1>3, <1>6, <1>8
  <2> QED BY <2>1, <1>5, <1>7
<1> QED BY <1>7, <1>8 DEF f

----------------------------------------------------------------------------------
(* Steps *)

\* Moving tokens of one pool changes the supply of that pool only.
LEMMA DepositsMove ==
  ASSUME TypeOK, NEW pid \in Pids, NEW u \in Accounts, NEW d \in Int,
         deposits' \in [Pids -> [Accounts -> Nat]],
         deposits'[pid][u] = deposits[pid][u] + d,
         \A q \in Pids, v \in Accounts : q # pid \/ v # u => deposits'[q][v] = deposits[q][v]
  PROVE  /\ TotalSupply(pid)' = TotalSupply(pid) + d
         /\ \A q \in Pids : q # pid => TotalSupply(q)' = TotalSupply(q)
<1>1. NumAccounts \in Nat /\ Accounts = 1..NumAccounts
  BY CountsAssumption DEF Accounts
<1>2. /\ \A v \in Accounts : v # u => deposits'[pid][v] = deposits[pid][v]
      /\ \A q \in Pids, v \in Accounts : deposits[q][v] \in Int /\ deposits'[q][v] \in Int
  BY DEF TypeOK
<1>3. SumTo(deposits'[pid], NumAccounts)
        = SumTo(deposits[pid], NumAccounts) + deposits'[pid][u] - deposits[pid][u]
  <2> DEFINE f == deposits[pid]
             g == deposits'[pid]
  <2>1. /\ u \in 1..NumAccounts
        /\ \A i \in 1..NumAccounts : f[i] \in Int /\ g[i] \in Int
        /\ \A i \in 1..NumAccounts : i # u => g[i] = f[i]
    BY <1>1, <1>2
  <2> HIDE DEF f, g
  <2>2. NumAccounts \in Nat /\ u \in 1..NumAccounts
    BY <1>1, <2>1
  <2>3. \A i \in 1..NumAccounts : f[i] \in Int /\ g[i] \in Int
    BY <2>1
  <2>4. \A i \in 1..NumAccounts : i # u => g[i] = f[i]
    BY <2>1
  <2>5. SumTo(g, NumAccounts) = SumTo(f, NumAccounts) + g[u] - f[u]
    BY ONLY <2>2, <2>3, <2>4, SumToUpdate
  <2> QED BY <2>5 DEF f, g
<1>4. TotalSupply(pid) \in Int /\ deposits[pid][u] \in Int
  BY SupplyFacts
<1>5. TotalSupply(pid)' = TotalSupply(pid) + d
  BY <1>3, <1>4 DEF TotalSupply
<1>6. ASSUME NEW q \in Pids, q # pid PROVE TotalSupply(q)' = TotalSupply(q)
  <2> DEFINE f == deposits[q]
             g == deposits'[q]
  <2>1. \A i \in 1..NumAccounts : f[i] \in Int /\ g[i] = f[i]
    BY <1>1, <1>2, <1>6
  <2>2. TotalSupply(q) = SumTo(f, NumAccounts) /\ TotalSupply(q)' = SumTo(g, NumAccounts)
    BY DEF TotalSupply
  <2> HIDE DEF f, g
  <2> QED BY <1>1, <2>1, <2>2, SumToCongruence
<1> QED BY <1>5, <1>6

\* The supplies of the closed pools of an LP token, and those of the pools in pids.
ClosedSupplies(lp) ==
  [pid \in Pids |-> IF pid \in DOMAIN poolInfo \ OpenPids /\ LpOf(pid) = lp THEN TotalSupply(pid) ELSE 0]

SuppliesOf(pids, lp) ==
  [pid \in Pids |-> IF pid \in pids /\ LpOf(pid) = lp THEN TotalSupply(pid) ELSE 0]

\* What the Booster owes in an LP token is a sum over pools of natural numbers.
LEMMA OwedFacts ==
  ASSUME TypeOK, NEW lp \in LpTokens
  PROVE  /\ MaxPools \in Nat /\ Pids = 1..MaxPools
         /\ \A pid \in Pids : ClosedSupplies(lp)[pid] \in Nat
         /\ \A pids : \A pid \in Pids : SuppliesOf(pids, lp)[pid] \in Nat
         /\ OwedFromBooster(lp) = SumTo(ClosedSupplies(lp), MaxPools)
         /\ OwedFromBooster(lp) \in Nat
<1>1. MaxPools \in Nat /\ MaxPools \in 0..MaxPools /\ Pids = 1..MaxPools
  BY CountsAssumption DEF Pids
<1>2. /\ \A pid \in Pids : ClosedSupplies(lp)[pid] \in Nat
      /\ \A pids : \A pid \in Pids : SuppliesOf(pids, lp)[pid] \in Nat
  BY SupplyFacts DEF ClosedSupplies, SuppliesOf
<1>3. OwedFromBooster(lp) = SumTo(ClosedSupplies(lp), MaxPools)
  BY DEF OwedFromBooster, ClosedSupplies
<1>4. SumTo(ClosedSupplies(lp), MaxPools) \in Nat
  BY <1>1, <1>2, SumToNat
<1> QED BY <1>1, <1>2, <1>3, <1>4

\* A pool with its flag set is a pool of the same gauge.
LEMMA ShutdownRecord ==
  ASSUME NEW p \in PoolType
  PROVE  /\ [p EXCEPT !.shutdown = TRUE] \in PoolType
         /\ [p EXCEPT !.shutdown = TRUE].gauge = p.gauge
         /\ [p EXCEPT !.shutdown = TRUE].shutdown = TRUE
<1>1. [p EXCEPT !.shutdown = TRUE] \in PoolType
  BY DEF PoolType
<1>2. [p EXCEPT !.shutdown = TRUE].gauge = p.gauge
  BY DEF PoolType
<1>3. [p EXCEPT !.shutdown = TRUE].shutdown = TRUE
  BY DEF PoolType
<1> QED BY <1>1, <1>2, <1>3

\* A function on 1..n is a sequence of length n.
LEMMA IndexedSequence ==
  ASSUME NEW n \in Nat, NEW S, NEW f \in [1..n -> S]
  PROVE  f \in Seq(S) /\ Len(f) = n
OBVIOUS

\* Pools that are closed are owed for from then on; nothing else changes.
LEMMA ClosingPools ==
  ASSUME TypeOK, NEW pids \in SUBSET OpenPids, poolInfo' = WithPoolsShutdown(pids),
         UNCHANGED deposits
  PROVE  /\ poolInfo' \in Seq(PoolType) /\ Len(poolInfo') = Len(poolInfo)
         /\ DOMAIN poolInfo' = DOMAIN poolInfo
         /\ OpenPids' = OpenPids \ pids
         /\ \A pid \in DOMAIN poolInfo : Pool(pid)'.gauge = Pool(pid).gauge
         /\ \A pid \in Pids : TotalSupply(pid)' = TotalSupply(pid)
         /\ \A lp \in LpTokens :
              OwedFromBooster(lp)' = OwedFromBooster(lp) + SumTo(SuppliesOf(pids, lp), MaxPools)
<1>1. /\ DOMAIN poolInfo = 1..Len(poolInfo) /\ Len(poolInfo) \in Nat
      /\ \A pid \in DOMAIN poolInfo : Pool(pid) \in PoolType
      /\ OpenPids \subseteq DOMAIN poolInfo /\ DOMAIN poolInfo \subseteq Pids
  BY PoolFacts DEF OpenPids
<1>2. ASSUME NEW pid \in DOMAIN poolInfo
      PROVE  /\ poolInfo'[pid] \in PoolType /\ poolInfo'[pid].gauge = Pool(pid).gauge
             /\ pid \in pids => poolInfo'[pid].shutdown = TRUE
             /\ pid \notin pids => poolInfo'[pid].shutdown = Pool(pid).shutdown
  <2>1. Pool(pid) \in PoolType
    BY <1>1
  <2> DEFINE q == [Pool(pid) EXCEPT !.shutdown = TRUE]
  <2>2. q \in PoolType /\ q.gauge = Pool(pid).gauge /\ q.shutdown = TRUE
    BY <2>1, ShutdownRecord
  <2>3. poolInfo'[pid] = IF pid \in pids THEN q ELSE Pool(pid)
    BY DEF WithPoolsShutdown
  <2> HIDE DEF q
  <2> QED BY <2>1, <2>2, <2>3
<1>3. DOMAIN poolInfo' = DOMAIN poolInfo /\ poolInfo' = [pid \in 1..Len(poolInfo) |-> poolInfo'[pid]]
  BY <1>1 DEF WithPoolsShutdown
<1>4. poolInfo' \in Seq(PoolType) /\ Len(poolInfo') = Len(poolInfo)
  <2>1. poolInfo' \in [1..Len(poolInfo) -> PoolType]
    BY <1>1, <1>2, <1>3
  <2> QED BY <1>1, <2>1, IndexedSequence
<1>5. OpenPids' = OpenPids \ pids
  BY <1>1, <1>2, <1>3 DEF OpenPids, Pool
<1>6. \A pid \in DOMAIN poolInfo : Pool(pid)'.gauge = Pool(pid).gauge /\ LpOf(pid)' = LpOf(pid)
  BY <1>2 DEF Pool, LpOf
<1>7. \A pid \in Pids : TotalSupply(pid)' = TotalSupply(pid)
  BY DEF TotalSupply
<1>8. ASSUME NEW lp \in LpTokens
      PROVE  OwedFromBooster(lp)' = OwedFromBooster(lp) + SumTo(SuppliesOf(pids, lp), MaxPools)
  <2> DEFINE f == ClosedSupplies(lp)
             g == [pid \in Pids |-> IF pid \in (DOMAIN poolInfo \ OpenPids)' /\ LpOf(pid)' = lp
                                    THEN TotalSupply(pid)' ELSE 0]
             b == SuppliesOf(pids, lp)
  <2>1. /\ MaxPools \in Nat /\ Pids = 1..MaxPools
        /\ \A pid \in Pids : f[pid] \in Int /\ b[pid] \in Int
        /\ OwedFromBooster(lp) = SumTo(f, MaxPools)
    BY OwedFacts
  <2>2. OwedFromBooster(lp)' = SumTo(g, MaxPools)
    BY DEF OwedFromBooster
  <2>3. ASSUME NEW pid \in Pids PROVE g[pid] = f[pid] + 1 * b[pid]
    <3>1. TotalSupply(pid) \in Nat
      BY SupplyFacts
    <3>2. CASE pid \in pids
      <4>1. pid \in DOMAIN poolInfo /\ pid \in OpenPids /\ pid \notin OpenPids'
        BY <3>2, <1>1, <1>5
      <4> QED BY <3>1, <3>2, <4>1, <1>3, <1>6, <1>7 DEF ClosedSupplies, SuppliesOf
    <3>3. CASE pid \notin pids /\ pid \in DOMAIN poolInfo
      <4>1. pid \in OpenPids' <=> pid \in OpenPids
        BY <3>3, <1>5
      <4> QED BY <3>1, <3>3, <4>1, <1>3, <1>6, <1>7 DEF ClosedSupplies, SuppliesOf
    <3>4. CASE pid \notin DOMAIN poolInfo
      <4>1. pid \notin pids
        BY <3>4, <1>1
      <4> QED BY <3>1, <3>4, <4>1, <1>3 DEF ClosedSupplies, SuppliesOf
    <3> QED BY <3>2, <3>3, <3>4
  <2> HIDE DEF f, g, b
  <2>4. SumTo(g, MaxPools) = SumTo(f, MaxPools) + 1 * SumTo(b, MaxPools)
    <3>1. \A i \in 1..MaxPools : f[i] \in Int /\ b[i] \in Int /\ g[i] = f[i] + 1 * b[i]
      BY <2>1, <2>3
    <3> QED BY ONLY <2>1, <3>1, SumToLinear
  <2>5. SumTo(b, MaxPools) \in Int
    BY <2>1, SumToUnfold
  <2> QED BY <2>1, <2>2, <2>4, <2>5 DEF b
<1> QED BY <1>1, <1>3, <1>4, <1>5, <1>6, <1>7, <1>8

\* When one pool's supply moves, what the Booster owes moves with it, if the pool is
\* closed, in the pool's LP token, and in no other.
LEMMA OwedMoves ==
  ASSUME TypeOK, NEW pid \in DOMAIN poolInfo, NEW d \in Int, UNCHANGED poolInfo,
         TotalSupply(pid)' = TotalSupply(pid) + d,
         \A q \in Pids : q # pid => TotalSupply(q)' = TotalSupply(q)
  PROVE  /\ \A lp \in LpTokens : pid \in OpenPids \/ LpOf(pid) # lp
                                   => OwedFromBooster(lp)' = OwedFromBooster(lp)
         /\ \A lp \in LpTokens : pid \notin OpenPids /\ LpOf(pid) = lp
                                   => OwedFromBooster(lp)' = OwedFromBooster(lp) + d
<1>1. pid \in Pids /\ LpOf(pid) \in LpTokens /\ TotalSupply(pid) \in Nat
  BY PoolFacts, SupplyFacts
<1>2. \A q \in Pids : /\ LpOf(q)' = LpOf(q)
                      /\ q \in (DOMAIN poolInfo \ OpenPids)' <=> q \in DOMAIN poolInfo \ OpenPids
  BY DEF LpOf, Pool, OpenPids
<1> DEFINE new(lp) == [q \in Pids |-> IF q \in (DOMAIN poolInfo \ OpenPids)' /\ LpOf(q)' = lp
                                      THEN TotalSupply(q)' ELSE 0]
<1>3. \A lp : OwedFromBooster(lp)' = SumTo(new(lp), MaxPools)
  BY DEF OwedFromBooster
<1>4. ASSUME NEW lp \in LpTokens, pid \in OpenPids \/ LpOf(pid) # lp
      PROVE  OwedFromBooster(lp)' = OwedFromBooster(lp)
  <2> DEFINE f == ClosedSupplies(lp)
             g == new(lp)
  <2>1. /\ MaxPools \in Nat /\ Pids = 1..MaxPools /\ OwedFromBooster(lp) = SumTo(f, MaxPools)
        /\ \A q \in Pids : f[q] \in Int
    BY OwedFacts
  <2>2. \A q \in Pids : g[q] = f[q]
    BY <1>2, <1>4 DEF ClosedSupplies
  <2> HIDE DEF f, new
  <2>3. \A q \in 1..MaxPools : f[q] \in Int /\ g[q] = f[q]
    BY <2>1, <2>2
  <2> HIDE DEF g
  <2>4. SumTo(g, MaxPools) = SumTo(f, MaxPools)
    BY ONLY <2>1, <2>3, SumToCongruence
  <2> QED BY <1>3, <2>1, <2>4 DEF g
<1>5. ASSUME NEW lp \in LpTokens, pid \notin OpenPids, LpOf(pid) = lp
      PROVE  OwedFromBooster(lp)' = OwedFromBooster(lp) + d
  <2> DEFINE f == ClosedSupplies(lp)
             g == new(lp)
  <2>1. /\ MaxPools \in Nat /\ Pids = 1..MaxPools /\ OwedFromBooster(lp) = SumTo(f, MaxPools)
        /\ \A q \in Pids : f[q] \in Int
    BY <1>1, OwedFacts
  <2>2. /\ \A q \in Pids : q # pid => g[q] = f[q]
        /\ f[pid] = TotalSupply(pid) /\ g[pid] = TotalSupply(pid) + d
    BY <1>1, <1>2, <1>5 DEF ClosedSupplies
  <2>3. OwedFromBooster(lp)' = SumTo(g, MaxPools)
    BY <1>3
  <2> HIDE DEF f, g, new
  <2>4. \A q \in 1..MaxPools : f[q] \in Int /\ g[q] \in Int
    BY <1>1, <2>1, <2>2
  <2>5. \A q \in 1..MaxPools : q # pid => g[q] = f[q]
    BY <2>1, <2>2
  <2>6. pid \in 1..MaxPools
    BY <1>1, <2>1
  <2>7. SumTo(g, MaxPools) = SumTo(f, MaxPools) + g[pid] - f[pid] /\ SumTo(f, MaxPools) \in Int
    BY ONLY <2>1, <2>4, <2>5, <2>6, SumToUpdate, SumToUnfold
  <2>8. SumTo(g, MaxPools) = SumTo(f, MaxPools) + d
    BY <1>1, <2>2, <2>7
  <2> QED BY <2>1, <2>3, <2>8
<1> QED BY <1>4, <1>5

\* Where neither pools nor deposits change, nothing that is owed does.
LEMMA SameOwed ==
  ASSUME UNCHANGED <<poolInfo, deposits>>
  PROVE  /\ OpenPids' = OpenPids
         /\ \A pid : Pool(pid)' = Pool(pid) /\ LpOf(pid)' = LpOf(pid) /\ TotalSupply(pid)' = TotalSupply(pid)
         /\ \A lp : OwedFromBooster(lp)' = OwedFromBooster(lp)
BY DEF OpenPids, Pool, LpOf, TotalSupply, OwedFromBooster

\* Steps that leave pools, deposits and the tokens of the Booster and of the gauges
\* alone.
LEMMA SameBacking ==
  ASSUME IInv, TypeOK', UNCHANGED <<poolInfo, deposits, inBooster, inGauge>>,
         UNCHANGED gaugeMap, isShutdown' \/ UNCHANGED isShutdown, operating' => operating
  PROVE  IInv'
<1>1. GaugesApart'
  BY SameOwed DEF IInv, GaugesApart
<1>2. NoneBefore'
  BY SameOwed DEF IInv, NoneBefore
<1>3. DepositsBacked'
  BY SameOwed DEF IInv, DepositsBacked
<1> QED BY <1>1, <1>2, <1>3 DEF IInv

\* Depositing keeps the invariant.
LEMMA DepositKeepsIInv ==
  ASSUME IInv, NEW u \in Accounts, NEW pid \in DOMAIN poolInfo,
         NEW amount \in 0..wallet[u][LpOf(pid)], Deposit(u, pid, amount)
  PROVE  IInv'
<1>1. TypeOK /\ GaugesApart /\ NoneBefore /\ DepositsBacked
  BY DEF IInv
<1> DEFINE lp == LpOf(pid)
           gauge == Pool(pid).gauge
<1>2. pid \in Pids /\ lp \in LpTokens /\ gauge \in Gauges
  BY <1>1, PoolFacts
<1>3. /\ amount \in Nat /\ amount \in Int /\ wallet[u][lp] \in Nat /\ atStaker[lp] \in Nat
      /\ amount <= wallet[u][lp] /\ inGauge[gauge] \in Nat /\ deposits[pid][u] \in Nat
  BY <1>1, <1>2 DEF TypeOK
<1>4. /\ wallet' = [wallet EXCEPT ![u][lp] = @ - amount]
      /\ atStaker' = [atStaker EXCEPT ![lp] = 0]
      /\ inGauge' = [inGauge EXCEPT ![gauge] = @ + (atStaker[lp] + amount)]
      /\ deposits' = [deposits EXCEPT ![pid][u] = @ + amount]
      /\ UNCHANGED <<now, inBooster, poolInfo, gaugeMap, isForceTimerStarted, forceTimestamp,
                     isShutdown, managerShutdown, operating, halted>>
      /\ pid \in OpenPids /\ operating
  BY DEF Deposit, poolVars, forceVars, switchVars, OpenPids
<1> HIDE DEF lp, gauge
<1>5. /\ wallet' \in [Accounts -> [LpTokens -> Nat]] /\ atStaker' \in [LpTokens -> Nat]
      /\ deposits' \in [Pids -> [Accounts -> Nat]]
  <2>1. wallet[u][lp] - amount \in Nat /\ deposits[pid][u] + amount \in Nat
    BY <1>3
  <2>2. wallet' \in [Accounts -> [LpTokens -> Nat]]
    BY <1>1, <1>2, <1>4, <2>1 DEF TypeOK
  <2>3. atStaker' \in [LpTokens -> Nat]
    BY <1>1, <1>2, <1>4 DEF TypeOK
  <2>4. deposits' \in [Pids -> [Accounts -> Nat]]
    BY <1>1, <1>2, <1>4, <2>1 DEF TypeOK
  <2> QED BY <2>2, <2>3, <2>4
<1>6. /\ inGauge' \in [Gauges -> Nat]
      /\ inGauge'[gauge] >= inGauge[gauge] + amount
      /\ \A g \in Gauges : inGauge'[g] >= inGauge[g]
  <2>1. inGauge \in [Gauges -> Nat] /\ inGauge' = [inGauge EXCEPT ![gauge] = @ + (atStaker[lp] + amount)]
    BY <1>1, <1>4 DEF TypeOK
  <2>2. atStaker[lp] + amount \in Nat /\ atStaker[lp] + amount >= amount
    BY <1>3
  <2>3. inGauge'[gauge] = inGauge[gauge] + (atStaker[lp] + amount)
        /\ \A g \in Gauges : g # gauge => inGauge'[g] = inGauge[g]
    BY <2>1, <1>2
  <2>4. inGauge' \in [Gauges -> Nat]
    BY <2>1, <2>2, <1>2
  <2> QED BY <2>1, <2>2, <2>3, <2>4, <1>2, <1>3
<1>7. TypeOK'
  BY <1>1, <1>4, <1>5, <1>6 DEF TypeOK
<1>8. /\ TotalSupply(pid)' = TotalSupply(pid) + amount
      /\ \A q \in Pids : q # pid => TotalSupply(q)' = TotalSupply(q)
  <2>1. deposits'[pid][u] = deposits[pid][u] + amount
    BY <1>1, <1>2, <1>4 DEF TypeOK
  <2>2. \A q \in Pids, v \in Accounts : q # pid \/ v # u => deposits'[q][v] = deposits[q][v]
    BY <1>1, <1>2, <1>4 DEF TypeOK
  <2> QED BY <1>1, <1>2, <1>3, <1>5, <2>1, <2>2, DepositsMove
<1>9. \A q : /\ Pool(q)' = Pool(q) /\ OpenPids' = OpenPids /\ DOMAIN poolInfo' = DOMAIN poolInfo
  BY <1>4 DEF Pool, OpenPids
<1>10. GaugesApart'
  BY <1>1, <1>4, <1>9 DEF GaugesApart
<1>11. NoneBefore'
  BY <1>1, <1>8, <1>9 DEF NoneBefore
<1>12. \A l \in LpTokens : OwedFromBooster(l)' = OwedFromBooster(l)
  <2>1. UNCHANGED poolInfo /\ pid \in OpenPids
    BY <1>4
  <2> QED BY <1>1, <1>3, <1>8, <2>1, OwedMoves
<1>13. ASSUME NEW q \in OpenPids PROVE TotalSupply(q)' <= inGauge'[Pool(q).gauge]
  <2>1. q \in Pids /\ Pool(q).gauge \in Gauges
    BY <1>1, PoolFacts DEF OpenPids
  <2>2. TotalSupply(q) \in Nat /\ TotalSupply(q) <= inGauge[Pool(q).gauge] /\ inGauge[Pool(q).gauge] \in Nat
    BY <1>1, <1>4, <2>1, SupplyFacts DEF DepositsBacked, TypeOK
  <2>3. inGauge'[Pool(q).gauge] \in Nat /\ inGauge'[Pool(q).gauge] >= inGauge[Pool(q).gauge]
    BY <1>6, <2>1
  <2> QED BY <1>3, <1>6, <1>8, <2>1, <2>2, <2>3 DEF gauge
<1>14. DepositsBacked'
  BY <1>1, <1>4, <1>9, <1>12, <1>13 DEF DepositsBacked
<1> QED BY <1>7, <1>10, <1>11, <1>14 DEF IInv

\* What a withdrawal does to the wallets, the deposits and their supplies.
LEMMA WithdrawnTokens ==
  ASSUME IInv, NEW u \in Accounts, NEW to \in Accounts, NEW pid \in DOMAIN poolInfo,
         NEW amount \in 0..TotalSupply(pid), Withdraw(u, to, pid, amount)
  PROVE  /\ amount \in Nat /\ pid \in Pids
         /\ wallet' \in [Accounts -> [LpTokens -> Nat]]
         /\ deposits' \in [Pids -> [Accounts -> Nat]]
         /\ TotalSupply(pid)' = TotalSupply(pid) - amount
         /\ \A q \in Pids : q # pid => TotalSupply(q)' = TotalSupply(q)
         /\ UNCHANGED <<now, poolInfo, gaugeMap, isForceTimerStarted, forceTimestamp,
                        isShutdown, managerShutdown, operating, halted>>
<1>1. TypeOK
  BY DEF IInv
<1>2. pid \in Pids /\ LpOf(pid) \in LpTokens /\ TotalSupply(pid) \in Nat
  BY <1>1, PoolFacts, SupplyFacts
<1>3. /\ amount \in Nat /\ deposits[pid][u] \in Nat /\ amount <= deposits[pid][u]
      /\ wallet[to][LpOf(pid)] \in Nat
  BY <1>1, <1>2 DEF Withdraw, TypeOK
<1>4. /\ wallet' = [wallet EXCEPT ![to][LpOf(pid)] = @ + amount]
      /\ deposits' = [deposits EXCEPT ![pid][u] = @ - amount]
      /\ UNCHANGED <<now, poolInfo, gaugeMap, isForceTimerStarted, forceTimestamp,
                     isShutdown, managerShutdown, operating, halted>>
  BY DEF Withdraw, poolVars, forceVars, switchVars
<1>5. wallet' \in [Accounts -> [LpTokens -> Nat]] /\ deposits' \in [Pids -> [Accounts -> Nat]]
  BY <1>1, <1>2, <1>3, <1>4 DEF TypeOK
<1> DEFINE d == 0 - amount
<1>6. d \in Int
  BY <1>3
<1>7. deposits'[pid][u] = deposits[pid][u] + d
  BY <1>1, <1>2, <1>3, <1>4 DEF TypeOK
<1>8. \A q \in Pids, v \in Accounts : q # pid \/ v # u => deposits'[q][v] = deposits[q][v]
  BY <1>1, <1>2, <1>4 DEF TypeOK
<1>9. TotalSupply(pid) + d = TotalSupply(pid) - amount
  BY <1>2, <1>3
<1> HIDE DEF d
<1>10. /\ TotalSupply(pid)' = TotalSupply(pid) + d
       /\ \A q \in Pids : q # pid => TotalSupply(q)' = TotalSupply(q)
  BY <1>1, <1>2, <1>5, <1>6, <1>7, <1>8, DepositsMove
<1> QED BY <1>2, <1>3, <1>4, <1>5, <1>9, <1>10

\* Withdrawing keeps the invariant.
LEMMA WithdrawKeepsIInv ==
  ASSUME IInv, NEW u \in Accounts, NEW to \in Accounts, NEW pid \in DOMAIN poolInfo,
         NEW amount \in 0..TotalSupply(pid), Withdraw(u, to, pid, amount)
  PROVE  IInv'
<1>1. TypeOK /\ GaugesApart /\ NoneBefore /\ DepositsBacked
  BY DEF IInv
<1>2. /\ amount \in Nat /\ pid \in Pids /\ pid \in DOMAIN poolInfo
      /\ wallet' \in [Accounts -> [LpTokens -> Nat]]
      /\ deposits' \in [Pids -> [Accounts -> Nat]]
      /\ TotalSupply(pid)' = TotalSupply(pid) - amount
      /\ \A q \in Pids : q # pid => TotalSupply(q)' = TotalSupply(q)
      /\ UNCHANGED <<now, poolInfo, gaugeMap, isForceTimerStarted, forceTimestamp,
                     isShutdown, managerShutdown, operating, halted>>
  BY WithdrawnTokens
<1>3. PICK lp \in LpTokens, gauge \in Gauges : lp = LpOf(pid) /\ gauge = Pool(pid).gauge
  BY <1>1, PoolFacts
<1>4. /\ TotalSupply(pid) \in Nat /\ atStaker[lp] \in Nat /\ inGauge[gauge] \in Nat
      /\ inBooster[lp] \in Nat
  BY <1>1, <1>2, SupplyFacts DEF TypeOK
<1>5. \A q : Pool(q)' = Pool(q) /\ OpenPids' = OpenPids /\ DOMAIN poolInfo' = DOMAIN poolInfo
  BY <1>2 DEF Pool, OpenPids
<1>6. GaugesApart'
  BY <1>1, <1>2, <1>5 DEF GaugesApart
<1>7. NoneBefore'
  BY <1>1, <1>2, <1>5 DEF NoneBefore
<1>8. /\ \A l \in LpTokens : pid \in OpenPids \/ l # lp => OwedFromBooster(l)' = OwedFromBooster(l)
      /\ pid \notin OpenPids => OwedFromBooster(lp)' = OwedFromBooster(lp) - amount
  <2> DEFINE d == 0 - amount
  <2>1. d \in Int /\ TotalSupply(pid)' = TotalSupply(pid) + d /\ UNCHANGED poolInfo
    BY <1>2, <1>4
  <2>2. OwedFromBooster(lp) \in Nat
    BY <1>1, OwedFacts
  <2>3. OwedFromBooster(lp) + d = OwedFromBooster(lp) - amount
    BY <1>2, <2>2
  <2> HIDE DEF d
  <2>4. /\ \A l \in LpTokens : pid \in OpenPids \/ LpOf(pid) # l
                                 => OwedFromBooster(l)' = OwedFromBooster(l)
        /\ \A l \in LpTokens : pid \notin OpenPids /\ LpOf(pid) = l
                                 => OwedFromBooster(l)' = OwedFromBooster(l) + d
    BY <1>1, <1>2, <2>1, OwedMoves
  <2> QED BY <1>3, <2>3, <2>4
<1>9. ASSUME NEW q \in OpenPids
      PROVE  /\ q \in Pids /\ Pool(q).gauge \in Gauges
             /\ TotalSupply(q) \in Nat /\ inGauge[Pool(q).gauge] \in Nat
             /\ operating => TotalSupply(q) <= inGauge[Pool(q).gauge]
  <2>1. q \in Pids /\ Pool(q).gauge \in Gauges
    BY <1>1, PoolFacts DEF OpenPids
  <2> QED BY <1>1, <2>1, SupplyFacts DEF DepositsBacked, TypeOK
<1>10. CASE ~Pool(pid).shutdown /\ PullFromGauge(pid, amount)
  <2>1. pid \in OpenPids /\ operating
    BY <1>10 DEF OpenPids, PullFromGauge
  <2> DEFINE rest == IF atStaker[lp] < amount THEN amount - atStaker[lp] ELSE 0
  <2>2. /\ inGauge' = [inGauge EXCEPT ![gauge] = @ - rest]
        /\ atStaker' = [atStaker EXCEPT ![lp] = @ + rest - amount]
        /\ rest <= inGauge[gauge]
        /\ UNCHANGED inBooster
    BY <1>3, <1>10 DEF PullFromGauge
  <2>3. rest \in Nat /\ rest <= amount /\ atStaker[lp] + rest - amount \in Nat
    BY <1>2, <1>4
  <2> HIDE DEF rest
  <2>4. /\ inGauge' \in [Gauges -> Nat] /\ atStaker' \in [LpTokens -> Nat]
        /\ inGauge'[gauge] = inGauge[gauge] - rest
        /\ \A g \in Gauges : g # gauge => inGauge'[g] = inGauge[g]
    BY <1>1, <1>4, <2>2, <2>3 DEF TypeOK
  <2>5. TypeOK'
    BY <1>1, <1>2, <2>2, <2>4 DEF TypeOK
  <2>6. \A l \in LpTokens : OwedFromBooster(l)' <= inBooster'[l]
    BY <1>1, <1>8, <2>1, <2>2 DEF DepositsBacked
  <2>7. ASSUME NEW q \in OpenPids PROVE TotalSupply(q)' <= inGauge'[Pool(q).gauge]
    <3>1. CASE q = pid
      <4>1. Pool(q).gauge = gauge /\ TotalSupply(q)' = TotalSupply(q) - amount
        BY <3>1, <1>2, <1>3
      <4> QED BY <4>1, <1>2, <1>9, <2>1, <2>3, <2>4
    <3>2. CASE q # pid
      <4>1. Pool(q).gauge # gauge /\ TotalSupply(q)' = TotalSupply(q)
        BY <3>2, <1>1, <1>2, <1>3, <1>9, <2>1 DEF GaugesApart
      <4> QED BY <4>1, <1>9, <2>1, <2>4
    <3> QED BY <3>1, <3>2
  <2>8. DepositsBacked'
    BY <1>2, <1>5, <2>6, <2>7 DEF DepositsBacked
  <2> QED BY <1>6, <1>7, <2>5, <2>8 DEF IInv
<1>11. CASE Pool(pid).shutdown /\ PayFromBooster(pid, amount)
  <2>1. pid \notin OpenPids
    BY <1>11 DEF OpenPids
  <2>2. /\ inBooster' = [inBooster EXCEPT ![lp] = @ - amount]
        /\ amount <= inBooster[lp]
        /\ UNCHANGED <<atStaker, inGauge>>
    BY <1>3, <1>11 DEF PayFromBooster
  <2>3. /\ inBooster' \in [LpTokens -> Nat]
        /\ inBooster'[lp] = inBooster[lp] - amount
        /\ \A l \in LpTokens : l # lp => inBooster'[l] = inBooster[l]
    BY <1>1, <1>2, <1>4, <2>2 DEF TypeOK
  <2>4. TypeOK'
    BY <1>1, <1>2, <2>2, <2>3 DEF TypeOK
  <2>5. ASSUME NEW l \in LpTokens PROVE OwedFromBooster(l)' <= inBooster'[l]
    <3>1. OwedFromBooster(l) \in Nat /\ OwedFromBooster(l) <= inBooster[l] /\ inBooster[l] \in Nat
      BY <1>1, OwedFacts DEF DepositsBacked, TypeOK
    <3>2. CASE l = lp
      BY <3>1, <3>2, <1>2, <1>8, <2>1, <2>3
    <3>3. CASE l # lp
      BY <3>1, <3>3, <1>8, <2>3
    <3> QED BY <3>2, <3>3
  <2>6. ASSUME NEW q \in OpenPids, operating PROVE TotalSupply(q)' <= inGauge'[Pool(q).gauge]
    <3>1. q # pid
      BY <2>1
    <3> QED BY <3>1, <2>6, <1>2, <1>9, <2>2
  <2>7. DepositsBacked'
    BY <1>2, <1>5, <2>5, <2>6 DEF DepositsBacked
  <2> QED BY <1>6, <1>7, <2>4, <2>7 DEF IInv
<1> QED BY <1>10, <1>11 DEF Withdraw

\* A sequence that is appended to.
LEMMA AppendFacts ==
  ASSUME NEW S, NEW s \in Seq(S), NEW e \in S
  PROVE  /\ Append(s, e) \in Seq(S) /\ Len(Append(s, e)) = Len(s) + 1
         /\ DOMAIN Append(s, e) = 1..(Len(s) + 1)
         /\ \A i \in 1..Len(s) : Append(s, e)[i] = s[i]
         /\ Append(s, e)[Len(s) + 1] = e
OBVIOUS

\* Adding a pool keeps the invariant.
LEMMA AddPoolKeepsIInv ==
  ASSUME IInv, NEW g \in Gauges, AddPool(g)
  PROVE  IInv'
<1>1. TypeOK /\ GaugesApart /\ NoneBefore /\ DepositsBacked
  BY DEF IInv
<1>2. /\ ~isShutdown /\ ~gaugeMap[g] /\ Len(poolInfo) < MaxPools
      /\ poolInfo' = Append(poolInfo, [gauge |-> g, shutdown |-> FALSE])
      /\ gaugeMap' = [gaugeMap EXCEPT ![g] = TRUE]
      /\ UNCHANGED <<now, wallet, deposits, atStaker, inBooster, inGauge, isForceTimerStarted,
                     forceTimestamp, isShutdown, managerShutdown, operating, halted>>
  BY DEF AddPool, tokenVars, forceVars, switchVars
<1>3. PICK n \in Nat : n = Len(poolInfo) /\ DOMAIN poolInfo = 1..n
  BY <1>1, PoolFacts
<1>4. n + 1 \in Pids /\ n + 1 \notin 1..n /\ 1..(n + 1) = 1..n \cup {n + 1} /\ 1..n \subseteq Pids
  BY <1>2, <1>3, CountsAssumption DEF Pids
<1>5. /\ poolInfo' \in Seq(PoolType) /\ Len(poolInfo') = n + 1 /\ DOMAIN poolInfo' = 1..(n + 1)
      /\ \A i \in 1..n : poolInfo'[i] = poolInfo[i]
      /\ poolInfo'[n + 1].gauge = g /\ poolInfo'[n + 1].shutdown = FALSE
  <2> DEFINE e == [gauge |-> g, shutdown |-> FALSE]
  <2>1. e \in PoolType /\ e.gauge = g /\ e.shutdown = FALSE
    BY DEF PoolType
  <2>2. poolInfo \in Seq(PoolType) /\ poolInfo' = Append(poolInfo, e)
    BY <1>1, <1>2 DEF TypeOK
  <2> HIDE DEF e
  <2>3. /\ Append(poolInfo, e) \in Seq(PoolType) /\ Len(Append(poolInfo, e)) = Len(poolInfo) + 1
        /\ DOMAIN Append(poolInfo, e) = 1..(Len(poolInfo) + 1)
        /\ \A i \in 1..Len(poolInfo) : Append(poolInfo, e)[i] = poolInfo[i]
        /\ Append(poolInfo, e)[Len(poolInfo) + 1] = e
    BY <2>1, <2>2, AppendFacts
  <2> QED BY <1>3, <2>1, <2>2, <2>3
<1>6. /\ \A i \in 1..n : Pool(i)' = Pool(i) /\ LpOf(i)' = LpOf(i)
      /\ Pool(n + 1)'.gauge = g
      /\ \A pid : TotalSupply(pid)' = TotalSupply(pid)
  BY <1>2, <1>5 DEF Pool, LpOf, TotalSupply
<1>7. OpenPids' = OpenPids \cup {n + 1} /\ OpenPids \subseteq 1..n
  BY <1>3, <1>4, <1>5 DEF OpenPids, Pool
<1>8. TypeOK'
  <2>1. gaugeMap' \in [Gauges -> BOOLEAN]
    BY <1>1, <1>2 DEF TypeOK
  <2>2. Len(poolInfo') <= MaxPools
    BY <1>2, <1>3, <1>5, CountsAssumption
  <2> QED BY <1>1, <1>2, <1>5, <2>1, <2>2 DEF TypeOK
<1>9. GaugesApart'
  <2>1. \A p \in OpenPids : Pool(p)'.gauge = Pool(p).gauge /\ Pool(p).gauge # g /\ Pool(p).gauge \in Gauges
                            /\ gaugeMap[Pool(p).gauge]
    BY <1>1, <1>2, <1>3, <1>6, <1>7, PoolFacts DEF GaugesApart
  <2>2. \A p \in OpenPids : gaugeMap'[Pool(p)'.gauge]
    BY <1>1, <1>2, <2>1 DEF TypeOK
  <2>3. gaugeMap'[Pool(n + 1)'.gauge]
    BY <1>1, <1>2, <1>6 DEF TypeOK
  <2>4. ASSUME NEW p \in OpenPids', NEW q \in OpenPids', Pool(p)'.gauge = Pool(q)'.gauge
        PROVE  p = q
    <3>1. \A r, s \in OpenPids : Pool(r).gauge = Pool(s).gauge => r = s
      BY <1>1 DEF GaugesApart
    <3>2. \A r \in OpenPids : Pool(r)'.gauge # Pool(n + 1)'.gauge
      BY <1>6, <2>1
    <3>3. CASE p \in OpenPids /\ q \in OpenPids
      BY <3>1, <3>3, <2>1, <2>4
    <3>4. CASE p = n + 1 \/ q = n + 1
      BY <3>2, <3>4, <1>7, <2>4
    <3> QED BY <3>3, <3>4, <1>7
  <2> QED BY <1>7, <2>2, <2>3, <2>4 DEF GaugesApart
<1>10. NoneBefore'
  BY <1>1, <1>3, <1>4, <1>5, <1>6 DEF NoneBefore
<1>11. TotalSupply(n + 1) = 0
  BY <1>1, <1>3, <1>4 DEF NoneBefore
<1>12. ASSUME NEW lp \in LpTokens PROVE OwedFromBooster(lp)' = OwedFromBooster(lp)
  <2> DEFINE f == ClosedSupplies(lp)
             h == [pid \in Pids |-> IF pid \in (DOMAIN poolInfo \ OpenPids)' /\ LpOf(pid)' = lp
                                    THEN TotalSupply(pid)' ELSE 0]
  <2>1. /\ MaxPools \in Nat /\ Pids = 1..MaxPools /\ OwedFromBooster(lp) = SumTo(f, MaxPools)
        /\ \A pid \in Pids : f[pid] \in Int
    BY <1>1, OwedFacts
  <2>2. OwedFromBooster(lp)' = SumTo(h, MaxPools)
    BY DEF OwedFromBooster
  <2>3. \A pid \in Pids : /\ pid \in DOMAIN poolInfo' \ OpenPids' <=> pid \in DOMAIN poolInfo \ OpenPids
                          /\ pid \in DOMAIN poolInfo \ OpenPids => LpOf(pid)' = LpOf(pid)
    BY <1>3, <1>4, <1>5, <1>6, <1>7
  <2>4. \A pid \in Pids : h[pid] = f[pid]
    BY <1>6, <2>3 DEF ClosedSupplies
  <2> HIDE DEF f, h
  <2>5. \A pid \in 1..MaxPools : f[pid] \in Int /\ h[pid] = f[pid]
    BY <2>1, <2>4
  <2>6. SumTo(h, MaxPools) = SumTo(f, MaxPools)
    BY ONLY <2>1, <2>5, SumToCongruence
  <2> QED BY <2>1, <2>2, <2>6
<1>13. DepositsBacked'
  <2>1. \A lp \in LpTokens : OwedFromBooster(lp)' <= inBooster'[lp]
    BY <1>1, <1>2, <1>12 DEF DepositsBacked
  <2>2. ASSUME operating', NEW p \in OpenPids' PROVE TotalSupply(p)' <= inGauge'[Pool(p)'.gauge]
    <3>1. CASE p \in OpenPids
      BY <3>1, <2>2, <1>1, <1>2, <1>6, <1>7 DEF DepositsBacked
    <3>2. CASE p = n + 1
      <4>1. inGauge[g] \in Nat /\ inGauge'[Pool(p)'.gauge] = inGauge[g]
        BY <3>2, <1>1, <1>2, <1>6 DEF TypeOK
      <4> QED BY <3>2, <4>1, <1>6, <1>11
    <3> QED BY <3>1, <3>2, <1>7
  <2> QED BY <2>1, <2>2 DEF DepositsBacked
<1> QED BY <1>8, <1>9, <1>10, <1>13 DEF IInv

\* Closing pools keeps the invariant when what is withdrawn covers what they owe and
\* the gauges of the pools that stay open are left alone.
LEMMA ClosingKeepsIInv ==
  ASSUME IInv, NEW pids \in SUBSET OpenPids, NEW gauges \in SUBSET Gauges,
         poolInfo' = WithPoolsShutdown(pids), WithdrawAll(gauges),
         gaugeMap' \in [Gauges -> BOOLEAN],
         isShutdown' \/ (UNCHANGED isShutdown /\ \A p \in OpenPids \ pids :
                                                   gaugeMap'[Pool(p).gauge] = gaugeMap[Pool(p).gauge]),
         isShutdown' \in BOOLEAN,
         UNCHANGED <<now, isForceTimerStarted, forceTimestamp, managerShutdown, operating, halted>>,
         \A p \in OpenPids \ pids : Pool(p).gauge \notin gauges,
         \A lp \in LpTokens : SumTo(SuppliesOf(pids, lp), MaxPools) <= Recovered(gauges, lp)
  PROVE  IInv'
<1>1. TypeOK /\ GaugesApart /\ NoneBefore /\ DepositsBacked
  BY DEF IInv
<1>2. /\ inBooster' = [lp \in LpTokens |-> inBooster[lp] + Recovered(gauges, lp)]
      /\ atStaker' = [lp \in LpTokens |-> IF \E g \in gauges : LpToken[g] = lp THEN 0 ELSE atStaker[lp]]
      /\ inGauge' = [g \in Gauges |-> IF g \in gauges THEN 0 ELSE inGauge[g]]
      /\ UNCHANGED <<wallet, deposits>>
  BY DEF WithdrawAll
<1>3. /\ poolInfo' \in Seq(PoolType) /\ Len(poolInfo') = Len(poolInfo)
      /\ DOMAIN poolInfo' = DOMAIN poolInfo
      /\ OpenPids' = OpenPids \ pids
      /\ \A pid \in DOMAIN poolInfo : Pool(pid)'.gauge = Pool(pid).gauge
      /\ \A pid \in Pids : TotalSupply(pid)' = TotalSupply(pid)
      /\ \A lp \in LpTokens :
           OwedFromBooster(lp)' = OwedFromBooster(lp) + SumTo(SuppliesOf(pids, lp), MaxPools)
  BY <1>1, <1>2, ClosingPools
<1>4. \A lp \in LpTokens : Recovered(gauges, lp) \in Nat /\ inBooster[lp] \in Nat /\ OwedFromBooster(lp) \in Nat
  BY <1>1, RecoveredFacts, OwedFacts DEF TypeOK
<1>5. \A lp \in LpTokens : SumTo(SuppliesOf(pids, lp), MaxPools) \in Int
  <2>1. MaxPools \in Nat
    BY CountsAssumption
  <2>2. \A lp \in LpTokens : \A i \in 1..MaxPools : SuppliesOf(pids, lp)[i] \in Int
    BY <1>1, OwedFacts
  <2> QED BY <2>1, <2>2, SumToUnfold
<1>6. /\ inBooster' \in [LpTokens -> Nat] /\ atStaker' \in [LpTokens -> Nat]
      /\ inGauge' \in [Gauges -> Nat]
  BY <1>1, <1>2, <1>4 DEF TypeOK
<1>7. TypeOK'
  BY <1>1, <1>2, <1>3, <1>6 DEF TypeOK
<1>8. \A p \in OpenPids : p \in DOMAIN poolInfo /\ p \in Pids /\ Pool(p).gauge \in Gauges
  BY <1>1, PoolFacts DEF OpenPids
<1>9. GaugesApart'
  <2>1. \A p, q \in OpenPids' : Pool(p)'.gauge = Pool(q)'.gauge => p = q
    BY <1>1, <1>3, <1>8 DEF GaugesApart
  <2>2. ASSUME ~isShutdown', NEW p \in OpenPids' PROVE gaugeMap'[Pool(p)'.gauge]
    <3>1. p \in OpenPids \ pids /\ Pool(p)'.gauge = Pool(p).gauge /\ UNCHANGED isShutdown
      BY <2>2, <1>3, <1>8
    <3>2. gaugeMap'[Pool(p).gauge] = gaugeMap[Pool(p).gauge] /\ gaugeMap[Pool(p).gauge]
      BY <2>2, <3>1, <1>1 DEF GaugesApart
    <3> QED BY <3>1, <3>2
  <2> QED BY <2>1, <2>2 DEF GaugesApart
<1>10. NoneBefore'
  BY <1>1, <1>3 DEF NoneBefore
<1>11. DepositsBacked'
  <2>1. ASSUME NEW lp \in LpTokens PROVE OwedFromBooster(lp)' <= inBooster'[lp]
    <3>1. inBooster'[lp] = inBooster[lp] + Recovered(gauges, lp)
      BY <1>2
    <3>2. SumTo(SuppliesOf(pids, lp), MaxPools) <= Recovered(gauges, lp)
      OBVIOUS
    <3>3. OwedFromBooster(lp) <= inBooster[lp]
      BY <1>1 DEF DepositsBacked
    <3>4. OwedFromBooster(lp)' = OwedFromBooster(lp) + SumTo(SuppliesOf(pids, lp), MaxPools)
      BY <1>3
    <3> QED BY <3>1, <3>2, <3>3, <3>4, <1>4, <1>5
  <2>2. ASSUME operating', NEW p \in OpenPids' PROVE TotalSupply(p)' <= inGauge'[Pool(p)'.gauge]
    <3>1. /\ p \in OpenPids \ pids /\ Pool(p)'.gauge = Pool(p).gauge /\ operating
          /\ TotalSupply(p)' = TotalSupply(p) /\ Pool(p).gauge \in Gauges /\ Pool(p).gauge \notin gauges
      BY <2>2, <1>3, <1>8
    <3>2. inGauge'[Pool(p).gauge] = inGauge[Pool(p).gauge]
      BY <3>1, <1>2
    <3>3. TotalSupply(p) <= inGauge[Pool(p).gauge]
      BY <3>1, <1>1 DEF DepositsBacked
    <3> QED BY <3>1, <3>2, <3>3
  <2> QED BY <2>1, <2>2 DEF DepositsBacked
<1> QED BY <1>7, <1>9, <1>10, <1>11 DEF IInv

\* One pool's supply among the supplies of its LP token.
LEMMA SupplyOfOne ==
  ASSUME TypeOK, NEW pid \in Pids, NEW lp \in LpTokens
  PROVE  /\ LpOf(pid) = lp => SumTo(SuppliesOf({pid}, lp), MaxPools) = TotalSupply(pid)
         /\ LpOf(pid) # lp => SumTo(SuppliesOf({pid}, lp), MaxPools) = 0
<1> DEFINE z == [i \in 1..MaxPools |-> 0]
           b == SuppliesOf({pid}, lp)
<1>1. /\ MaxPools \in Nat /\ Pids = 1..MaxPools /\ pid \in 1..MaxPools
      /\ \A i \in 1..MaxPools : b[i] \in Int
  BY OwedFacts
<1>2. \A i \in 1..MaxPools : z[i] \in Int /\ z[i] = 0
  OBVIOUS
<1>3. \A i \in 1..MaxPools : i # pid => b[i] = z[i]
  BY <1>1 DEF SuppliesOf
<1>4. /\ LpOf(pid) = lp => b[pid] = TotalSupply(pid)
      /\ LpOf(pid) # lp => b[pid] = 0
  BY DEF SuppliesOf
<1>5. SumTo(z, MaxPools) = 0
  BY <1>1, SumOfZeros
<1>6. TotalSupply(pid) \in Nat
  BY SupplyFacts
<1> HIDE DEF z, b
<1>7. \A i \in 1..MaxPools : z[i] \in Int /\ b[i] \in Int
  BY <1>1, <1>2
<1>8. SumTo(b, MaxPools) = SumTo(z, MaxPools) + b[pid] - z[pid]
  BY ONLY <1>1, <1>3, <1>7, SumToUpdate
<1> QED BY <1>1, <1>2, <1>4, <1>5, <1>6, <1>8 DEF b

\* Shutting down a pool keeps the invariant.
LEMMA ShutdownPoolKeepsIInv ==
  ASSUME IInv, NEW pid \in DOMAIN poolInfo, ShutdownPool(pid)
  PROVE  IInv'
<1>1. TypeOK /\ GaugesApart
  BY DEF IInv
<1> DEFINE gauge == Pool(pid).gauge
           gauges == IF CanWithdrawAll(gauge) THEN {gauge} ELSE {}
           pids == {pid}
<1>2. pid \in Pids /\ gauge \in Gauges /\ LpOf(pid) \in LpTokens /\ gauges \subseteq {gauge}
  BY <1>1, PoolFacts
<1>3. /\ pid \in OpenPids
      /\ Recovered(gauges, LpOf(pid)) >= TotalSupply(pid)
      /\ WithdrawAll(gauges)
      /\ poolInfo' = WithPoolsShutdown(pids)
      /\ gaugeMap' = [gaugeMap EXCEPT ![gauge] = FALSE]
      /\ UNCHANGED <<now, isForceTimerStarted, forceTimestamp, isShutdown, managerShutdown, operating, halted>>
  BY DEF ShutdownPool, OpenPids, forceVars, switchVars
<1>4. gaugeMap' \in [Gauges -> BOOLEAN] /\ isShutdown' \in BOOLEAN
  BY <1>1, <1>3 DEF TypeOK
<1>5. \A p \in OpenPids \ pids : Pool(p).gauge # gauge /\ Pool(p).gauge \in Gauges
  BY <1>1, <1>3, PoolFacts DEF GaugesApart, OpenPids
<1>6. \A p \in OpenPids \ pids : gaugeMap'[Pool(p).gauge] = gaugeMap[Pool(p).gauge]
  BY <1>1, <1>3, <1>5 DEF TypeOK
<1>7. \A p \in OpenPids \ pids : Pool(p).gauge \notin gauges
  BY <1>2, <1>5
<1>8. pids \in SUBSET OpenPids /\ gauges \in SUBSET Gauges
  BY <1>2, <1>3
<1>9. ASSUME NEW lp \in LpTokens
      PROVE  SumTo(SuppliesOf(pids, lp), MaxPools) <= Recovered(gauges, lp)
  <2>1. Recovered(gauges, lp) \in Nat
    BY <1>1, <1>8, RecoveredFacts
  <2>2. /\ LpOf(pid) = lp => SumTo(SuppliesOf(pids, lp), MaxPools) = TotalSupply(pid)
        /\ LpOf(pid) # lp => SumTo(SuppliesOf(pids, lp), MaxPools) = 0
    BY <1>1, <1>2, SupplyOfOne
  <2>3. CASE LpOf(pid) = lp
    BY <2>2, <2>3, <1>3
  <2>4. CASE LpOf(pid) # lp
    BY <2>1, <2>2, <2>4
  <2> QED BY <2>3, <2>4
<1> HIDE DEF gauge, gauges, pids
<1> QED BY <1>3, <1>4, <1>6, <1>7, <1>8, <1>9, ClosingKeepsIInv

\* The pools that a shutdown of the system empties, and their gauges.
Emptied == {pid \in OpenPids : CanWithdrawAll(Pool(pid).gauge)}
EmptiedGauges == {Pool(pid).gauge : pid \in Emptied}

\* What the emptied gauges bring covers the supplies of their pools, token by token.
LEMMA EmptiedCovers ==
  ASSUME IInv
  PROVE  /\ Emptied \in SUBSET OpenPids /\ EmptiedGauges \in SUBSET Gauges
         /\ \A p \in OpenPids \ Emptied : Pool(p).gauge \notin EmptiedGauges
         /\ \A p \in Emptied : TotalSupply(p) <= inGauge[Pool(p).gauge] /\ LpOf(p) \in LpTokens
         /\ \A lp \in LpTokens :
              SumTo(SuppliesOf(Emptied, lp), MaxPools) <= Recovered(EmptiedGauges, lp)
<1>1. TypeOK /\ GaugesApart /\ DepositsBacked
  BY DEF IInv
<1>2. Emptied \in SUBSET OpenPids /\ OpenPids \subseteq DOMAIN poolInfo
  BY DEF Emptied, OpenPids
<1>3. \A p \in OpenPids : p \in Pids /\ Pool(p).gauge \in Gauges /\ LpOf(p) \in LpTokens
  BY <1>1, <1>2, PoolFacts
<1>4. EmptiedGauges \in SUBSET Gauges
  BY <1>2, <1>3 DEF EmptiedGauges
<1>5. \A p \in OpenPids \ Emptied : Pool(p).gauge \notin EmptiedGauges
  BY <1>1, <1>2 DEF EmptiedGauges, GaugesApart
<1>6. \A p \in Emptied : TotalSupply(p) <= inGauge[Pool(p).gauge]
  BY <1>1 DEF Emptied, CanWithdrawAll, DepositsBacked
<1>7. ASSUME NEW lp \in LpTokens
      PROVE  SumTo(SuppliesOf(Emptied, lp), MaxPools) <= Recovered(EmptiedGauges, lp)
  <2> DEFINE P == {pid \in Emptied : LpOf(pid) = lp}
             h == [pid \in P |-> Pool(pid).gauge]
             f == SuppliesOf(Emptied, lp)
             g == [j \in Gauges |-> IF j \in EmptiedGauges /\ LpToken[j] = lp THEN inGauge[j] ELSE 0]
  <2>1. /\ MaxPools \in Nat /\ Pids = 1..MaxPools /\ NumGauges \in Nat /\ Gauges = 1..NumGauges
        /\ \A i \in 1..MaxPools : f[i] \in Nat
    BY <1>1, OwedFacts, CountsAssumption DEF Gauges
  <2>2. P \in SUBSET (1..MaxPools)
    BY <1>2, <1>3, <2>1
  <2>3. \A p \in P : h[p] \in 1..NumGauges
    BY <1>2, <1>3, <2>1
  <2>4. \A p, q \in P : h[p] = h[q] => p = q
    BY <1>1, <1>2 DEF GaugesApart
  <2>5. \A j \in 1..NumGauges : g[j] \in Nat
    BY <1>1, <2>1 DEF TypeOK
  <2>6. ASSUME NEW p \in P PROVE f[p] <= g[h[p]]
    <3>1. p \in Emptied /\ LpOf(p) = lp /\ p \in Pids /\ h[p] = Pool(p).gauge
      BY <1>2, <1>3
    <3>2. h[p] \in EmptiedGauges /\ LpToken[h[p]] = lp /\ h[p] \in Gauges
      BY <3>1, <1>4 DEF EmptiedGauges, LpOf
    <3>3. g[h[p]] = inGauge[h[p]]
      BY <3>2
    <3>4. f[p] = TotalSupply(p)
      BY <3>1 DEF SuppliesOf
    <3> HIDE DEF f, g
    <3> QED BY <3>1, <3>3, <3>4, <1>6
  <2>7. \A i \in 1..MaxPools : i \notin P => f[i] = 0
    BY <2>1 DEF SuppliesOf
  <2>8. SumTo(g, NumGauges) <= Recovered(EmptiedGauges, lp) /\ Recovered(EmptiedGauges, lp) \in Nat
    BY <1>1, <1>4, RecoveredFacts
  <2> HIDE DEF P, h, f, g
  <2>9. SumTo(f, MaxPools) <= SumTo(g, NumGauges)
    BY ONLY <2>1, <2>2, <2>3, <2>4, <2>5, <2>6, <2>7, SumOverImage
  <2>10. SumTo(f, MaxPools) \in Int /\ SumTo(g, NumGauges) \in Int
    BY ONLY <2>1, <2>5, SumToUnfold
  <2> QED BY <2>8, <2>9, <2>10 DEF f
<1> QED BY <1>2, <1>3, <1>4, <1>5, <1>6, <1>7

\* Shutting down the system keeps the invariant.
LEMMA ShutdownSystemKeepsIInv ==
  ASSUME IInv, ShutdownSystem
  PROVE  IInv'
<1>1. TypeOK
  BY DEF IInv
<1>2. /\ WithdrawAll(EmptiedGauges)
      /\ poolInfo' = WithPoolsShutdown(Emptied)
      /\ isShutdown' = TRUE
      /\ UNCHANGED <<now, gaugeMap, isForceTimerStarted, forceTimestamp, managerShutdown, operating, halted>>
  BY DEF ShutdownSystem, Emptied, EmptiedGauges, forceVars
<1>3. gaugeMap' \in [Gauges -> BOOLEAN] /\ isShutdown' \in BOOLEAN /\ isShutdown'
  BY <1>1, <1>2 DEF TypeOK
<1>4. /\ Emptied \in SUBSET OpenPids /\ EmptiedGauges \in SUBSET Gauges
      /\ \A p \in OpenPids \ Emptied : Pool(p).gauge \notin EmptiedGauges
      /\ \A lp \in LpTokens :
           SumTo(SuppliesOf(Emptied, lp), MaxPools) <= Recovered(EmptiedGauges, lp)
  BY EmptiedCovers
<1> QED BY <1>2, <1>3, <1>4, ClosingKeepsIInv

\* A new Booster has no pools and owes nothing.
LEMMA InitIInv ==
  ASSUME Init
  PROVE  IInv
<1>1. TypeOK
  <2>1. poolInfo \in Seq(PoolType) /\ Len(poolInfo) <= MaxPools
    <3>1. poolInfo = <<>> /\ MaxPools \in Nat
      BY CountsAssumption DEF Init
    <3> QED BY <3>1
  <2>2. /\ wallet \in [Accounts -> [LpTokens -> Nat]]
        /\ deposits \in [Pids -> [Accounts -> Nat]]
        /\ atStaker \in [LpTokens -> Nat] /\ inBooster \in [LpTokens -> Nat]
        /\ inGauge \in [Gauges -> Nat] /\ gaugeMap \in [Gauges -> BOOLEAN]
    BY TokensAssumption DEF Init
  <2>3. /\ now \in Nat /\ forceTimestamp \in Nat /\ halted \subseteq Gauges
        /\ {isShutdown, managerShutdown, isForceTimerStarted, operating} \subseteq BOOLEAN
    BY DEF Init
  <2> QED BY <2>1, <2>2, <2>3 DEF TypeOK
<1>2. OpenPids = {} /\ DOMAIN poolInfo = {}
  BY DEF Init, OpenPids
<1>3. GaugesApart
  BY <1>2 DEF GaugesApart
<1>4. \A pid \in Pids : TotalSupply(pid) = 0
  <2>1. NumAccounts \in Nat /\ Accounts = 1..NumAccounts
    BY CountsAssumption DEF Accounts
  <2>2. \A pid \in Pids : deposits[pid] = [i \in 1..NumAccounts |-> 0]
    BY <2>1 DEF Init
  <2>3. SumTo([i \in 1..NumAccounts |-> 0], NumAccounts) = 0
    BY <2>1, SumOfZeros
  <2> QED BY <2>2, <2>3 DEF TotalSupply
<1>5. NoneBefore
  BY <1>4 DEF NoneBefore
<1>6. ASSUME NEW lp \in LpTokens PROVE OwedFromBooster(lp) = 0
  <2>1. /\ MaxPools \in Nat /\ Pids = 1..MaxPools
        /\ OwedFromBooster(lp) = SumTo(ClosedSupplies(lp), MaxPools)
    BY <1>1, OwedFacts
  <2>2. ClosedSupplies(lp) = [i \in 1..MaxPools |-> 0]
    BY <1>2, <2>1 DEF ClosedSupplies
  <2> QED BY <2>1, <2>2, SumOfZeros
<1>7. DepositsBacked
  BY <1>2, <1>6 DEF DepositsBacked, Init
<1> QED BY <1>1, <1>3, <1>5, <1>7 DEF IInv

\* Every step keeps the invariant.
LEMMA NextKeepsIInv ==
  ASSUME IInv, [Next]_vars
  PROVE  IInv'
<1>1. TypeOK
  BY DEF IInv
<1> USE DEF tokenVars, poolVars, forceVars, switchVars
<1>2. CASE Tick
  <2>1. TypeOK'
    BY <1>1, <1>2 DEF Tick, TypeOK
  <2> QED BY <1>2, <2>1, SameBacking DEF Tick
<1>3. ASSUME NEW u \in Accounts, NEW pid \in DOMAIN poolInfo,
             NEW amount \in 0..wallet[u][LpOf(pid)], Deposit(u, pid, amount)
      PROVE  IInv'
  BY <1>3, DepositKeepsIInv
<1>4. ASSUME NEW u \in Accounts, NEW to \in Accounts, NEW pid \in DOMAIN poolInfo,
             NEW amount \in 0..TotalSupply(pid), Withdraw(u, to, pid, amount)
      PROVE  IInv'
  BY <1>4, WithdrawKeepsIInv
<1>5. ASSUME NEW u \in Accounts, NEW lp \in LpTokens, NEW amount \in 1..wallet[u][lp],
             SendToStaker(u, lp, amount)
      PROVE  IInv'
  <2>1. wallet[u][lp] \in Nat /\ atStaker[lp] \in Nat /\ amount \in Nat /\ amount <= wallet[u][lp]
    BY <1>1 DEF TypeOK
  <2>2. wallet' \in [Accounts -> [LpTokens -> Nat]] /\ atStaker' \in [LpTokens -> Nat]
    BY <1>1, <1>5, <2>1 DEF SendToStaker, TypeOK
  <2>3. TypeOK'
    BY <1>1, <1>5, <2>2 DEF SendToStaker, TypeOK
  <2> QED BY <1>5, <2>3, SameBacking DEF SendToStaker
<1>6. ASSUME NEW g \in Gauges, AddPool(g) PROVE IInv'
  BY <1>6, AddPoolKeepsIInv
<1>7. ASSUME NEW pid \in DOMAIN poolInfo, ShutdownPool(pid) PROVE IInv'
  BY <1>7, ShutdownPoolKeepsIInv
<1>8. CASE ShutdownManager
  <2>1. TypeOK'
    BY <1>1, <1>8 DEF ShutdownManager, TypeOK
  <2> QED BY <1>8, <2>1, SameBacking DEF ShutdownManager
<1>9. CASE ShutdownInOrder
  BY <1>9, ShutdownSystemKeepsIInv DEF ShutdownInOrder
<1>10. CASE QueueForceShutdown
  <2>1. TypeOK'
    BY <1>1, <1>10, TimeAssumption DEF QueueForceShutdown, TypeOK
  <2> QED BY <1>10, <2>1, SameBacking DEF QueueForceShutdown
<1>11. CASE ForceShutdownSystem
  BY <1>11, ShutdownSystemKeepsIInv DEF ForceShutdownSystem
<1>12. CASE SetOperator
  <2>1. TypeOK'
    BY <1>1, <1>12 DEF SetOperator, TypeOK
  <2>2. operating' => operating
    BY <1>12 DEF SetOperator
  <2> QED BY <1>12, <2>1, <2>2, SameBacking DEF SetOperator
<1>13. ASSUME NEW gauges \in SUBSET Gauges, Halt(gauges) PROVE IInv'
  <2>1. TypeOK'
    BY <1>1, <1>13 DEF Halt, TypeOK
  <2> QED BY <1>13, <2>1, SameBacking DEF Halt
<1>14. CASE UNCHANGED vars
  <2>1. TypeOK'
    BY <1>1, <1>14 DEF vars, TypeOK
  <2> QED BY <1>14, <2>1, SameBacking DEF vars
<1> QED BY <1>2, <1>3, <1>4, <1>5, <1>6, <1>7, <1>8, <1>9, <1>10, <1>11, <1>12, <1>13, <1>14 DEF Next

\* Gauges of open pools are not shared, and all deposits are backed, always.
THEOREM Invariance == Spec => []IInv
<1>1. Init => IInv
  BY InitIInv
<1>2. IInv /\ [Next]_vars => IInv'
  BY NextKeepsIInv
<1> QED BY <1>1, <1>2, PTL DEF Spec

\* The deposit tokens of the closed pools of an LP token are backed in the Booster
\* together, those of an open pool in its own gauge as long as VoterProxy obeys.
THEOREM CustodyKept == Spec => []DepositsBacked
<1>1. IInv => DepositsBacked
  BY DEF IInv
<1> QED BY <1>1, Invariance, PTL

----------------------------------------------------------------------------------
(* Closing a pool *)

\* A step that shuts down the system brings for every pool that it closes what the
\* pool's depositors own.
LEMMA SystemBringsTokens ==
  ASSUME IInv, ShutdownSystem, NEW pid \in OpenPids, poolInfo'[pid].shutdown
  PROVE  inBooster'[LpOf(pid)] >= inBooster[LpOf(pid)] + TotalSupply(pid)
<1>1. TypeOK
  BY DEF IInv
<1>2. pid \in DOMAIN poolInfo /\ pid \in Pids /\ LpOf(pid) \in LpTokens /\ ~Pool(pid).shutdown
  BY <1>1, PoolFacts DEF OpenPids
<1>3. WithdrawAll(EmptiedGauges) /\ poolInfo' = WithPoolsShutdown(Emptied)
  BY DEF ShutdownSystem, Emptied, EmptiedGauges
<1>4. pid \in Emptied
  <2>1. pid \notin Emptied => poolInfo'[pid] = Pool(pid)
    BY <1>2, <1>3 DEF WithPoolsShutdown
  <2> QED BY <1>2, <2>1
<1>5. TotalSupply(pid) <= inGauge[Pool(pid).gauge] /\ EmptiedGauges \in SUBSET Gauges
  BY <1>4, EmptiedCovers
<1>6. Pool(pid).gauge \in EmptiedGauges /\ LpToken[Pool(pid).gauge] = LpOf(pid)
  BY <1>4 DEF EmptiedGauges, LpOf
<1>7. inGauge[Pool(pid).gauge] <= Recovered(EmptiedGauges, LpOf(pid))
      /\ Recovered(EmptiedGauges, LpOf(pid)) \in Nat
  BY <1>1, <1>2, <1>5, <1>6, RecoveredFacts
<1>8. inBooster'[LpOf(pid)] = inBooster[LpOf(pid)] + Recovered(EmptiedGauges, LpOf(pid))
  BY <1>2, <1>3 DEF WithdrawAll
<1>9. /\ TotalSupply(pid) \in Nat /\ inBooster[LpOf(pid)] \in Nat
      /\ inGauge[Pool(pid).gauge] \in Nat
  BY <1>1, <1>2, <1>5, <1>6, SupplyFacts DEF TypeOK
<1> QED BY <1>5, <1>7, <1>8, <1>9

\* A pool is closed only when the Booster is sent at least what its depositors own.
THEOREM ClosingIsPaidFor == Spec => ClosedPoolsBringTheirTokens
<1>1. ASSUME IInv, [Next]_vars, NEW pid \in OpenPids, poolInfo'[pid].shutdown
      PROVE  inBooster'[LpOf(pid)] >= inBooster[LpOf(pid)] + TotalSupply(pid)
  <2>1. TypeOK
    BY <1>1 DEF IInv
  <2>2. pid \in DOMAIN poolInfo /\ pid \in Pids /\ LpOf(pid) \in LpTokens /\ ~poolInfo[pid].shutdown
    BY <2>1, PoolFacts DEF OpenPids, Pool
  <2> USE DEF poolVars
  <2>3. poolInfo' # poolInfo
    BY <1>1, <2>2
  <2>4. ASSUME NEW g \in Gauges, AddPool(g) PROVE FALSE
    <3>1. poolInfo \in Seq(PoolType) /\ pid \in 1..Len(poolInfo)
      BY <2>1, <2>2, PoolFacts DEF TypeOK
    <3>2. [gauge |-> g, shutdown |-> FALSE] \in PoolType
      BY DEF PoolType
    <3>3. poolInfo'[pid] = poolInfo[pid]
      BY <2>4, <3>1, <3>2, AppendFacts DEF AddPool
    <3> QED BY <1>1, <2>2, <3>3
  <2>5. ASSUME NEW p \in DOMAIN poolInfo, ShutdownPool(p)
        PROVE  inBooster'[LpOf(pid)] >= inBooster[LpOf(pid)] + TotalSupply(pid)
    <3> DEFINE gauges == IF CanWithdrawAll(Pool(p).gauge) THEN {Pool(p).gauge} ELSE {}
    <3>1. /\ Recovered(gauges, LpOf(p)) >= TotalSupply(p)
          /\ WithdrawAll(gauges) /\ poolInfo' = WithPoolsShutdown({p})
      BY <2>5 DEF ShutdownPool
    <3>2. gauges \in SUBSET Gauges
      BY <2>1, PoolFacts
    <3> HIDE DEF gauges
    <3>3. pid # p => poolInfo'[pid] = poolInfo[pid]
      BY <2>2, <3>1 DEF WithPoolsShutdown, Pool
    <3>4. pid = p
      BY <1>1, <2>2, <3>3
    <3>5. inBooster'[LpOf(pid)] = inBooster[LpOf(pid)] + Recovered(gauges, LpOf(pid))
      BY <2>2, <3>1 DEF WithdrawAll
    <3>6. /\ TotalSupply(pid) \in Nat /\ inBooster[LpOf(pid)] \in Nat
          /\ Recovered(gauges, LpOf(pid)) \in Nat
      BY <2>1, <2>2, <3>2, SupplyFacts, RecoveredFacts DEF TypeOK
    <3>7. Recovered(gauges, LpOf(pid)) >= TotalSupply(pid)
      BY <3>1, <3>4
    <3> QED BY <3>5, <3>6, <3>7
  <2>6. CASE ShutdownInOrder \/ ForceShutdownSystem
    BY <1>1, <2>6, SystemBringsTokens DEF ShutdownInOrder, ForceShutdownSystem
  <2> QED BY <1>1, <2>3, <2>4, <2>5, <2>6
          DEF Next, vars, Tick, Deposit, Withdraw, SendToStaker, ShutdownManager, QueueForceShutdown,
              SetOperator, Halt
<1>2. IInv /\ [Next]_vars
        => [\A pid \in OpenPids :
              poolInfo'[pid].shutdown
                => inBooster'[LpOf(pid)] >= inBooster[LpOf(pid)] + TotalSupply(pid)]_vars
  BY <1>1
<1> QED BY <1>2, Invariance, PTL DEF Spec, ClosedPoolsBringTheirTokens

----------------------------------------------------------------------------------
(* Leaving *)

\* Where Booster._withdraw looks for the tokens of an account, there are enough: in the
\* Booster once the pool is closed, before that in VoterProxy and its gauge.
ExitsCovered ==
  \A u \in Accounts, pid \in DOMAIN poolInfo :
    /\ Pool(pid).shutdown => deposits[pid][u] <= inBooster[LpOf(pid)]
    /\ ~Pool(pid).shutdown /\ operating => deposits[pid][u] <= inGauge[Pool(pid).gauge]

\* What is owed for a closed pool is part of what is owed for all.
LEMMA OwedForOne ==
  ASSUME TypeOK, NEW pid \in DOMAIN poolInfo, Pool(pid).shutdown
  PROVE  TotalSupply(pid) <= OwedFromBooster(LpOf(pid))
<1> DEFINE owed == [p \in Pids |-> IF p \in DOMAIN poolInfo \ OpenPids /\ LpOf(p) = LpOf(pid)
                                   THEN TotalSupply(p) ELSE 0]
<1>1. pid \in Pids /\ pid \in DOMAIN poolInfo \ OpenPids /\ MaxPools \in Nat /\ Pids = 1..MaxPools
  BY PoolFacts, CountsAssumption DEF OpenPids, Pids
<1>2. owed[pid] = TotalSupply(pid)
  BY <1>1
<1>3. \A p \in 1..MaxPools : owed[p] \in Nat
  BY <1>1, SupplyFacts
<1>4. OwedFromBooster(LpOf(pid)) = SumTo(owed, MaxPools)
  BY DEF OwedFromBooster
<1> HIDE DEF owed
<1>5. owed[pid] <= SumTo(owed, MaxPools)
  BY <1>1, <1>3, SumToMember
<1> QED BY <1>2, <1>4, <1>5

\* No withdrawal is refused for want of LP tokens, unless a gauge refuses it
\* (Booster.sol:492-520): the guards of Withdraw.
THEOREM ExitsAreCovered == Spec => []ExitsCovered
<1>1. IInv => ExitsCovered
  <2> SUFFICES ASSUME IInv, NEW u \in Accounts, NEW pid \in DOMAIN poolInfo
               PROVE  /\ Pool(pid).shutdown => deposits[pid][u] <= inBooster[LpOf(pid)]
                      /\ ~Pool(pid).shutdown /\ operating
                           => deposits[pid][u] <= inGauge[Pool(pid).gauge]
    BY DEF ExitsCovered
  <2>1. /\ TypeOK /\ DepositsBacked /\ pid \in Pids /\ LpOf(pid) \in LpTokens
        /\ Pool(pid).gauge \in Gauges
    BY PoolFacts DEF IInv
  <2>2. /\ TotalSupply(pid) \in Nat /\ deposits[pid][u] \in Nat /\ deposits[pid][u] <= TotalSupply(pid)
        /\ inBooster[LpOf(pid)] \in Nat /\ inGauge[Pool(pid).gauge] \in Nat
    BY <2>1, SupplyFacts DEF TypeOK
  <2>3. ASSUME Pool(pid).shutdown PROVE deposits[pid][u] <= inBooster[LpOf(pid)]
    <3>1. /\ TotalSupply(pid) <= OwedFromBooster(LpOf(pid))
          /\ OwedFromBooster(LpOf(pid)) <= inBooster[LpOf(pid)]
      BY <2>1, <2>3, OwedForOne DEF DepositsBacked
    <3>2. OwedFromBooster(LpOf(pid)) \in Int
      <4>1. \A p \in Pids : TotalSupply(p) \in Nat
        BY <2>1, SupplyFacts
      <4>2. MaxPools \in Nat /\ Pids = 1..MaxPools
        BY CountsAssumption DEF Pids
      <4>. QED BY <4>1, <4>2, SumToUnfold DEF OwedFromBooster
    <3> QED BY <2>2, <3>1, <3>2
  <2>4. ASSUME ~Pool(pid).shutdown, operating PROVE deposits[pid][u] <= inGauge[Pool(pid).gauge]
    <3>1. pid \in OpenPids
      BY <2>4 DEF OpenPids
    <3>2. TotalSupply(pid) <= inGauge[Pool(pid).gauge]
      BY <2>1, <2>4, <3>1 DEF DepositsBacked
    <3> QED BY <2>2, <3>2
  <2> QED BY <2>3, <2>4
<1> QED BY <1>1, Invariance, PTL
==================================================================================
