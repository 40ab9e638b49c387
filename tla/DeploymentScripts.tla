------------------------- MODULE DeploymentScripts -------------------------
(***************************************************************************)
(* The deployment scripts as sequences of steps, in the order in which     *)
(* they await their transactions, and the access rules of the contracts    *)
(* they configure.  A step deploys a contract ("new"), calls one, or       *)
(* writes the addresses it holds to the configuration file ("record").     *)
(* Names of contracts and of calls are the scripts' own variable names;    *)
(* names, fee percentages and addresses of outside protocols are left out. *)
(***************************************************************************)
EXTENDS Integers, Sequences, TLC

New(c, args) == [on |-> c, fn |-> "new", args |-> args]
Do(c, fn, args) == [on |-> c, fn |-> fn, args |-> args]
\* addresses that are no contract of the system
Accounts == {"deployer", "dao", "treasury", "vesting", "nobody"}

(***************************************************************************)
(* What a contract starts with besides its constructor's arguments, and    *)
(* its setters: the field whose holder may call and the fields it writes.  *)
(* A caller named by two fields is that field of the contract in the first.*)
(***************************************************************************)
Unset(fields) == [f \in fields |-> "nobody"]
Mine(fields) == [f \in fields |-> "deployer"]
Setter(by, sets) == [by |-> by, sets |-> sets]
Contract(born, calls) == [born |-> born, calls |-> calls]
Ownable == [setOwner |-> Setter(<<"owner">>, <<"owner">>), transferOwnership |-> Setter(<<"owner">>, <<"owner">>)]

VoterProxyRules == Contract(Mine({"owner"}) @@ Unset({"operator", "depositor"}),
    [setOperator |-> Setter(<<"owner">>, <<"operator">>), setDepositor |-> Setter(<<"owner">>, <<"depositor">>)] @@ Ownable)
LiqRules == Contract(Mine({"operator"}) @@ Unset({"minter"}), [init |-> Setter(<<"operator">>, <<"minter">>)])
BoosterRules == Contract(
    Mine({"owner", "feeManager", "poolManager", "voteDelegate", "voteManager"})
        @@ Unset({"treasury", "lockRewards", "stakerRewards", "rewardFactory", "stashFactory", "tokenFactory",
                  "rewardArbitrator"}),
    [setOwner |-> Setter(<<"owner">>, <<"owner">>),
     setFeeManager |-> Setter(<<"owner">>, <<"feeManager">>),
     setPoolManager |-> Setter(<<"poolManager">>, <<"poolManager">>),
     setFactories |-> Setter(<<"owner">>, <<"rewardFactory", "stashFactory", "tokenFactory">>),
     setArbitrator |-> Setter(<<"owner">>, <<"rewardArbitrator">>),
     setVoteDelegate |-> Setter(<<"owner">>, <<"voteDelegate">>),
     setRewardContracts |-> Setter(<<"owner">>, <<"lockRewards", "stakerRewards">>),
     setFeeInfo |-> Setter(<<"owner">>, <<>>),
     setFees |-> Setter(<<"feeManager">>, <<>>),
     setTreasury |-> Setter(<<"feeManager">>, <<"treasury">>)])
StashFactoryRules == Contract(Unset({"v3Implementation"}),
    [setImplementation |-> Setter(<<"operator", "owner">>, <<"v3Implementation">>)])
LiqLitRules == Contract(Mine({"operator"}), [setOperator |-> Setter(<<"operator">>, <<"operator">>)])
CrvDepositorRules == Contract(Mine({"feeManager"}),
    [setFeeManager |-> Setter(<<"feeManager">>, <<"feeManager">>), initialLock |-> Setter(<<"feeManager">>, <<>>)])
PoolManagerProxyRules == Contract(Mine({"operator"}),
    [setOperator |-> Setter(<<"owner">>, <<"operator">>)] @@ Ownable)
ArbitratorVaultRules == Contract(Mine({"operator"}), [setOperator |-> Setter(<<"operator">>, <<"operator">>)])
LiqLockerRules == Contract(Mine({"owner"}) @@ Unset({"distributor"}),
    [addReward |-> Setter(<<"owner">>, <<"distributor">>)] @@ Ownable)
ExtraRewardsRules == Contract(Mine({"owner"}) @@ Unset({"whitelisted"}),
    [modifyWhitelist |-> Setter(<<"owner">>, <<"whitelisted">>)] @@ Ownable)
ExerciserRules == Contract(Mine({"owner"}), Ownable)
\* approved: the depositor that may take the LP tokens without limit, nobody at first
PrelaunchPoolRules == Contract(Mine({"owner"}) @@ Unset({"approved"}),
    [setCrvDepositor |-> Setter(<<"owner">>, <<"crvDepositor", "approved">>), notifyRewardAmount |-> Setter(<<"owner">>, <<>>)]
        @@ Ownable)
\* fund may be called once: the funder's right is gone with it
VestedEscrowRules == Contract(Mine({"funder"}), [fund |-> Setter(<<"funder">>, <<"funder">>)])
\* contracts with nothing to configure
PlainRules == Contract(<<>>, <<>>)

Rules(c) ==
    LET special == [voterProxy |-> VoterProxyRules, cvx |-> LiqRules, booster |-> BoosterRules,
                    stashFactory |-> StashFactoryRules, cvxCrv |-> LiqLitRules, crvDepositor |-> CrvDepositorRules,
                    poolManagerProxy |-> PoolManagerProxyRules, arbitratorVault |-> ArbitratorVaultRules,
                    cvxLocker |-> LiqLockerRules, extraRewardsDistributor |-> ExtraRewardsRules,
                    flashOptionsExerciser |-> ExerciserRules, pooledOptionsExerciser |-> ExerciserRules,
                    prelaunchRewardsPool |-> PrelaunchPoolRules]
    IN  IF c \in DOMAIN special THEN special[c]
        ELSE IF c \in {"vested1", "vested2", "vested3", "vested4", "vested5"} THEN VestedEscrowRules
        ELSE PlainRules

(***************************************************************************)
(* deploySystem.ts.  Some contracts are deployed only where the addresses  *)
(* written into their source exist, that is not on a local chain.          *)
(***************************************************************************)
Environment(network, chain) == [network |-> network, chain |-> chain]
When(condition, steps) == IF condition THEN steps ELSE <<>>
Local(env) == env.chain = "local"
\* getConfig throws on a network it has no configuration file for
ReadConfig == <<Do("process", "getConfig", <<>>)>>
Record(names) == <<Do("process", "record", names)>>

Phase1(env) ==
    <<New("voterProxy", <<>>)>> \o When(env.network # "hardhat", ReadConfig \o Record(<<"voterProxy">>))

\* one thousand LIQ is the unit; groups that can be cancelled come first
VestingGroups == <<[amount |-> 16, admin |-> "vesting"], [amount |-> 1534, admin |-> "vesting"],
                   [amount |-> 8450, admin |-> "vesting"], [amount |-> 2000, admin |-> "nobody"],
                   [amount |-> 17500, admin |-> "nobody"]>>
Airdrops == <<2500, 1000>>
LpIncentives == 10000
CvxCrvBootstrap == 2000
Lbp == 2200 + 2800
MiningRewards == 50000
InitMint == 50000
Escrow == <<"vested1", "vested2", "vested3", "vested4", "vested5">>
Drop == <<"drop1", "drop2">>
Total(amounts) == LET sum[i \in 0..Len(amounts)] == IF i = 0 THEN 0 ELSE sum[i - 1] + amounts[i] IN sum[Len(amounts)]
Vested == Total([i \in 1..Len(VestingGroups) |-> VestingGroups[i].amount])
ChecksumHolds ==
    LET premine == LpIncentives + Total(Airdrops) + CvxCrvBootstrap + Lbp + Vested
    IN  premine = InitMint /\ premine + MiningRewards = 100000

\* LIQ is paid by the deployer: to is the receiver, amount -1 stands for all that is left
Pay(to, amount) == Do("cvx", "transfer", [to |-> to, amount |-> amount])

BoosterContracts ==
    <<New("booster", [staker |-> "voterProxy", minter |-> "cvx"]),
      New("rewardFactory", [operator |-> "booster"]),
      New("tokenFactory", [operator |-> "booster"]),
      New("proxyFactory", <<>>),
      New("stashFactory", [operator |-> "booster", rewardFactory |-> "rewardFactory", proxyFactory |-> "proxyFactory"]),
      New("stashV3", <<>>)>>
LiqLitRewards == <<New("cvxCrvRewards", [stakingToken |-> "cvxCrv", operator |-> "booster", rewardManager |-> "rewardFactory"])>>
PoolManagement ==
    <<New("poolManagerProxy", [pools |-> "booster", owner |-> "deployer"]),
      New("poolManager", [pools |-> "poolManagerProxy", booster |-> "booster", operator |-> "dao"]),
      New("boosterOwner", [owner |-> "dao", poolManager |-> "poolManagerProxy", booster |-> "booster",
                           stashFactory |-> "stashFactory"])>>
Exercisers ==
    LET uses == [liqLit |-> "cvxCrv", operator |-> "booster", litDepositorHelper |-> "litDepositorHelper",
                 lockerRewards |-> "cvxCrvRewards", liqLocker |-> "cvxLocker"]
    IN  <<New("flashOptionsExerciser", uses), New("pooledOptionsExerciser", uses)>>

Phase2Contracts(env) ==
    <<Do("process", "checksum", <<>>),
      New("cvx", [vecrvProxy |-> "voterProxy"]),
      New("minter", [liq |-> "cvx", owner |-> "dao"])>>
    \o BoosterContracts
    \o <<New("cvxCrv", <<>>),
         New("crvDepositor", [staker |-> "voterProxy", minter |-> "cvxCrv", daoOperator |-> "dao"])>>
    \o LiqLitRewards \o PoolManagement
    \o <<New("arbitratorVault", [depositor |-> "booster"]),
         New("cvxLocker", [stakingToken |-> "cvx", cvxCrv |-> "cvxCrv", cvxcrvStaking |-> "cvxCrvRewards"]),
         New("litDepositorHelper", [crvDeposit |-> "crvDepositor"]),
         New("extraRewardsDistributor", [auraLocker |-> "cvxLocker"]),
         New("penaltyForwarder", [distributor |-> "extraRewardsDistributor", token |-> "cvx", owner |-> "dao"])>>
    \o When(~Local(env), Exercisers)
    \o <<New("prelaunchRewardsPool", [rewardToken |-> "cvx", litConvertor |-> "litDepositorHelper",
                                      crvDepositor |-> "crvDepositor", voterProxy |-> "voterProxy"])>>

\* every address of phase 2 is written, deployed here or not
Phase2Record(env) ==
    When(env.network # "hardhat",
         Record(<<"cvx", "minter", "booster", "rewardFactory", "tokenFactory", "proxyFactory", "stashFactory", "stashV3",
                  "cvxCrv", "crvDepositor", "cvxCrvRewards", "poolManagerProxy", "poolManager", "boosterOwner",
                  "arbitratorVault", "cvxLocker", "litDepositorHelper", "extraRewardsDistributor", "penaltyForwarder",
                  "flashOptionsExerciser", "pooledOptionsExerciser", "prelaunchRewardsPool">>))

\* slip: the proxy is handed to the DAO before it has its operator
SlipPoolManagerCalls ==
    <<Do("booster", "setPoolManager", <<"poolManagerProxy">>),
      Do("poolManagerProxy", "setOwner", <<"dao">>),
      Do("poolManagerProxy", "setOperator", <<"poolManager">>)>>
PoolManagerCalls ==
    <<Do("booster", "setPoolManager", <<"poolManagerProxy">>),
      Do("poolManagerProxy", "setOperator", <<"poolManager">>),
      Do("poolManagerProxy", "setOwner", <<"dao">>)>>
FactoryCalls == <<Do("booster", "setFactories", <<"rewardFactory", "stashFactory", "tokenFactory">>)>>
RewardCalls == <<Do("booster", "setRewardContracts", <<"cvxCrvRewards", "cvxLocker">>)>>
StashCalls == <<Do("stashFactory", "setImplementation", <<"stashV3">>)>>

Phase2Calls(env) ==
    <<Do("cvxLocker", "addReward", <<"booster">>),
      Do("cvxLocker", "transferOwnership", <<"dao">>),
      Do("voterProxy", "setOperator", <<"booster">>),
      Do("cvx", "init", <<"minter">>)>>
    \o StashCalls
    \o <<Do("cvxCrv", "setOperator", <<"crvDepositor">>),
         Do("voterProxy", "setDepositor", <<"crvDepositor">>),
         Do("voterProxy", "setOwner", <<"dao">>)>>
    \o When(env.network = "hardhat", <<Do("crvDepositor", "initialLock", <<>>)>>)
    \o <<Do("crvDepositor", "setFeeManager", <<"dao">>)>>
    \o RewardCalls \o PoolManagerCalls \o FactoryCalls
    \o <<Do("arbitratorVault", "setOperator", <<"dao">>),
         Do("booster", "setArbitrator", <<"arbitratorVault">>),
         Do("booster", "setVoteDelegate", <<"dao">>),
         Do("booster", "setFees", <<>>)>>
    \o When(~Local(env), <<Do("booster", "setFeeInfo", <<>>)>>)
    \o <<Do("booster", "setFeeManager", <<"dao">>),
         Do("booster", "setOwner", <<"boosterOwner">>),
         Do("extraRewardsDistributor", "modifyWhitelist", <<"penaltyForwarder">>),
         Do("extraRewardsDistributor", "transferOwnership", <<"dao">>)>>
    \o When(~Local(env), <<Do("pooledOptionsExerciser", "setOwner", <<"dao">>),
                           Do("flashOptionsExerciser", "setOwner", <<"dao">>),
                           Do("prelaunchRewardsPool", "setOwner", <<"dao">>)>>)

Flatten(seqs) == LET all[i \in 0..Len(seqs)] == IF i = 0 THEN <<>> ELSE all[i - 1] \o seqs[i] IN all[Len(seqs)]
Phase2Vesting ==
    Flatten([i \in 1..Len(Escrow) |->
        <<New(Escrow[i], [rewardToken |-> "cvx", admin |-> VestingGroups[i].admin, liqLocker |-> "cvxLocker"]),
          Do(Escrow[i], "fund", <<"nobody">>),
          Pay(Escrow[i], VestingGroups[i].amount)>>])
Phase2Airdrops ==
    Flatten([i \in 1..Len(Drop) |->
        <<New(Drop[i], [dao |-> "treasury", liq |-> "cvx", liqLocker |-> "cvxLocker"]), Pay(Drop[i], Airdrops[i])>>])
Phase2Remainder == <<Pay("treasury", -1)>>
Phase2(env) ==
    ReadConfig \o Phase2Contracts(env) \o Phase2Record(env) \o Phase2Calls(env)
    \o Phase2Vesting \o Phase2Airdrops \o Phase2Remainder

\* the 80/20 pool is created, and the liquidity provider emptied, on mainnet only
Phase3(env) == When(env.chain = "mainnet", <<Do("balLiquidityProvider", "provideLiquidity", <<>>)>>)

\* config.gauges stands for the gauges heavy enough to be added
Phase4(gauges) ==
    [i \in 1..Len(gauges) |-> Do("poolManager", "addPool", <<gauges[i]>>)]
    \o <<New("feeCollector", [booster |-> "booster", voterProxy |-> "voterProxy"])>>
TempBooster == <<New("tempBooster", <<>>)>>
Phase5 == <<New("boosterHelper", [booster |-> "booster"]), New("gaugeMigrator", [booster |-> "booster"])>>

\* slip: phase 6 goes on with the liqLIT rewards of the first booster
SlipPhase6Contracts ==
    BoosterContracts \o PoolManagement
    \o <<New("boosterHelper", [booster |-> "booster"]),
         New("feeCollector", [booster |-> "booster", voterProxy |-> "voterProxy"]),
         New("poolMigrator", [boosterV1 |-> "boosterV1", boosterV2 |-> "booster"])>>
Phase6Contracts ==
    BoosterContracts \o LiqLitRewards \o PoolManagement
    \o <<New("boosterHelper", [booster |-> "booster"]),
         New("feeCollector", [booster |-> "booster", voterProxy |-> "voterProxy"]),
         New("poolMigrator", [boosterV1 |-> "boosterV1", boosterV2 |-> "booster"])>>
\* slip: the fee manager's role stays with the deployer
SlipPhase6Calls ==
    RewardCalls \o PoolManagerCalls \o FactoryCalls
    \o <<Do("booster", "setArbitrator", <<"arbitratorVault">>), Do("booster", "setVoteDelegate", <<"dao">>)>>
    \o StashCalls
    \o <<Do("booster", "setFees", <<>>), Do("booster", "setFeeInfo", <<>>),
         Do("booster", "setTreasury", <<"treasury">>), Do("booster", "setOwner", <<"boosterOwner">>)>>
Phase6Calls ==
    RewardCalls \o PoolManagerCalls \o FactoryCalls
    \o <<Do("booster", "setArbitrator", <<"arbitratorVault">>), Do("booster", "setVoteDelegate", <<"dao">>)>>
    \o StashCalls
    \o <<Do("booster", "setFees", <<>>),
         Do("booster", "setFeeInfo", <<>>),
         Do("booster", "setTreasury", <<"treasury">>),
         Do("booster", "setFeeManager", <<"dao">>),
         Do("booster", "setOwner", <<"boosterOwner">>)>>
Phase6 == Phase6Contracts \o Phase6Calls

(***************************************************************************)
(* Tasks after the phases: helpers for the first booster, and the stash,   *)
(* pool manager and second owner that upgrade the booster of phase 6.      *)
(***************************************************************************)
PostPhases ==
    <<New("feeCollector", [booster |-> "booster", voterProxy |-> "voterProxy"]),
      New("boosterHelper", [booster |-> "booster"]),
      New("gaugeMigrator", [booster |-> "booster"])>>
MerkleDropTask == <<New("airdrop", [dao |-> "treasury", liq |-> "cvx", liqLocker |-> "cvxLocker"])>>
Upgrade01 ==
    <<New("stashV3", <<>>),
      New("poolManager", [pools |-> "poolManagerProxy", booster |-> "booster", operator |-> "dao"]),
      New("boosterOwnerSecondary", [owner |-> "dao", boosterOwner |-> "boosterOwner", booster |-> "booster"])>>

(***************************************************************************)
(* deployFullSystem.ts, which completes the system that is on mainnet, the *)
(* calls it leaves to the DAO (as comments, in their order), and           *)
(* vesting:deploy.  An arbitrator vault is neither deployed nor known to   *)
(* the script, so the commented setArbitrator is nobody's to make.         *)
(***************************************************************************)
FullSystemContracts ==
    Tail(BoosterContracts) \o LiqLitRewards \o PoolManagement
    \o <<New("cvxLocker", [stakingToken |-> "cvx", cvxCrv |-> "cvxCrv", cvxcrvStaking |-> "cvxCrvRewards"]),
         New("litDepositorHelper", [crvDeposit |-> "crvDepositor"])>>
    \o Exercisers
    \o <<New("claimZap", [liq |-> "cvx", liqLit |-> "cvxCrv", liqLitRewards |-> "cvxCrvRewards", liqLocker |-> "cvxLocker"]),
         New("liquisViewHelpers", <<>>)>>
FullSystemRecord ==
    Record(<<"rewardFactory", "tokenFactory", "proxyFactory", "stashFactory", "stashV3", "cvxCrvRewards", "poolManagerProxy",
             "poolManager", "boosterOwner", "cvxLocker", "litDepositorHelper", "flashOptionsExerciser",
             "pooledOptionsExerciser", "claimZap", "liquisViewHelpers">>)
FullSystemCalls ==
    <<Do("cvxLocker", "addReward", <<"booster">>), Do("cvxLocker", "transferOwnership", <<"dao">>)>>
    \o PoolManagerCalls
    \o <<Do("pooledOptionsExerciser", "setOwner", <<"dao">>), Do("flashOptionsExerciser", "setOwner", <<"dao">>)>>
FullSystem == ReadConfig \o FullSystemContracts \o FullSystemRecord \o FullSystemCalls

\* slip: the booster is handed to its sealed owner before it is set up
SlipLeftToDao ==
    StashCalls \o FactoryCalls
    \o <<Do("booster", "setOwner", <<"boosterOwner">>), Do("booster", "setFeeInfo", <<>>)>> \o RewardCalls
LeftToDao ==
    StashCalls \o RewardCalls \o FactoryCalls
    \o <<Do("booster", "setFeeInfo", <<>>), Do("booster", "setOwner", <<"boosterOwner">>)>>

\* team and voters, partners, special partners
VestingCreateGroups == <<13057, 4260, 13000>>
VestingCreate ==
    Flatten([i \in 1..Len(VestingCreateGroups) |->
        <<New(Escrow[i], [rewardToken |-> "cvx", admin |-> "treasury", liqLocker |-> "cvxLocker"]),
          Do(Escrow[i], "fund", <<"nobody">>),
          Pay(Escrow[i], VestingCreateGroups[i])>>])

(***************************************************************************)
(* deploy/deploy: the prelaunch contracts on a tenderly fork, every        *)
(* address written as soon as it is known and read back by the scripts     *)
(* that follow; scripts/tenderly has the same steps for a local process.   *)
(***************************************************************************)
Recorded(c, args) == <<New(c, args)>> \o Record(<<c>>)
Prelaunch ==
    Recorded("voterProxy", <<>>) \o Recorded("mockLiq", <<>>) \o Recorded("cvxCrv", <<>>)
    \o Recorded("crvDepositor", [staker |-> "voterProxy", minter |-> "cvxCrv", daoOperator |-> "deployer"])
    \o <<Do("cvxCrv", "setOperator", <<"crvDepositor">>)>>
    \o Recorded("litDepositorHelper", [crvDeposit |-> "crvDepositor"])
    \o Recorded("prelaunchRewardsPool",
            [rewardToken |-> "mockLiq", litConvertor |-> "litDepositorHelper", crvDepositor |-> "crvDepositor",
             voterProxy |-> "voterProxy"])
TenderlyPrelaunch == Prelaunch
\* the depositor is stored and approved
SetCrvDepositor == <<Do("prelaunchRewardsPool", "setCrvDepositor", <<"crvDepositor", "crvDepositor">>)>>
VoterProxySet == <<Do("voterProxy", "setDepositor", <<"crvDepositor">>)>>
VoterProxyInitialLock == <<Do("crvDepositor", "initialLock", <<>>)>>
NotifyRewardAmount == <<Do("prelaunchRewardsPool", "notifyRewardAmount", <<>>)>>
ViewHelpers == <<New("liquisViewHelpers", <<>>)>>
=============================================================================
