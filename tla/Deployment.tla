----------------------------- MODULE Deployment -----------------------------
(***************************************************************************)
(* Deploying the system: the scripts of DeploymentScripts run one after    *)
(* the other by the deployer, against contracts that check who calls; the  *)
(* process may die between two transactions and the script is then run     *)
(* again from its beginning, with the addresses that were recorded.  The   *)
(* DAO makes the calls that are its own; anybody may add a pool once the   *)
(* pool manager is open.                                                   *)
(***************************************************************************)
EXTENDS DeploymentScripts, FiniteSets, Functions

CONSTANTS Gauges,       \* config.gauges, in the order phase 4 adds them
          MaxReruns     \* bound: how often a script is started again

ASSUME GaugesAssumption == Gauges \in Seq(STRING) /\ MaxReruns \in Nat
ASSUME PremineAssumption == ChecksumHolds

VARIABLES
    plan,     \* which scripts are run
    env,      \* hre.network.name and the chain getChain takes it for
    task,     \* the script being run
    pc,       \* its next step
    status,   \* "running", "crashed", or "refused" when a step threw
    reruns,
    hand,     \* the instance of each contract the running script holds
    book,     \* the instance of each contract on record between scripts
    kept,     \* the instances finished scripts have left in use
    slots,    \* the addresses every deployed instance stores
    liq,      \* the deployer's LIQ of each token instance, in thousands
    pools,    \* <<booster, gauge>> registered
    open,     \* pool managers whose protectAddPool is off
    funded,   \* the treasury has supplied the liquidity provider (PRE-3)
    daoCall   \* the DAO's next call in the full plan

vars == <<plan, env, task, pc, status, reruns, hand, book, kept, slots, liq, pools, open, funded, daoCall>>

Tasks ==
    CASE plan = "phases" -> <<Phase1(env), Phase2(env), Phase3(env), Phase4(Gauges), Phase5, PostPhases,
                              MerkleDropTask, TempBooster, Phase6, Upgrade01>>
      [] plan = "full" -> <<FullSystem, VestingCreate>>
      [] plan = "prelaunch" -> <<Prelaunch, SetCrvDepositor, VoterProxySet, VoterProxyInitialLock, NotifyRewardAmount,
                                 ViewHelpers>>
      [] plan = "tenderly" -> <<TenderlyPrelaunch>>
ScriptsDone == task > Len(Tasks)
AtPhase(n) == plan = "phases" /\ task = n
Script == Tasks[task]
Step == Script[pc]
Finished == ScriptsDone /\ (plan = "full" => daoCall > Len(LeftToDao))

Nobody == <<"nobody", 0>>
Deployer == <<"deployer", 0>>
\* boosterV1 is the booster on record while phase 6 deploys another
Known(name) == name \in Accounts \/ name = "boosterV1" \/ name \in DOMAIN hand
Address(name) ==
    IF name \in Accounts THEN <<name, 0>>
    ELSE IF name = "boosterV1" THEN <<"booster", book["booster"]>>
    ELSE <<name, hand[name]>>
Current == {<<name, hand[name]>> : name \in DOMAIN hand}

(***************************************************************************)
(* What the contracts accept.                                              *)
(***************************************************************************)
Holder(c, path) == IF Len(path) = 1 THEN slots[c][path[1]] ELSE slots[slots[c][path[1]]][path[2]]

\* demands of a call beyond the caller's right; safeApprove approves nobody twice
Demands(step, c) ==
    LET fn == step.fn
    IN  /\ fn = "setOperator" /\ c[1] = "voterProxy" => slots[c].operator = Nobody
        /\ fn = "init" => c \notin DOMAIN liq /\ slots[slots[c].vecrvProxy].operator \notin {Nobody, slots[c].operator}
        /\ fn = "setFeeInfo" => slots[c].lockRewards # Nobody /\ slots[c].rewardFactory # Nobody
        /\ fn = "initialLock" => slots[slots[c].staker].depositor = c
        /\ fn = "setCrvDepositor" => slots[c].approved # Address(step.args[1])

\* PoolManager, its proxy and the Booster let who add the gauge
CanAddPool(pm, g, who) ==
    LET proxy == slots[pm].pools
        b == slots[proxy].pools
    IN  /\ pm \in open \/ slots[pm].operator = who
        /\ slots[proxy].operator = pm
        /\ <<b, g>> \notin pools
        /\ slots[b].poolManager = proxy
        /\ slots[b].rewardFactory # Nobody /\ slots[b].stashFactory # Nobody
        /\ slots[slots[b].stashFactory].v3Implementation # Nobody
        /\ slots[slots[b].staker].operator = b

MayCall(step, who) ==
    LET c == Address(step.on)
        by == Rules(step.on).calls[step.fn].by
    IN  Holder(c, by) = <<who, 0>> /\ Demands(step, c)

KnownArgs(step) == \A k \in DOMAIN step.args : Known(step.args[k])
Accepted(step, who) ==
    \/ step.fn = "new" /\ KnownArgs(step)
    \/ step.fn = "getConfig" /\ (plan = "phases" => env.network # "mainnet")
    \/ step.fn = "checksum" /\ ChecksumHolds
    \/ step.fn = "record" /\ KnownArgs(step)
    \/ step.fn = "provideLiquidity" /\ funded
    \/ step.fn = "transfer" /\ step.args.amount <= liq[Address("cvx")]
    \/ step.fn = "addPool" /\ CanAddPool(Address("poolManager"), step.args[1], <<who, 0>>)
    \/ /\ step.fn \notin {"new", "getConfig", "checksum", "record", "provideLiquidity", "transfer", "addPool"}
       /\ Known(step.on) /\ KnownArgs(step) /\ MayCall(step, who)

(***************************************************************************)
(* What they then store.                                                   *)
(***************************************************************************)
Unchanged == UNCHANGED <<plan, env, kept, open, funded>>

Deployed(step) ==
    LET n == Cardinality({c \in DOMAIN slots : c[1] = step.on}) + 1
        born == [f \in DOMAIN Rules(step.on).born |-> <<Rules(step.on).born[f], 0>>]
        given == [f \in DOMAIN step.args |-> Address(step.args[f])]
    IN  /\ slots' = (<<step.on, n>> :> (given @@ born)) @@ slots
        /\ hand' = (step.on :> n) @@ hand
        /\ UNCHANGED <<book, liq, pools>>

\* the reward contracts, the reward factory and the token factory are kept once set
SetOnce == {"lockRewards", "stakerRewards", "rewardFactory", "tokenFactory"}
Stored(step) ==
    LET c == Address(step.on)
        sets == Rules(step.on).calls[step.fn].sets
        Written(f) == \E k \in DOMAIN sets : sets[k] = f /\ (f \in SetOnce => slots[c][f] = Nobody)
        Value(f) == Address(step.args[CHOOSE k \in DOMAIN sets : sets[k] = f])
        written == [f \in DOMAIN slots[c] |-> IF Written(f) THEN Value(f) ELSE slots[c][f]]
        isInit == step.fn = "init"
    IN  /\ slots' = [slots EXCEPT ![c] =
               IF isInit THEN [written EXCEPT !.operator = slots[slots[c].vecrvProxy].operator] ELSE written]
        /\ liq' = IF isInit THEN (c :> InitMint) @@ liq ELSE liq
        /\ UNCHANGED <<hand, book, pools>>

\* only the prelaunch scripts read the file they write; the phases read addresses
\* copied from the log of a finished phase
Recording(step) ==
    /\ book' = IF plan \in {"prelaunch", "tenderly"}
               THEN [name \in {step.args[k] : k \in DOMAIN step.args} |-> hand[name]] @@ book ELSE book
    /\ UNCHANGED <<hand, slots, liq, pools>>

Paid(step) ==
    /\ liq' = [liq EXCEPT ![Address("cvx")] = IF step.args.amount = -1 THEN 0 ELSE @ - step.args.amount]
    /\ UNCHANGED <<hand, book, slots, pools>>

PoolAdded(step) ==
    /\ pools' = pools \cup {<<slots[slots[Address("poolManager")].pools].pools, step.args[1]>>}
    /\ UNCHANGED <<hand, book, slots, liq>>

Executed(step) ==
    CASE step.fn = "new" -> Deployed(step)
      [] step.fn = "record" -> Recording(step)
      [] step.fn = "transfer" -> Paid(step)
      [] step.fn = "addPool" -> PoolAdded(step)
      [] step.fn \in {"getConfig", "checksum", "provideLiquidity"} -> UNCHANGED <<hand, book, slots, liq, pools>>
      [] OTHER -> Stored(step)

(***************************************************************************)
(* The deployer.  Phases 3 and 4 wait for what their comments ask of the   *)
(* treasury and of the DAO (PRE-3, PRE-4).                                 *)
(***************************************************************************)
Ready ==
    /\ AtPhase(3) /\ env.chain = "mainnet" => funded
    /\ AtPhase(4) => Address("poolManager") \in open

RunStep ==
    /\ status = "running" /\ ~ScriptsDone /\ pc <= Len(Script) /\ Ready
    /\ Accepted(Step, "deployer")
    /\ Executed(Step)
    /\ pc' = pc + 1
    /\ Unchanged /\ UNCHANGED <<task, status, reruns, daoCall>>

\* the awaited transaction reverts, or the script itself throws
StepThrows ==
    /\ status = "running" /\ ~ScriptsDone /\ pc <= Len(Script) /\ Ready
    /\ ~Accepted(Step, "deployer")
    /\ status' = "refused"
    /\ Unchanged /\ UNCHANGED <<task, pc, reruns, hand, book, slots, liq, pools, daoCall>>

\* the addresses a finished script logged are what the next ones are given
ScriptEnds ==
    /\ status = "running" /\ ~ScriptsDone /\ pc > Len(Script)
    /\ task' = task + 1 /\ pc' = 1
    /\ book' = IF plan \in {"prelaunch", "tenderly"} THEN book ELSE hand
    /\ hand' = book'
    /\ kept' = kept \cup Current
    /\ UNCHANGED <<plan, env, status, reruns, slots, liq, pools, open, funded, daoCall>>

Crash ==
    /\ status = "running" /\ ~ScriptsDone /\ reruns < MaxReruns
    /\ status' = "crashed"
    /\ Unchanged /\ UNCHANGED <<task, pc, reruns, hand, book, slots, liq, pools, daoCall>>

\* instances of the failed attempt that nothing in use refers to play no part any more
Remembered == kept \cup {c \in DOMAIN slots : \E k \in kept : \E f \in DOMAIN slots[k] : slots[k][f] = c}
Rerun ==
    /\ status # "running" /\ reruns < MaxReruns
    /\ status' = "running" /\ pc' = 1 /\ hand' = book /\ reruns' = reruns + 1
    /\ slots' = Restrict(slots, Remembered)
    /\ liq' = Restrict(liq, Remembered \cap DOMAIN liq)
    /\ Unchanged /\ UNCHANGED <<task, book, pools, daoCall>>

(***************************************************************************)
(* The treasury, the DAO and the public.                                   *)
(***************************************************************************)
FundLiquidityProvider ==
    /\ AtPhase(3) /\ ~funded
    /\ funded' = TRUE
    /\ UNCHANGED <<plan, env, task, pc, status, reruns, hand, book, kept, slots, liq, pools, open, daoCall>>

SetProtectPool ==
    /\ AtPhase(4) /\ Address("poolManager") \notin open
    /\ open' = open \cup {Address("poolManager")}
    /\ UNCHANGED <<plan, env, task, pc, status, reruns, hand, book, kept, slots, liq, pools, funded, daoCall>>

AddForeignPool(g) ==
    \E pm \in open :
        /\ CanAddPool(pm, g, Nobody)
        /\ pools' = pools \cup {<<slots[slots[pm].pools].pools, g>>}
        /\ UNCHANGED <<plan, env, task, pc, status, reruns, hand, book, kept, slots, liq, open, funded, daoCall>>

DaoCalls ==
    /\ plan = "full" /\ task > 1 /\ daoCall <= Len(LeftToDao)
    /\ Accepted(LeftToDao[daoCall], "dao")
    /\ Stored(LeftToDao[daoCall])
    /\ daoCall' = daoCall + 1
    /\ Unchanged /\ UNCHANGED <<task, pc, status, reruns>>

(***************************************************************************)
(* Where the plans start: from nothing, or from the contracts on mainnet   *)
(* that mainnet-full.ts lists, in the state its fork test relies on.       *)
(***************************************************************************)
OnMainnet ==
    LET At(name) == <<name, 1>>
        dao == <<"dao", 0>>
    IN  (At("voterProxy") :> [owner |-> dao, operator |-> At("booster"), depositor |-> At("crvDepositor")])
        @@ (At("cvx") :> [vecrvProxy |-> At("voterProxy"), operator |-> At("booster"), minter |-> At("minter")])
        @@ (At("minter") :> [liq |-> At("cvx"), owner |-> dao])
        @@ (At("booster") :>
            ([staker |-> At("voterProxy"), minter |-> At("cvx")]
             @@ [[f \in DOMAIN BoosterRules.born |-> <<BoosterRules.born[f], 0>>] EXCEPT
                    !.owner = dao, !.feeManager = dao, !.voteDelegate = dao]))
        @@ (At("cvxCrv") :> [operator |-> At("crvDepositor")])
        @@ (At("crvDepositor") :>
            [staker |-> At("voterProxy"), minter |-> At("cvxCrv"), daoOperator |-> dao, feeManager |-> dao])

\* getChain takes a network for mainnet by the configuration it is run with (tasks-fork),
\* too; mainnet stands for all those without a configuration file
Environments(p) ==
    CASE p = "phases" -> {Environment("mainnet", "mainnet")}
                         \cup {Environment(network, chain) : network \in {"hardhat", "localhost", "tenderly"},
                                                            chain \in {"local", "mainnet"}}
      [] p = "full" -> {Environment("mainnet", "mainnet")}
      [] OTHER -> {Environment("tenderly", "local")}

Init ==
    /\ plan \in {"phases", "full", "prelaunch", "tenderly"} /\ env \in Environments(plan)
    /\ task = 1 /\ pc = 1 /\ status = "running" /\ reruns = 0
    /\ slots = IF plan = "full" THEN OnMainnet ELSE <<>>
    /\ book = [name \in {c[1] : c \in DOMAIN slots} |-> 1] /\ hand = book
    /\ kept = DOMAIN slots
    /\ liq = IF plan = "full" THEN <<"cvx", 1>> :> InitMint ELSE <<>>
    /\ pools = {} /\ open = {} /\ funded = FALSE /\ daoCall = 1

Next ==
    \/ RunStep \/ StepThrows \/ ScriptEnds \/ Crash \/ Rerun
    \/ FundLiquidityProvider \/ SetProtectPool \/ DaoCalls
    \/ \E k \in DOMAIN Gauges : AddForeignPool(Gauges[k])

\* the scripts await one transaction after the other, a stopped script is run again
\* while its operator has patience, and the treasury and the DAO do their part
Fairness ==
    /\ WF_vars(RunStep) /\ WF_vars(ScriptEnds) /\ WF_vars(Rerun)
    /\ WF_vars(FundLiquidityProvider) /\ WF_vars(SetProtectPool) /\ WF_vars(DaoCalls)
Spec == Init /\ [][Next]_vars /\ Fairness

(***************************************************************************)
(* Properties.                                                             *)
(***************************************************************************)
AtCall(fn) == ~ScriptsDone /\ pc <= Len(Script) /\ Step.fn = fn
\* configuration files exist only for the networks the phases were tested on, and where
\* another network than hardhat is taken for a local chain (localhost, tenderly) phase 2
\* records exercisers it has not deployed
NetworkUnsupported ==
    /\ plan = "phases"
    /\ \/ AtCall("getConfig") /\ env.network = "mainnet"
       \/ AtPhase(2) /\ AtCall("record") /\ env.network # "hardhat" /\ Local(env)
\* phase 2 died after the voter proxy had been given its operator
VoterProxyTaken ==
    plan = "phases" /\ task = 2 /\ AtCall("setOperator") /\ slots[Address("voterProxy")].operator \notin Current \cup {Nobody}
\* phase 4 meets a gauge that somebody, or its own first attempt, has added
GaugeTaken == AtCall("addPool") /\ <<Address("booster"), Step.args[1]>> \in pools
\* deployFullSystem died after the deployer had passed the pool manager's role on
PoolManagerTaken ==
    plan = "full" /\ AtCall("setPoolManager") /\ slots[Address("booster")].poolManager \notin Current \cup {Deployer}
\* vesting:deploy, started again, funds new escrows for groups that have theirs
FundedTwice == plan = "full" /\ reruns > 0 /\ AtCall("transfer") /\ Step.args.amount > liq[Address("cvx")]
\* the script that sets the depositor of the prelaunch pool died after it had been approved
DepositorApproved ==
    /\ plan = "prelaunch" /\ reruns > 0 /\ AtCall("setCrvDepositor")
    /\ slots[Address("prelaunchRewardsPool")].approved = Address("crvDepositor")
Explained ==
    NetworkUnsupported \/ VoterProxyTaken \/ GaugeTaken \/ PoolManagerTaken \/ FundedTwice \/ DepositorApproved

\* The order of the calls is one the contracts accept: every right is handed over only
\* after the last call that needs it, and every call comes after those it relies on.  A
\* script is refused only where the network has no configuration, or where a first
\* attempt died beyond the point from which the script can be repeated.
RefusedOnlyWhenExplained == status = "refused" => Explained

\* Once the scripts and the DAO's calls are through, the deployer has no right left in
\* any contract in use but the role of vote manager, which no script passes on, and, on
\* a local chain, the prelaunch pool it is not asked to hand over; nor has it any LIQ
\* left of the phases' premine.
Handover ==
    Finished /\ plan \in {"phases", "full"} =>
        /\ \A c \in kept : \A f \in DOMAIN slots[c] : slots[c][f] = Deployer =>
               \/ c[1] = "booster" /\ f = "voteManager"
               \/ Local(env) /\ c[1] = "prelaunchRewardsPool"
        /\ plan = "phases" => liq[Address("cvx")] = 0

\* what phase 6 leaves with the booster it replaces until the DAO migrates, or for good
\* where the field is immutable
LeftOnFirstBooster ==
    {<<"voterProxy", "operator">>, <<"cvx", "operator">>, <<"arbitratorVault", "depositor">>,
     <<"cvxLocker", "distributor">>, <<"cvxLocker", "cvxcrvStaking">>, <<"gaugeMigrator", "booster">>,
     <<"poolMigrator", "boosterV1">>}
    \cup ({"flashOptionsExerciser", "pooledOptionsExerciser"} \X {"operator", "lockerRewards"})
\* When the scripts are through, a contract on record refers to contracts on record: to no
\* instance that a crashed attempt abandoned, and to none that phase 6 replaced except
\* where the list above says so.  (The stash factory keeps the stash of phase 6 until the
\* DAO changes it to the one of the upgrade.)
OneSystem ==
    Finished => \A c \in Current : \A f \in DOMAIN slots[c] :
        \/ slots[c][f] \in Current
        \/ slots[c][f][1] \in Accounts
        \/ plan = "phases" /\ slots[c][f] \in kept
           /\ (<<c[1], f>> \in LeftOnFirstBooster \/ <<c[1], f>> \in {<<"stashFactory", "v3Implementation">>,
                                                                     <<"poolManagerProxy", "operator">>})

\* On a network they support, the scripts reach their end however often they crash and
\* are run again, except beyond a point from which they cannot be repeated.
DeploymentCompletes == []~Explained => <>Finished
=============================================================================
