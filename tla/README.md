# Liquis contracts: verification development

TLA+ models of the Liquis contracts and of the scripts that deploy, migrate and vote with them, TLC
configurations that check them on small instances, and TLAPS proofs of what matters most for every instance.
Everything is translated from the Solidity and TypeScript sources under `src/`. `PROJECT.json` lists, for every definition, the lines it stands for, and for every
property a mutation of the code that breaks it.

Running it: `tlc -config votes.cfg MCLiqLocker`, `tlapm LiqLockerProofs.tla`, and likewise for the rest.

## 1. The system

Liquis is a fork of Aura and Convex for Bunni. A user deposits Bunni LP tokens; the Booster stakes them in
the gauges through the VoterProxy, which also holds a vote escrow of LIT. The oLIT and other rewards that
this earns are shared between LP stakers, liqLIT stakers and LIQ lockers.

| Component | State | Operations | Hard behaviour | What makes it correct |
|---|---|---|---|---|
| `LiqLocker` | locks per account, epoch supplies, delegations with vote checkpoints, reward streams, shutdown flag | lock, process/relock/kick, delegate, claim, fund, blacklist, recover, shut down, emergency exit | four records of one stake (locks, balances, epochs, votes) written at different times and read by week; exits after a shutdown; streams settled lazily | the four agree; the stake is backed; nobody leaves early or is trapped; streams are solvent and never pay for the past |
| `ExtraRewardsDistributor` | rewards per share and week, claim indices | add, claim, skip, forfeit | rewards for past weeks, divided by supplies read from the locker's history | no double payment, no reward out of reach, claims covered |
| `BaseRewardPool`, `BaseRewardPool4626`, `VirtualBalanceRewardPool` | shares, allowances, one stream per pool | stake, withdraw, transfer, claim, queue, link | up to 13 pools settle on the shares of one; they must be called before the shares change | the same as for the streams, in every pool; stake backed |
| `CrvDepositor`, `VoterProxy` escrow | deferred LIT, incentive owed, unlock time | deposit, lock, relock, stop, replace | incentive of deferred locks is paid to another caller; several copies of the unlock time; a lock that runs out | liqLIT and incentive never exceed the LIT that came in; locks are the longest there are |
| `Booster`, `DepositToken`, `PoolManager*`, `BoosterOwner*` | pools, fee tokens, shutdown flags | deposit, withdraw, earmark, add and shut pools, shut down | `try/catch` around gauge calls; one gauge with several pools; balances used as accounts of what was claimed | deposit tokens are backed by LP tokens somewhere reachable |
| `ExtraRewardStashV3`, `StashToken`, `ArbitratorVault`, factories | reward tokens of a gauge and their pools | check, claim, process, link | limits of 4 and 8 tokens; a cap per week | every token claimed reaches its pool |
| `Liq`, `LiqMinter` | minted by cliff, by the minter | mint, minterMint | the schedule is computed from `totalSupply` | emissions stay below the cap and fall by cliffs |
| `LiqVestedEscrow`, `LiqMerkleDrop`, `PrelaunchRewardsPool` | vesting, bonus index, prelaunch stakes | fund, claim, cancel, convert, renounce, forward | cancel against claim, the last claim of a bonus, renounced rewards | never more than funded; the rest returned |
| `PooledOptionsExerciser`, `FlashOptionsExerciser` | queued options by epoch | queue, unqueue, exercise, withdraw | an epoch that closes while accounts queue | shares of a closed epoch are fixed |
| deployment scripts (`scripts/`, `tasks/deploy`, `tasks/vesting`, `deploy/`) | addresses in a configuration or written in by hand; the contracts' roles and links | phases 1 to 6, full system, prelaunch, vesting, upgrade | a process that dies between two of a hundred transactions and is started again; rights given away on the way; calls left to others; a public `addPool` | every right given away after its last use and none kept; one system; can be finished |
| migration tasks (`tasks/shutdown`) | files of calls for the DAO's safe | generate, generate again, execute | the chain changes between generation and execution; files are regenerated or left over | one open pool per gauge; both contracts change at once; no gauge forgotten |
| gauge vote tasks (`tasks/snapshot`) | two files, a proposal, the power of each gauge | list, choose, open, evaluate, send | labels for identities; files rewritten between two tasks; an external limit on every single vote | votes accepted in order, for the right gauges, with the whole power |
| zaps, helpers, views, `AuraPenaltyForwarder`, `ConvexMasterChef` | little or none | | | |

How they interact: the Booster harvests oLIT from the gauges, sends shares of it to a `BaseRewardPool` per
LP token, to the liqLIT pool and to `LiqLocker` by `queueNewRewards`, and mints LIQ when a pool reports a
claim. Stashes feed `VirtualBalanceRewardPool`s, which read the shares of their base pool and are called by
it. `ExtraRewardsDistributor` and governance read `LiqLocker` by week. Calls between contracts are synchronous
in one transaction: there are no messages to lose, and no crash. What is hard is the interleaving of
transactions of many accounts with the clock, lazily updated state, stale reads across contracts, and partial
failure where the code catches it. The scripts are the opposite: long sequences of transactions of one process
that may die, with addresses and files that may be out of date. `PROJECT.json` lists the hazards line by line.

A transaction is atomic, so an action of a model is a whole external function with every call it makes, and
a revert is a step that cannot be taken. Checked subtractions are guards. Fixed-point scales (1e18, 1e20,
10000) are constants, small in the runs, and their roundings are kept; so are the bounds of the code
(`RateCap`, `MaxUint96`, `EpochCap`). Amounts otherwise fit their widths because supplies do.

## 2. The modules

| Module | Contents |
|---|---|
| `Sums` | sums over an index, as the code's loops compute them |
| `Lists` | filtering and stable sorting of lists, as the tasks do it, by counting what comes before an element |
| `RewardStream` | the Synthetix-style stream that the locker and the pools share: `Refreshed` and `Settled` are the two halves of `updateReward`, `Notified` is `_notifyReward`, `Waits` the ratio test of `queueNewRewards` |
| `LiqLocker` | state, actions and specification of the locker. Epochs, locks and checkpoints are sequences from 1, arrays from 0 in the code; `nextUnlockIndex` counts in both |
| `LiqLockerViews` | `balanceAtEpochOf`, `totalSupplyAtEpoch`, `getPastVotes` and the properties of the locker, with the refinement to `EpochShares` |
| `EpochShares` | abstract: a lock adds a share to each of the weeks after its own until it ends, and nothing else ever changes a share |
| `ExtraRewardsDistributor` | the distributor, composed with `EpochShares` in place of the locker that implements it |
| `RewardPools` | a base pool and its virtual pools together. `CalledPools` is the loop over `extraRewards`; `Settle` and `SettleAndPay` are what one call does in all of them |
| `CrvDepositor` | the depositors, the escrow side of `VoterProxy` and the external voting escrow |
| `Booster` | the Booster as keeper of LP tokens, with the gauge side of `VoterProxy`, `DepositToken`, `PoolManager`, `PoolManagerProxy` and the shutdowns of `BoosterOwner` |
| `Harvest` | the way of the rewards: harvest, fees, bridge, claims, and the LIQ minted for them; the reward contracts, pools 1 to `NumPools` and then the two of the stakers, are counters of what came in and went out |
| `DeploymentScripts` | each script as the sequence of its transactions, and which field of a contract may make which call |
| `Deployment` | running them: the process, its addresses, the contracts' fields, crash and rerun, the DAO, the treasury and the public |
| `Migration` | the shutdown tasks, their files as calls, and the Boosters as one value so that a file is all or nothing |
| `GaugeVotes` | the snapshot tasks, the files they share, and the gauge controller |
| `WrappedToken` | abstract: a token minted only against what came in, less a part owed that is minted at most once |
| `MCLiqLocker`, `MCBooster`, `MCHarvest`, `MCDeployment`, `MCMigration`, `MCGaugeVotes` | constants that a .cfg cannot spell |
| `SharedProofs` | lemmas on sums, on sorted and filtered lists, and on streams |
| `LiqLockerProofs`, `ExtraRewardsProofs`, `RewardPoolsProofs`, `BoosterProofs`, `HarvestProofs`, `MigrationProofs` | theorems about the module of the same name |
| `VoterProxyProofs` | theorems about `CrvDepositor` and `GaugeVotes`: what the VoterProxy holds, and what it votes |

Where a comment starts with "Slip", the definition below it is a wrong version of the next one that nothing
uses: an off-by-one, a dropped guard, a swapped order. Each is the mutant in `PROJECT.json` for some
property, which is violated when it takes the definition's place.

Correspondence worth knowing:

- *Locker.* `ProcessLocks` is `_processExpiredLocks` with its bundled branch (all locks due, or shutdown) and
  its loop (a prefix of due locks), the kick reward of each, and the relock, which runs `_lock` on the
  balances and checkpoints that the first half has changed. `CheckpointDelegate` overwrites the checkpoint
  of the same week and appends otherwise. Staking a claimed reward (`_stake`) pays the same amount for the
  same account. `RewardsFit` is the revert of `to96`.
- *Distributor.* Claims end at the first epoch that the locker has not closed; a claim of nothing changes nothing.
- *Pools.* The LP token, the deposit token that the Booster mints for it one to one and the account's wallet of
  either are one, `wallet`; the Booster's part (staking the LP tokens in the gauge) is left to its module.
  A pool too many is silently not linked (`Linked`); the creators' own limits (`PoolLimit`) are what
  keeps that from happening, and `PoolsAssumption` states it: 4 + 8 tokens in a stash and 10 fee tokens, of 12.
- *Depositor.* `LockTokens` is `_lockCurve` with its two silent returns, `ExtendLock` its end. The escrow is
  external: voting power is positive until the lock runs out, times are rounded down to weeks and a lock can
  only be extended, all as `unlockInWeeks`, `initialLock` and `increaseTime` rely on. Several depositors run the
  same code because `setDepositor` lets the owner replace one, while liqLIT's operator stays the first.
  `VoterProxy.execute`, by which the Booster's DAO could move anything, is not modelled.
- *Booster.* `ShutdownPool` is one transaction of three contracts: the Booster swallows a failing withdrawal,
  and `PoolManager`, which compares what arrived with the supply, undoes it. `ShutdownSystem` leaves a pool open
  whose gauge fails; it can be run again. The guards on callers are the deployment's: `PoolManager` operates
  `PoolManagerProxy`, `BoosterOwner` owns the Booster. A gauge (external) may stop paying but never loses tokens, so
  the supply mismatch arises only from a gauge that stops. An account's deposit tokens are one number, staked or
  not; the calls of the stash in deposits and withdrawals claim rewards only and are left to its module.
- *Harvest.* `Distribute` is what `_earmarkRewards` does once `claimCrv` has returned, with its one subtraction
  of idle oLIT and the two calls of the stash, which are not in a `try`: `stashWorks` says whether they return; the tokens
  they move are left out. Whether a stream runs in the liqLIT pool, and what an amount meets in the locker
  (`LockerStates`), are parameters: they decide only what `queueNewRewards` refuses (`Takes`, `LockerTakes`). How the
  streams run is in `RewardPools` and `LiqLocker`. A treasury equal to the Booster and pools of other fee tokens are left out.
- *Deployment.* A step is one awaited transaction, a write of the configuration, or a check of the script itself.
  `hand` is what a running script's variables hold, `book` what the next one will be given: the phases read
  addresses that were copied by hand from the log of a finished phase (`getPhase1`, ...), so an attempt that died
  leaves none, while the prelaunch scripts write each address at once and read them back. A rerun starts
  from `book`. Contracts that nothing in use refers to are forgotten then (`Remembered`), which keeps the states finite.
- *Migration.* A file is executed at most once per generation, all of it or not at all. `ShutdownTo` is the booster whose pool
  manager the generated `shutdownPool` calls address: 2 in today's source (`tasks/shutdown/index.ts:28`), which suits
  `migratepools47` only (section 6); 1 in the files that are checked in. The run takes 2, the theorems either.
  With 2 the pools of the first booster are closed by hand (`CloseByHand`). `_addPool` wants a gauge with weight (`CanAdd`), which
  votes of the other protocol give and take (`Revote`, external). A gauge that stops paying makes `shutdownPool` revert; that is in `Booster`,
  and here a call that is not made.
- *Gauge votes.* `InOrder` is the two sorts of `snapshot:result`, the second with a comparison that looks at one
  argument; its result is what insertion sort gives, which the engine uses up to 63 votes. `snapshot:generate` throws on
  today's list, where a third of the pools have no WETH and `sortGaugeList` returns nothing for them; `Kind` tells which.
- *Clock.* `Tick` advances a clock that transactions read. Several transactions may share a timestamp.

## 3. The runs

All the runs are exhaustive. Time is in ticks, `RewardsDuration` of them to a week; two ticks to a week give
the start, the middle and the end of every week.

| Run | Asks | Bounds, and why they suffice |
|---|---|---|
| `votes` | do checkpointed votes match the locks behind them, do they stay frozen, and never block an exit | 2 accounts and 2 delegatees, each other's, one of them with code so that it can be blacklisted; locks of 2 weeks, 5 half-weeks: enough for lock, re-delegation, relock, expiry, exit and shutdown in one behaviour |
| `balances` | is the stake backed; is the history by week right and as `EpochShares` promises; who may leave and be kicked when | 2 accounts, 9 half-weeks: a lock, its relock a week early, the grace period and a kick all fit |
| `rewards` | are streams solvent, earnings kept, never retroactive and their owner's | 2 accounts, an operator, 1 token, 4 units of it in any portions; a stream of two ticks is topped up, waits, ends and runs dry; the owner's operations take part |
| `balance_after_shutdown` | expected to fail: section 6 | as `balances` |
| `extra_rewards` | are entitlements covered, lost only by their owner's call, and never added out of reach | 2 accounts, 1 token, 5 weeks, locks of 4: rewards for running, past and skipped weeks |
| `pools` | are a base and a virtual pool solvent, is what they are sent streamed (up to the cap), never retroactively, and to its owner | 2 accounts with 1 unit, one of them an operator; 3 units of oLIT, which can be streamed, topped up, put aside and processed idle; 2 of a reward whose weekly cap is 2: at and below the cap; a virtual pool is created at any time; whole units per share (`Precision` 1), so that every division rounds |
| `lit_escrow` | is liqLIT backed and one to one, are incentives paid once and for locking, are locks as long as can be | two depositors, 5 units of LIT, 6 half-weeks with locks of 2 weeks: a lock runs out and is made anew, deposits wait across it, the depositor is replaced and put back within and between weeks; a fee of a half, so that single units are owed |
| `lp_custody` | are deposit tokens backed and redeemable through every order of shutdowns | 2 gauges of one LP token that stop and go on, 3 pools, so that a gauge has a second pool after its first; 2 accounts with 1 token each; a forced shutdown falls due within the 2 ticks |
| `harvest` | is exactly what was harvested shared out, when is a harvest refused, does the minter disturb the emission | 1 pool, a stash that fails or not; 4 states of the locker: empty, an amount waits, a queue joins the stream, an accumulator overflows; limits of 6 and 8 on its queue and stream, which shares reach; 12 units of yield in portions of 4 and 8 by gauge, fees and bridge, 1 unit sent by a stranger to either contract; fees in eighths, two settings, one with a platform fee; 8 LIQ in 8 cliffs, so that claims of 1 and 4 cross cliffs and reach the cap; 2 weeks |
| `deployment` | is a script refused, is every right handed over, is the result one system, does it end | every script as it is, the phases on four networks and whichever chain each can be taken for, 2 gauges in phase 4, 2 reruns of any scripts: a crash in an attempt and in its repetition, or in two scripts |
| `migration` | one home per gauge, one switch, no gauge lost, does it end | 5 gauges: chunks of 2, 2 and 1 and two files to add; 1 pool added by the public for a new or an old gauge, 1 gauge killed, 1 without weight at times, any pool closed by hand, each task run at most twice |
| `gauge_votes` | are the votes accepted, for the right gauges, with the whole power | 4 gauges, 2 with one label, 1 that dies; scores of 0, 1, 7 and 600: at either side of 0.2% and with rounding; 2 votes, so that the second one starts from the power of the first |

Two accounts suffice where a property is about one account's call and another's state; sums over more accounts
are covered by the proofs. No property of the contracts is a liveness property: nothing in them is scheduled, every step is
taken by whoever calls it, and no fairness can be justified from the code. What must stay *possible* there
(`ExitNeverBlocked`, `EarmarkOpen`, `ExitsOpen`) is stated with ENABLED instead. The scripts do run by themselves.
`Deployment` assumes weak fairness of the running process (`RunStep`, `ScriptEnds`: a script awaits one transaction
after the other), of starting a stopped script again, and of what the scripts' comments ask of the treasury
and the DAO (PRE-3, PRE-4, the commented calls). `Migration` assumes that somebody runs `addpools:generate`
after the switch, and that the DAO executes the fourth file and those with pools to add when they can be. Crashes, strangers, votes on weights and
killed gauges are under no fairness. Both liveness properties carry a premise, stated in the module, that names what can
stop them; the safety properties have none of it. `MigrationCompletes` presupposes that the pools of the first booster get closed, by
whichever file or hand, that the fickle gauge has its weight for good at some time, and that no file to shut pools is executed
against the second booster; none of the three follows from the tasks. Deadlock is checked except where the system is meant to
come to its end (`deployment`, `migration`).
In `balances` and `votes` the reward side is empty, in `rewards` the votes: the actions that connect them
(`UpdateReward` in every lock and exit) take part in `rewards`.

## 4. The properties

Each property's comment says what it is about. The ones a reader should start with:

- `PendingVotesMatchLocks`: at any time, a checkpoint made now would record exactly the locks of those who
  delegate to it that outlive the coming week. The code never recomputes this; it subtracts per-week unlocks
  from an old checkpoint.
- `HistoryAsPromised`: the locker implements `EpochShares` under the mapping that reads the abstract shares by
  `balanceAtEpochOf`. With `SupplyIsSumOfBalances` it is what the distributor rests on.
- `RewardSolvency`, `PoolSolvency`: earned by all, plus waiting, plus still to be streamed, is at most what is held.
- `NoRetroactiveRewards`: without the clock moving nobody's earnings grow, whatever is called. `AccruedRewardsKept`,
  `EarningsReachOwner`: they shrink only by being paid in full.
- `WrapsOneToOne`: the depositor implements `WrappedToken`. `IncentivePaidForLocking`: `_lockCurve` may return
  without locking, and yet no incentive is paid for that.
- `DepositsBacked`, `ExitsOpen`: a closed pool's depositors are paid from the Booster, an open one's from its gauge,
  in every order of shutdowns; a pool is on the right side at all times. `ClosedPoolsBringTheirTokens`: the Booster holds the
  tokens of all closed pools together, and none is closed at the cost of another.
- `NoRewardBehindClaims`: no reward goes to a week that an account is through with already.
- `SharedWasHarvested`: oLIT that lies idle in the Booster or the VoterProxy is never shared out as claimed, although
  it is told from claimed oLIT by subtracting balances of two contracts. `EarmarkOpen`: nothing that lies idle or is
  set makes a harvest revert, other than what it names: a stash that fails, an empty share for the liqLIT stakers, a share the locker
  refuses (empty, too large a queue or rate, too little LIQ locked), and, while the oLIT minter fails, oLIT in the VoterProxy, with
  which the subtraction underflows.
- `RefusedOnlyWhenExplained` with `Handover`: the order of about a hundred calls is right, in each script and across
  crashes; the six explained refusals are listed in section 6. `OneSystem`: no contract in use refers to an instance of an
  abandoned attempt, or to the first Booster's where it is not meant to. `DeploymentCompletes`.
- `OneHome`, `SwitchedAtOnce`, `FilesLeaveNoGauge`, `MovesKeepGauges`, `MigrationCompletes`: files generated from a past state
  of the chain do no harm when they are executed in any order.
- `VotesAccepted`: at no point of the sequence sent is more than the whole power in use. `SharesFollowLabels`,
  `WholePowerUsed`: what gauges get is what their labels were voted.

## 5. The proofs

Proved for all values of the constants, from the named assumptions of the modules only. These say, for
instance, that a lock lasts at least two weeks, that operators are accounts, that timestamps exceed a lock's length, that the grace
period of a kick is not zero, that the creators of pools stop at the base pool's limit, that the first fees
are within `MaxFees` and `MaxFees` within `FEE_DENOMINATOR`, that the gauge controller lists a gauge once, and that the booster from which the migration starts has one pool per gauge (its `gaugeMap`).

**Sums and lists.** `SumTo` is a recursive function; that it exists and unfolds is proved by well-founded induction on
an interval (least counterexample), since the induction theorems of the library take operators. From it:
unfolding, congruence, one changed entry, monotonicity, linearity, and that an injection into larger entries only
raises a sum. A list is sorted by the number of elements that come before one (`Ordered`): these numbers are 0 to n - 1, each
taken once (`OrderedIsSorted`), so a sort or a filter is a selection of its positions in order.

**Locker, the stake** (`Invariance`, `TypeCorrect`, `StakeBacked`). `IInv` adds to the types: an account's locked balance
is the sum of its locks after `nextUnlockIndex`, the supply is the sum of the balances, and the tokens held
cover it. Two things make it inductive. A new lock must never be merged into one that was processed, or it
would never be paid back: an account's newest processed lock ends at most a week from now, and a new lock
lasts longer, unless the contract is shut down, when no lock is made at all. And subtractions must not
underflow: an account was paid up to an accumulator no larger than the present one, a checkpoint is never
later than the coming week, and an epoch never later than now.

**Locker, rewards** (`SolventStreams`, `NothingRetroactive`, `EarningsAreKept`, `ClaimsArrive`). `SolvencyOK`: for every
token the debt described under *Pools* is covered, and a token that is not registered has none. `emergencyWithdraw`
lowers the supply without settling: the accumulator then grows faster per share, which is harmless because the rate per second
is shared by the smaller supply, and the debt of the account that left ends with its balance. For what a step may do to
earnings, `EarningsStep` lists the moves: time, `emergencyWithdraw`, a claim, and nothing else. That settling moves
nothing is a lemma on streams.

**Locker, leaving** (`LocksHold`, `KicksWait`). `LocksStep` reads every transaction as one of a few moves of locks, votes and
staking tokens, `Processed` being what withdrawing, relocking and kicking share. `DatesOK`: an account's locks are in
the order of their ends. With it the loop of `_processExpiredLocks` takes exactly the live locks that are due, and its bundled branch
(the newest lock is due) no others.

**Locker, votes** (`VotesFollowLocks`, `VotesAreLocks`, `VotesBlockNothing`). `VotesMatch`, for every delegatee: the newest
checkpoint counts the delegated locks that end after its week, and the unlocks of a later week are those that end
in it. So what is carried over to any later week is what is delegated then; `CarriedAreDelegated` is that
sum by weeks against the sum by locks. Both sides count every entry of `userLocks`, and no exit removes one: a processed lock has ended
by the coming week or, after a shutdown, goes on counting on both sides (section 6).
`VotesBlockNothing`: no subtraction of `_checkpointDelegate` or `delegate` underflows. With it, `LeavingIsPaid` (`ExitsPaid`) is
`ExitNeverBlocked` without ENABLED: for an account with a due lock, or with anything locked after a shutdown, the run reaches every
due lock, its amount is more than 0 (`LocksWorthwhile`: no lock is empty), and balance, supply and tokens cover it. The
one guard left out is `RewardsFit`, which depends on the limits.

**Locker, past votes** (`CheckpointsInOrder`, `PastVotesStand`, `PastVotesAreAnswered`). The checkpoints are in order, so the binary search
finds the last one that is not later (`CheckpointsCounted`: the loop's two bounds always enclose the answer). Every handler writes only the checkpoint of
the coming week and the unlocks after it (`AllFollow`), and an answer for a week that has begun uses neither. When a week begins,
its answer is what the newest checkpoint carries over, hence a number; after that it stands.

**Locker, history** (`HistoryFollowsLocks`, `SupplyAddsUp`, `HistoryRefines`). `EpochsMatch`: the epochs follow each other
without a gap from the deployment on, each says what was locked in its week, and every lock has its epoch. With `DatesOK` the loops of the two
views, which stop early, lose nothing. `HistoryRefines` maps each transaction to a lock or a checkpoint of `EpochShares`, or to a stutter; the
bound on shares there needs that staking tokens only move (`Conserved`).

**Distributor** (`Invariance`, `RewardsInReach`, `AlwaysCovered`, `LossesAreOwn`). `IInv`: a token's reward epochs strictly increase and are
checkpointed, and an account is through only with closed ones. An addition goes to the running epoch, which
is not closed, or to one after all others; either way after everything claimed. What is promised rounds down for each account and epoch, so `DueCovered`
bounds what is due before rounding, in parts of `SharePrecision`: an addition of x adds at most x, since an account's shares are a part of the
supply it was divided by, and the shares of an epoch with a reward no longer change. A claim takes its unrounded due away and pays less.

**Pools** (`Invariance`, `TypeCorrect`, `StakeIsBacked`, `Solvent`). Solvency as stated is not inductive: it
rounds for every account, and every pool's balances change with the base pool's. `SharedProofs` counts
a *debt* in units of 1/`Precision`, from the last update on and before rounding: for each account its balance
times the accumulator's growth since it was settled plus what is settled, plus the rest of the stream. The
debt does not depend on the clock. Refreshing moves debt from the stream to the accounts, settling and
starting a stream round it down, paying lowers it by what is paid, funding raises it by what comes in. A
settled account's share no longer depends on its balance, which is why every pool with a stream must be
called before a balance changes, and `LinksOK` says that it is: every created pool is linked, one that is not
created has no debt. `DebtCoversEarned` then gives the property with all its roundings.

The action properties (`NothingRetroactive`, `EarningsArrive`, `NothingStranded`) follow step by step: settling leaves earnings as they are in every
called pool and the others have none, a claim pays them in full, and starting a stream leaves the accumulator alone and
loses less than one unit per second of the stream.

**Depositor** (`Invariance`, `TypeCorrect`, `Backed`, `OwedForWaiting`, `PaidForLocking`, `LongestLock`, `WrapsLit`).
Backing needs that only the depositor that can mint owes an incentive, so that LIT moved by another one is
only ever a gift. The length of locks needs `CopiesLag`: every copy of the end is a whole number of weeks,
at most the escrow's end, which is at most the end of the longest lock; a copy less than a week behind the
longest lock is therefore equal to it, and so is the escrow's end between them.

**Booster** (`Invariance`, `CustodyKept`, `ClosingIsPaidFor`, `ExitsAreCovered`). `DepositsBacked` needs `GaugesApart`: no two open pools have
one gauge. `gaugeMap` keeps the gauge of an open pool from being added again, and after a shutdown of the system no pool is added.
A new pool has no deposits (`NoneBefore`). That emptying several gauges at once brings enough for all the pools closed by it is a lemma on
sums (`SumOverImage`): pools go to gauges one to one, each with a supply no larger than what its gauge holds. `ExitsCovered` is the
part of `ExitsOpen` that is about numbers: every account's deposit is where `_withdraw` looks for it.

**Harvest** (`EmissionEnds`, `EmissionUndisturbed`, `SharedOut`, `HarvestIsCovered`, `GivenForGood`). The emission so far, supply less what the minter minted, is a
natural number and at most the cap. It is inductive with the types of what a claim reads. That a claim keeps it is the minimum
in `Minted` (`MintedFits`), and that the minter keeps it, and with it the rate, is that both counters grow by the same.
`SharedWasHarvested` is inductive with the types: in each way of `Distribute` the shares and what is left of the amount add up to it,
whichever contract refuses, and the subtraction of idle oLIT leaves what was claimed. `Covered` adds that the four fees stay
within `FEE_DENOMINATOR`, as `setFees` keeps them within `MaxFees`: shares that are rounded down then fit into any amount
(`SharesFit`), so of the subtractions in `_earmarkRewards` only the first can fail, after a claim that failed
(`HarvestCovered`); this is the part of `EarmarkOpen` that is about numbers. And no step lowers what anybody was given
(`NothingTakenBack`).

**Migration** (`Invariance`, `OneOpenPool`, `SwitchesAtOnce`, `NothingLeftBehind`, `MovesLoseNothing`). A file is one step of any
number of calls. What a single call keeps, a file keeps: `AfterInvariant` is an induction over the states between its calls. Such
is `Sound`: one open pool per gauge and booster, and none in the second before it is operated. `Switched` holds between files
only, since the fourth one changes the two operators in two calls. The files lie on disk while the contracts
change under them; they stay true because pools are only added at the end and keep their gauges (`Grown`).
`NoGaugeForgotten` extends `FilesLeaveNoGauge` to files not executed yet: each gauge is in the second booster,
killed, or in a file still to be executed; `addpools:generate`, run again, puts those that are left into new files.

**Gauge votes** (`VotesInvariance`, `VotesCanBeSent`, `SharesGoToLabels`, `NothingUnused`). `VotesAccepted` is about every prefix of
the printed votes. `InSendingOrder`: resets come first, the others by what they change, so once one raises what is in
use all later ones do. What is in use after a prefix is therefore at most what it was before all votes, which the
controller kept within the whole (`PowerOK`), or at most what it is after all of them; that is the sum of the weights, as every gauge
with power has a vote. The weights are the whole power because the rounding goes to the first, and each
goes to one gauge, as no gauge has two choices and no choice two votes (`SumOverImage` in both directions).
The proof corrected the property: `WholePowerUsed` once asked only for some listed choice with a successful label, but it is the
*first* choice with the label that is looked up, and a file rewritten in between may have another one there.

**Only proved.** The type invariants (`TypeCorrect`), `StakeIsBacked` of the pools, `Backed` and `OwedForWaiting` of the
depositor, the inductive invariants, `ExitsCovered`, `ExitsPaid`, `HarvestCovered` and `VotesNeverBlock` (the last two range over all
amounts or functions), `NothingTakenBack`, and `PastVotesAnswered` (no past week makes `getPastVotes` revert) have no
run of their own.

**Only model-checked.** `Deployment` entirely: its scripts are concrete sequences of calls, and with no parameter to generalise
over the run says what a proof would. Out of the prover's reach are liveness (`DeploymentCompletes`,
`MigrationCompletes`), ENABLED (`ExitNeverBlocked`, `EarmarkOpen`, `ExitsOpen`), and induction over data other than by
the least-counterexample argument above.

## 6. Findings

`balanceOf` of the locker is documented (`LiqLocker.sol:720`) to count only properly locked tokens. After a
shutdown an account can leave at once, but its locks stay in `userLocks`, from which `balanceOf` and
`totalSupply` count until their original end. `balance_after_shutdown` shows it; before a shutdown a balance leaves
only with its locks (`NoEarlyExit`, `HistoryAsPromised`). The vote history behaves the same way.

Learnt from the scripts:

- Phase 2 cannot be repeated once `voterProxy.setOperator` was accepted (`VoterProxyTaken`), the full system not once the
  pool manager's role has gone to its proxy (`PoolManagerTaken`); phase 4 stops at a gauge that has a pool, its own first
  attempt's included (`GaugeTaken`); `vesting:deploy` started again funds its groups for a second time until LIQ runs out
  (`FundedTwice`); the phases have no configuration for the network called mainnet, and where localhost or tenderly is taken for a local
  chain (`getChain`) phase 2 records exercisers that do not exist (`NetworkUnsupported`); `setCrvDepositor` of the prelaunch pool cannot be repeated
  once its one transaction was mined, as `safeApprove` refuses a second approval (`DepositorApproved`).
- `voteManager` stays with the deployer; `treasury` is unset after phase 2 and set in phase 6; an arbitrator vault is neither
  deployed nor known to the full system.
- `shutdown:generate` throws for 0, 1, 2 and 4 open pools. Generated again after a part was executed, its files no
  longer have the closed pools, whose gauges `addpools:generate` then leaves out. A pool the public adds after the generation
  makes the fourth file revert until the pool is closed by hand; and `addpools:generate` does not ask for the weight without which `_addPool` reverts.
- `shutdown:generate` lists the pools of the first booster (`tasks/shutdown/index.ts:132`, "Get pools to shutdown") and is described (126) as
  writing the files "to shutdown all the system", but its calls go to the pool manager of the second booster (28;
  `mainnet-config.ts:329`), with the pids of the first. Generated today, the files close nothing of the first booster; executed once the second one has
  pools, they close those. The files that are checked in address the first booster's pool manager (`mainnet-config.ts:269`). The models take
  the address as it is; `MigrationCompletes` excludes such a file by its premise, the other properties hold with it.
- A gauge that was killed keeps its power until somebody resets it: the list the result is computed from has lost it.

## 7. Not modelled, and the plan

Not modelled because there is little to go wrong between calls: the zaps and helpers (sequences of calls in
one transaction that keep nothing), the flash exerciser, the views, mocks, tests, and scripts that only print, upload
sources or serve a fork; `deploy:mainnet:crv` throws before its first transaction, and `snapshot:generate`'s relatives
`compare` and `validate` change nothing. Outside the repository:
Bunni, Balancer, the LIT escrow, gauges and their minter, which appear where a modelled contract calls them.
`setApprovals` renews an external allowance.

In the migration, `forceShutdown` of the Booster is in `Booster` only, and what DAO and deployer might do apart from the
scripts is left out of `Deployment`. An allowance or a permission given to oneself is not among the inputs of `RewardPools`.

Left for later, in this order:

1. `ExtraRewardStashV3` with `StashToken` and the `ArbitratorVault`: limits on tokens, a claim into the wrong pool.
2. `PooledOptionsExerciser`, `LiqMerkleDrop`, `PrelaunchRewardsPool`, `LiqVestedEscrow`; then `ConvexMasterChef`.
3. Proofs: what keeps `to96` from reverting in the locker, from the limits on rates and rewards; that the locker's
   own streams stay below the limits of `LockerTakes`, which `EarmarkOpen` takes as a premise.
