------------------------------ MODULE CrvDepositor ------------------------------
(***************************************************************************)
(* CrvDepositor, the escrow side of VoterProxy and the voting escrow that   *)
(* it locks in.  An account gives LIT (crvBpt) and gets liqLIT (cvxCrv);    *)
(* the LIT is locked at once, or waits in the depositor for somebody to     *)
(* lock it and be minted the incentive that the deposits left for that.     *)
(*                                                                          *)
(* The owner of VoterProxy can put another CrvDepositor in the place of the *)
(* first one, but only the first one can mint: liqLIT's operator was handed *)
(* to it, and it cannot hand it on.  Each keeps a copy of the escrow's end. *)
(*                                                                          *)
(* Whoever is feeManager, daoOperator or owner calls that role's functions; *)
(* passing a role on changes nothing else.  Staking the new liqLIT for an   *)
(* account at once is left to the reward pools.                             *)
(***************************************************************************)
EXTENDS Integers

CONSTANTS
  Depositors,         \* CrvDepositor contracts
  Minting,            \* the one that is liqLIT's operator
  Staker,             \* VoterProxy
  NoDepositor,        \* address(0)
  MAXTIME, WEEK,
  FeeDenominator,     \* 10000
  InitialIncentive,   \* 10
  MaxIncentive,       \* 30
  FeeValues,          \* what a fee manager may try to set
  StartTime,
  MaxTime,            \* bound on the clock
  InitialTokens       \* LIT that the users have

ASSUME PartiesAssumption == Minting \in Depositors /\ Staker \notin Depositors
ASSUME TimeAssumption ==
  /\ MAXTIME \in Nat /\ WEEK \in Nat \ {0} /\ WEEK <= MAXTIME
  /\ StartTime \in Nat /\ MaxTime \in Nat /\ StartTime <= MaxTime
ASSUME FeeAssumption ==
  /\ FeeDenominator \in Nat \ {0} /\ InitialIncentive \in Nat /\ MaxIncentive \in Nat
  /\ InitialIncentive <= MaxIncentive /\ MaxIncentive <= FeeDenominator
  /\ FeeValues \subseteq Nat
ASSUME TokensAssumption == InitialTokens \in Nat

Holders == Depositors \cup {Staker}

VARIABLES
  now,                \* block.timestamp
  wallet,             \* LIT of the users
  held,               \* LIT of the depositors and of the staker
  escrowAmount,       \* LIT that the escrow holds for the staker
  escrowEnd,          \* when it unlocks
  liqLit,             \* total supply of liqLIT
  depositor,          \* depositor of VoterProxy
  lockIncentive,      \* depositor -> its fee
  incentiveCrv,       \* depositor -> what it will mint to who locks
  unlockTime,         \* depositor -> the end that it knows
  cooldown            \* depositor -> whether it is stopped

lockVars == <<escrowAmount, escrowEnd, unlockTime>>
adminVars == <<depositor, lockIncentive, cooldown>>
vars == <<now, wallet, held, lockVars, liqLit, incentiveCrv, adminVars>>

----------------------------------------------------------------------------------
(* The voting escrow *)

UnlockInWeeks(t) == ((t + MAXTIME) \div WEEK) * WEEK

\* balanceOf: voting power fades to nothing as the lock runs out.
HasVotingPower == escrowAmount > 0 /\ now < escrowEnd

\* increase_unlock_time to the end of the longest lock, rounded down to a week.
EscrowExtends(end) == end > escrowEnd /\ escrowEnd' = end

----------------------------------------------------------------------------------
(* Locking *)

\* Slip: the lock is left alone when it could run for one week more.
ExtendAfterTwoWeeks(d) ==
  LET end == UnlockInWeeks(now) IN
  /\ end >= unlockTime[d]
  /\ \/ end - unlockTime[d] <= WEEK /\ UNCHANGED <<escrowEnd, unlockTime>>
     \/ /\ end - unlockTime[d] > WEEK
        /\ EscrowExtends(end)
        /\ unlockTime' = [unlockTime EXCEPT ![d] = end]

\* The end of _lockCurve.
ExtendLock(d) ==
  LET end == UnlockInWeeks(now) IN
  /\ end >= unlockTime[d]
  /\ \/ end - unlockTime[d] < WEEK /\ UNCHANGED <<escrowEnd, unlockTime>>
     \/ /\ end - unlockTime[d] >= WEEK
        /\ EscrowExtends(end)
        /\ unlockTime' = [unlockTime EXCEPT ![d] = end]

\* _lockCurve, when `sent` has come to the staker.
LockTokens(d, sent) ==
  LET amount == held[d] + held[Staker] + sent IN
  IF cooldown[d] \/ amount = 0
  THEN /\ held' = [held EXCEPT ![Staker] = @ + sent]
       /\ UNCHANGED lockVars
  ELSE /\ depositor = d
       /\ HasVotingPower
       /\ held' = [held EXCEPT ![d] = 0, ![Staker] = 0]
       /\ escrowAmount' = escrowAmount + amount
       /\ ExtendLock(d)

\* Slip: a depositor that is stopped still pays for a lock that does not happen.
LockCurveAnyTime(d) ==
  /\ LockTokens(d, 0)
  /\ incentiveCrv[d] > 0 => d = Minting
  /\ liqLit' = liqLit + incentiveCrv[d]
  /\ incentiveCrv' = [incentiveCrv EXCEPT ![d] = 0]
  /\ UNCHANGED <<now, wallet, adminVars>>

LockCurve(d) ==
  /\ ~cooldown[d]
  /\ LockTokens(d, 0)
  /\ incentiveCrv[d] > 0 => d = Minting
  /\ liqLit' = liqLit + incentiveCrv[d]
  /\ incentiveCrv' = [incentiveCrv EXCEPT ![d] = 0]
  /\ UNCHANGED <<now, wallet, adminVars>>

\* The first lock, or a new one after the last has run out; while there is a lock
\* the call does nothing.
InitialLock(d) ==
  LET amount == held[Staker] + escrowAmount IN
  /\ ~cooldown[d]
  /\ ~HasVotingPower
  /\ depositor = d
  /\ now >= escrowEnd
  /\ amount > 0
  /\ held' = [held EXCEPT ![Staker] = 0]
  /\ escrowAmount' = amount
  /\ escrowEnd' = UnlockInWeeks(now)
  /\ unlockTime' = [unlockTime EXCEPT ![d] = UnlockInWeeks(now)]
  /\ UNCHANGED <<now, wallet, liqLit, incentiveCrv, adminVars>>

----------------------------------------------------------------------------------
(* Depositing *)

CallIncentive(d, amount) == (amount * lockIncentive[d]) \div FeeDenominator

\* deposit, depositAll and depositFor, locking at once.
DepositAndLock(d, amount) ==
  /\ amount \in 1..wallet
  /\ ~cooldown[d]
  /\ d = Minting
  /\ LockTokens(d, amount)
  /\ wallet' = wallet - amount
  /\ liqLit' = liqLit + amount + incentiveCrv[d]
  /\ incentiveCrv' = [incentiveCrv EXCEPT ![d] = 0]
  /\ UNCHANGED <<now, adminVars>>

\* Slip: the incentive is not taken off what the account is minted.
DepositForFree(d, amount) ==
  /\ amount \in 1..wallet
  /\ ~cooldown[d]
  /\ d = Minting
  /\ held' = [held EXCEPT ![d] = @ + amount]
  /\ wallet' = wallet - amount
  /\ liqLit' = liqLit + amount
  /\ incentiveCrv' = [incentiveCrv EXCEPT ![d] = @ + CallIncentive(d, amount)]
  /\ UNCHANGED <<now, lockVars, adminVars>>

\* The same, leaving the lock to somebody else.
Deposit(d, amount) ==
  /\ amount \in 1..wallet
  /\ ~cooldown[d]
  /\ d = Minting
  /\ held' = [held EXCEPT ![d] = @ + amount]
  /\ wallet' = wallet - amount
  /\ liqLit' = liqLit + amount - CallIncentive(d, amount)
  /\ incentiveCrv' = [incentiveCrv EXCEPT ![d] = @ + CallIncentive(d, amount)]
  /\ UNCHANGED <<now, lockVars, adminVars>>

\* LIT is sent to a contract directly, as the deployment does before the first lock.
SendTokens(to, amount) ==
  /\ amount \in 1..wallet
  /\ held' = [held EXCEPT ![to] = @ + amount]
  /\ wallet' = wallet - amount
  /\ UNCHANGED <<now, lockVars, liqLit, incentiveCrv, adminVars>>

----------------------------------------------------------------------------------
(* The roles *)

\* A fee that is too high is ignored.
SetFees(d, fee) ==
  /\ fee <= MaxIncentive
  /\ lockIncentive' = [lockIncentive EXCEPT ![d] = fee]
  /\ UNCHANGED <<now, wallet, held, lockVars, liqLit, incentiveCrv, depositor, cooldown>>

SetCooldown(d, stop) ==
  /\ cooldown' = [cooldown EXCEPT ![d] = stop]
  /\ UNCHANGED <<now, wallet, held, lockVars, liqLit, incentiveCrv, depositor, lockIncentive>>

SetDepositor(d) ==
  /\ depositor' = d
  /\ UNCHANGED <<now, wallet, held, lockVars, liqLit, incentiveCrv, lockIncentive, cooldown>>

----------------------------------------------------------------------------------

Init ==
  /\ now = StartTime
  /\ wallet = InitialTokens
  /\ held = [h \in Holders |-> 0]
  /\ escrowAmount = 0 /\ escrowEnd = 0
  /\ liqLit = 0
  /\ depositor = NoDepositor
  /\ lockIncentive = [d \in Depositors |-> InitialIncentive]
  /\ incentiveCrv = [d \in Depositors |-> 0]
  /\ unlockTime = [d \in Depositors |-> 0]
  /\ cooldown = [d \in Depositors |-> FALSE]

Tick ==
  /\ now < MaxTime
  /\ now' = now + 1
  /\ UNCHANGED <<wallet, held, lockVars, liqLit, incentiveCrv, adminVars>>

Next ==
  \/ Tick
  \/ \E d \in Depositors :
       \/ LockCurve(d)
       \/ InitialLock(d)
       \/ \E amount \in 1..wallet : DepositAndLock(d, amount) \/ Deposit(d, amount)
       \/ \E fee \in FeeValues : SetFees(d, fee)
       \/ \E stop \in BOOLEAN : SetCooldown(d, stop)
       \/ SetDepositor(d)
  \/ \E to \in Holders, amount \in 1..wallet : SendTokens(to, amount)

Spec == Init /\ [][Next]_vars

----------------------------------------------------------------------------------
(* Properties *)

TypeOK ==
  /\ now \in StartTime..MaxTime
  /\ wallet \in Nat
  /\ held \in [Holders -> Nat]
  /\ escrowAmount \in Nat
  /\ escrowEnd \in Nat
  /\ liqLit \in Nat
  /\ depositor \in Depositors \cup {NoDepositor}
  /\ lockIncentive \in [Depositors -> 0..MaxIncentive]
  /\ incentiveCrv \in [Depositors -> Nat]
  /\ unlockTime \in [Depositors -> Nat]
  /\ cooldown \in [Depositors -> BOOLEAN]

\* What has come in: a depositor that is not minting only ever holds gifts.
Backing == InitialTokens - wallet

Wrapped == INSTANCE WrappedToken
             WITH backing <- Backing, supply <- liqLit, owed <- incentiveCrv[Minting]

\* liqLIT is a wrapped token: deposits, locks, gifts and changes of the depositor
\* never mint more than has come in, and an incentive only once.
WrapsOneToOne == Wrapped!Spec

\* All the LIT that came in is in one of the contracts or in the escrow, of which
\* liqLIT and the incentive still owed never exceed what the minting depositor, the
\* staker and the escrow hold: releasing and making a lock anew loses nothing.
LiqLitBacked ==
  liqLit + incentiveCrv[Minting] <= held[Minting] + held[Staker] + escrowAmount

\* The incentive is at most the highest share of the LIT that waits to be locked:
\* nobody is ever paid for locking what others have locked already.
IncentiveFromWaiting ==
  \A d \in Depositors : FeeDenominator * incentiveCrv[d] <= MaxIncentive * held[d]

\* An incentive is paid only in a step that locks all that waited, and in full.
IncentivePaidForLocking ==
  [][\A d \in Depositors :
       incentiveCrv'[d] < incentiveCrv[d] =>
         /\ incentiveCrv'[d] = 0 /\ held'[d] = 0
         /\ escrowAmount' >= escrowAmount + held[d]
         /\ liqLit' = liqLit + incentiveCrv[d] + (wallet - wallet')]_vars

\* LIT enters the escrow only with the longest lock there is, whichever depositor
\* locked last, although a depositor goes by its own copy of the end.
LockedForLongest ==
  [][escrowAmount' > escrowAmount => escrowEnd' = UnlockInWeeks(now)]_vars

=================================================================================
