------------------------------- MODULE EpochShares -------------------------------
(***************************************************************************)
(* What LiqLocker promises to those who read its history: a lock gives its  *)
(* account the locked amount as a share of each of the LockEpochs - 1 weeks *)
(* that follow the week of the lock, and nothing else ever changes a share; *)
(* relocks, withdrawals, kicks and shutdowns do not, and the share of a     *)
(* week is settled before the week begins.                                  *)
(*                                                                          *)
(* LiqLockerViews implements this specification; ExtraRewardsDistributor    *)
(* is written against it.                                                   *)
(***************************************************************************)
EXTENDS Integers, Sums

CONSTANTS
  NumAccounts,     \* accounts 1..NumAccounts
  LockEpochs,      \* weeks of a lock
  MaxEpoch,        \* bound on the weeks
  MaxLock          \* bound on the amount of one lock

Accounts == 1..NumAccounts
Epochs == 0..MaxEpoch

VARIABLES
  epoch,           \* findEpochId(block.timestamp)
  begun,           \* the epoch began before this block, so its balances can be read
  latest,          \* the newest epoch that is checkpointed: epochCount() - 1
  shares           \* epoch -> account -> balanceAtEpochOf

shareVars == <<epoch, begun, latest, shares>>

Supply(e) == SumTo(shares[e], NumAccounts)

\* balanceAtEpochOf and totalSupplyAtEpoch revert for the other epochs.
Readable(e) == e < epoch \/ (e = epoch /\ begun)

NextEpoch ==
  /\ epoch < MaxEpoch
  /\ epoch' = epoch + 1
  /\ begun' = FALSE
  /\ UNCHANGED <<latest, shares>>

Begin ==
  /\ ~begun
  /\ begun' = TRUE
  /\ UNCHANGED <<epoch, latest, shares>>

Checkpoint ==
  /\ latest' = epoch
  /\ UNCHANGED <<epoch, begun, shares>>

LockShare(u, amount) ==
  /\ latest' = epoch
  /\ shares' = [e \in Epochs |->
                  IF e \in (epoch + 1)..(epoch + LockEpochs - 1)
                  THEN [shares[e] EXCEPT ![u] = @ + amount] ELSE shares[e]]
  /\ UNCHANGED <<epoch, begun>>

ShareInit ==
  /\ epoch = 0
  /\ begun \in BOOLEAN
  /\ latest = 0
  /\ shares = [e \in Epochs |-> [u \in Accounts |-> 0]]

ShareNext ==
  \/ NextEpoch
  \/ Begin
  \/ Checkpoint
  \/ \E u \in Accounts, amount \in 1..MaxLock : LockShare(u, amount)

ShareSpec == ShareInit /\ [][ShareNext]_shareVars
=================================================================================
