---------------------------- MODULE VoterProxyProofs ----------------------------
(***************************************************************************)
(* What the VoterProxy holds for liqLIT, and what it votes with it.         *)
(*                                                                          *)
(* liqLIT wraps the LIT that came in, stays backed by what can be locked,   *)
(* pays incentives only for locking and locks for as long as it can, for    *)
(* any depositors, fees, durations and amounts.  The lock is extended to    *)
(* the end of this week's longest one although a depositor only knows its   *)
(* own copy of the end, because copies lag behind the escrow, the escrow    *)
(* behind that longest lock, and all are whole weeks but perhaps the        *)
(* escrow's: a copy less than a week behind is up to date.                  *)
(*                                                                          *)
(* The votes that a period's result prints use the whole power, follow the  *)
(* labels and are all accepted, for any gauges, names, scores and former    *)
(* votes.  Resets are printed first, then the others by what they change:   *)
(* up to the last vote that lowers the power in use nothing exceeds what    *)
(* was in use before, and from then on it only rises to what the weights    *)
(* add up to, which is what makes InSendingOrder the invariant.             *)
(***************************************************************************)
EXTENDS CrvDepositor, GaugeVotes, SharedProofs

\* Only the minting depositor ever owes an incentive.
OwedByMinting == \A d \in Depositors : d # Minting => incentiveCrv[d] = 0

WholeWeeks(t) == \E k \in 0..t : t = k * WEEK

\* A depositor's copy of the end lags behind the escrow, and the escrow behind the longest lock.
CopiesLag ==
  /\ \A d \in Depositors : WholeWeeks(unlockTime[d]) /\ unlockTime[d] <= escrowEnd
  /\ escrowEnd <= UnlockInWeeks(now)

IInv == TypeOK /\ LiqLitBacked /\ IncentiveFromWaiting /\ OwedByMinting /\ CopiesLag

----------------------------------------------------------------------------------
(* Arithmetic *)

\* Multiples of n that are less than n apart are the same.
LEMMA CloseMultiples ==
  ASSUME NEW n \in Nat, n > 0, NEW j \in Nat, NEW k \in Nat, j * n <= k * n, k * n - j * n < n
  PROVE  j = k
<1>1. CASE j + 1 <= k
  <2>1. n * (j + 1) <= n * k
    BY <1>1, MulMonotone
  <2>2. n * (j + 1) = j * n + n /\ n * k = k * n /\ j * n \in Int /\ k * n \in Int
    OBVIOUS
  <2> QED BY <2>1, <2>2
<1>2. CASE k + 1 <= j
  <2>1. n * (k + 1) <= n * j
    BY <1>2, MulMonotone
  <2>2. n * (k + 1) = k * n + n /\ n * j = j * n /\ j * n \in Int /\ k * n \in Int
    OBVIOUS
  <2> QED BY <2>1, <2>2
<1> QED BY <1>1, <1>2

\* unlockInWeeks rounds to a whole number of weeks,
LEMMA UnlockIsWholeWeeks ==
  ASSUME NEW t \in Nat
  PROVE  UnlockInWeeks(t) \in Nat /\ WholeWeeks(UnlockInWeeks(t))
<1> DEFINE k == (t + MAXTIME) \div WEEK
<1>1. k \in Nat /\ WEEK \in Nat /\ WEEK > 0
  BY TimeAssumption, DivRoundsDown
<1>2. UnlockInWeeks(t) = k * WEEK
  BY DEF UnlockInWeeks
<1> HIDE DEF k
<1>3. k * WEEK \in Nat /\ k <= k * WEEK
  BY <1>1
<1> QED BY <1>1, <1>2, <1>3 DEF WholeWeeks

\* and never gets earlier.
LEMMA UnlockMonotone ==
  ASSUME NEW t \in Nat
  PROVE  UnlockInWeeks(t) <= UnlockInWeeks(t + 1)
<1> DEFINE j == (t + MAXTIME) \div WEEK
           k == (t + 1 + MAXTIME) \div WEEK
<1>1. t + MAXTIME \in Nat /\ t + 1 + MAXTIME \in Nat /\ t + MAXTIME <= t + 1 + MAXTIME
      /\ WEEK \in Nat /\ WEEK > 0
  BY TimeAssumption
<1>2. j \in Nat /\ k \in Nat /\ j <= k
  BY <1>1, DivRoundsDown, DivMonotone
<1>3. UnlockInWeeks(t) = j * WEEK /\ UnlockInWeeks(t + 1) = k * WEEK
  BY DEF UnlockInWeeks
<1> HIDE DEF j, k
<1>4. WEEK * j <= WEEK * k
  BY <1>1, <1>2, MulMonotone
<1> QED BY <1>1, <1>2, <1>3, <1>4

\* What a deposit leaves as an incentive is at most the highest share of it.
LEMMA IncentiveBounded ==
  ASSUME TypeOK, NEW d \in Depositors, NEW amount \in Nat
  PROVE  /\ CallIncentive(d, amount) \in Nat /\ CallIncentive(d, amount) <= amount
         /\ FeeDenominator * CallIncentive(d, amount) <= MaxIncentive * amount
<1> DEFINE f == lockIncentive[d]
           c == (amount * f) \div FeeDenominator
<1>1. /\ f \in Nat /\ f <= MaxIncentive /\ MaxIncentive \in Nat
      /\ MaxIncentive <= FeeDenominator /\ FeeDenominator \in Nat /\ FeeDenominator > 0
  BY FeeAssumption DEF TypeOK
<1>2. CallIncentive(d, amount) = c
  BY DEF CallIncentive
<1>3. amount * f \in Nat /\ amount * f <= amount * MaxIncentive
      /\ amount * MaxIncentive <= amount * FeeDenominator
  <2> HIDE DEF f
  <2> QED BY <1>1, MulNat, MulMonotone
<1>4. c \in Nat /\ FeeDenominator * c <= amount * f
  <2> HIDE DEF f
  <2> QED BY <1>1, <1>3, DivRoundsDown
<1> HIDE DEF f, c
<1>5. FeeDenominator * c <= MaxIncentive * amount
  BY <1>1, <1>3, <1>4
<1>6. c <= amount
  <2> SUFFICES ASSUME amount + 1 <= c PROVE FALSE
    BY <1>4
  <2>1. FeeDenominator * (amount + 1) <= FeeDenominator * c
    BY <1>1, <1>4, MulMonotone
  <2>2. FeeDenominator * (amount + 1) = amount * FeeDenominator + FeeDenominator
        /\ amount * FeeDenominator \in Int /\ FeeDenominator * c \in Int
        /\ amount * f \in Int /\ amount * MaxIncentive \in Int
    BY <1>1, <1>4
  <2> QED BY <1>1, <1>3, <1>4, <2>1, <2>2
<1> QED BY <1>2, <1>4, <1>5, <1>6

----------------------------------------------------------------------------------
(* Locking *)

\* Extending the lock keeps the copies behind it, and leaves it the longest there is.
LEMMA ExtendLockFacts ==
  ASSUME IInv, NEW d \in Depositors, ExtendLock(d)
  PROVE  /\ escrowEnd' = UnlockInWeeks(now) /\ escrowEnd' \in Nat
         /\ unlockTime' \in [Depositors -> Nat]
         /\ \A e \in Depositors : WholeWeeks(unlockTime'[e]) /\ unlockTime'[e] <= escrowEnd'
<1> DEFINE end == UnlockInWeeks(now)
<1>1. now \in Nat /\ escrowEnd \in Nat /\ unlockTime \in [Depositors -> Nat] /\ WEEK \in Nat /\ WEEK > 0
  BY TimeAssumption DEF IInv, TypeOK
<1>2. end \in Nat /\ WholeWeeks(end)
  BY <1>1, UnlockIsWholeWeeks
<1>3. /\ \A e \in Depositors : WholeWeeks(unlockTime[e]) /\ unlockTime[e] <= escrowEnd
      /\ escrowEnd <= end
  BY DEF IInv, CopiesLag
<1>4. end >= unlockTime[d]
  BY DEF ExtendLock
<1>5. CASE end - unlockTime[d] < WEEK /\ UNCHANGED <<escrowEnd, unlockTime>>
  <2>1. PICK j \in 0..unlockTime[d] : unlockTime[d] = j * WEEK
    BY <1>3 DEF WholeWeeks
  <2>2. PICK k \in 0..end : end = k * WEEK
    BY <1>2 DEF WholeWeeks
  <2>3. j \in Nat /\ k \in Nat
    BY <1>1, <1>2
  <2> HIDE DEF end
  <2>4. j = k
    BY <1>1, <1>4, <1>5, <2>1, <2>2, <2>3, CloseMultiples
  <2>5. escrowEnd = end
    BY <1>1, <1>2, <1>3, <2>1, <2>2, <2>4
  <2> QED BY <1>1, <1>3, <1>5, <2>5 DEF end
<1>6. CASE /\ end - unlockTime[d] >= WEEK /\ EscrowExtends(end)
           /\ unlockTime' = [unlockTime EXCEPT ![d] = end]
  <2> HIDE DEF end
  <2>1. escrowEnd' = end /\ end > escrowEnd
    BY <1>6 DEF EscrowExtends
  <2>2. unlockTime' \in [Depositors -> Nat]
    BY <1>1, <1>2, <1>6
  <2>3. ASSUME NEW e \in Depositors
        PROVE  WholeWeeks(unlockTime'[e]) /\ unlockTime'[e] <= escrowEnd'
    <3>1. CASE e = d
      BY <1>1, <1>2, <1>6, <2>1, <3>1
    <3>2. CASE e # d
      BY <1>1, <1>2, <1>3, <1>6, <2>1, <3>2
    <3> QED BY <3>1, <3>2
  <2> QED BY <1>2, <2>1, <2>2, <2>3 DEF end
<1> QED BY <1>5, <1>6 DEF ExtendLock

\* _lockCurve of a depositor that is not stopped: all that waits goes to the escrow.
LEMMA LockTokensFacts ==
  ASSUME IInv, NEW d \in Depositors, NEW sent \in Nat, ~cooldown[d], LockTokens(d, sent)
  PROVE  /\ held' \in [Holders -> Nat] /\ escrowAmount' \in Nat
         /\ held'[d] = 0
         /\ \A e \in Depositors : e # d => held'[e] = held[e]
         /\ held'[Staker] + escrowAmount' = held[Staker] + escrowAmount + held[d] + sent
         /\ escrowAmount' >= escrowAmount + held[d]
         /\ escrowEnd' \in Nat /\ unlockTime' \in [Depositors -> Nat]
         /\ \A e \in Depositors : WholeWeeks(unlockTime'[e]) /\ unlockTime'[e] <= escrowEnd'
         /\ escrowEnd' <= UnlockInWeeks(now)
         /\ escrowAmount' > escrowAmount => escrowEnd' = UnlockInWeeks(now)
<1> DEFINE amount == held[d] + held[Staker] + sent
<1>1. /\ held \in [Holders -> Nat] /\ escrowAmount \in Nat /\ escrowEnd \in Nat
      /\ unlockTime \in [Depositors -> Nat] /\ now \in Nat
      /\ d \in Holders /\ Staker \in Holders /\ Staker # d /\ Depositors \subseteq Holders
      /\ Staker \notin Depositors
  BY PartiesAssumption, TimeAssumption DEF IInv, TypeOK, Holders
<1>2. UnlockInWeeks(now) \in Nat
  BY <1>1, UnlockIsWholeWeeks
<1>3. CASE amount = 0
  <2>1. held[d] = 0 /\ held[Staker] = 0 /\ sent = 0
    BY <1>1, <1>3
  <2>2. held' = [held EXCEPT ![Staker] = @ + sent] /\ UNCHANGED lockVars
    BY <1>3 DEF LockTokens
  <2>3. held' = held
    BY <1>1, <2>1, <2>2
  <2>4. escrowAmount' = escrowAmount /\ escrowEnd' = escrowEnd /\ unlockTime' = unlockTime
    BY <2>2 DEF lockVars
  <2>5. CopiesLag
    BY DEF IInv
  <2> QED BY <1>1, <2>1, <2>3, <2>4, <2>5 DEF CopiesLag
<1>4. CASE amount # 0
  <2>1. /\ held' = [held EXCEPT ![d] = 0, ![Staker] = 0]
        /\ escrowAmount' = escrowAmount + amount
        /\ ExtendLock(d)
    BY <1>4 DEF LockTokens
  <2>2. /\ held' \in [Holders -> Nat] /\ held'[d] = 0 /\ held'[Staker] = 0
        /\ \A e \in Depositors : e # d => held'[e] = held[e]
    BY <1>1, <2>1
  <2>3. /\ escrowAmount' \in Nat /\ escrowAmount' >= escrowAmount + held[d]
        /\ held'[Staker] + escrowAmount' = held[Staker] + escrowAmount + held[d] + sent
    BY <1>1, <2>1, <2>2
  <2>4. /\ escrowEnd' = UnlockInWeeks(now) /\ unlockTime' \in [Depositors -> Nat]
        /\ \A e \in Depositors : WholeWeeks(unlockTime'[e]) /\ unlockTime'[e] <= escrowEnd'
    BY <2>1, ExtendLockFacts
  <2> QED BY <1>2, <2>2, <2>3, <2>4
<1> QED BY <1>3, <1>4

----------------------------------------------------------------------------------
(* The steps *)

\* Nothing is deposited, locked or owed at first.
LEMMA InitIInv == Init => IInv
<1> SUFFICES ASSUME Init PROVE IInv
  OBVIOUS
<1>1. /\ Minting \in Depositors /\ Minting \in Holders /\ Staker \in Holders
      /\ InitialIncentive \in 0..MaxIncentive /\ FeeDenominator \in Nat /\ MaxIncentive \in Nat
      /\ StartTime \in StartTime..MaxTime /\ InitialTokens \in Nat /\ StartTime \in Nat
      /\ \A d \in Depositors : d \in Holders
  BY PartiesAssumption, TimeAssumption, FeeAssumption, TokensAssumption DEF Holders
<1>2. TypeOK
  BY <1>1 DEF Init, TypeOK
<1>3. LiqLitBacked /\ OwedByMinting
  BY <1>1 DEF Init, LiqLitBacked, OwedByMinting
<1>4. IncentiveFromWaiting
  <2>1. FeeDenominator * 0 = 0 /\ MaxIncentive * 0 = 0
    BY <1>1
  <2>2. \A d \in Depositors : incentiveCrv[d] = 0 /\ held[d] = 0
    BY <1>1 DEF Init
  <2>3. ASSUME NEW d \in Depositors
        PROVE  FeeDenominator * incentiveCrv[d] <= MaxIncentive * held[d]
    BY <2>1, <2>2
  <2> QED BY <2>3 DEF IncentiveFromWaiting
<1>5. WholeWeeks(0)
  <2>1. 0 \in 0..0 /\ 0 = 0 * WEEK
    BY TimeAssumption
  <2> QED BY <2>1 DEF WholeWeeks
<1>6. CopiesLag
  <2>1. UnlockInWeeks(now) \in Nat
    BY <1>1, UnlockIsWholeWeeks DEF Init
  <2> QED BY <1>5, <2>1 DEF Init, CopiesLag
<1> QED BY <1>2, <1>3, <1>4, <1>6 DEF IInv

\* An incentive that is paid when all that waited at d has been locked.
LEMMA PaidKeeps ==
  ASSUME IInv, NEW d \in Depositors, NEW sent \in Nat, ~cooldown[d], LockTokens(d, sent),
         incentiveCrv[d] > 0 \/ sent > 0 => d = Minting,
         now' = now, wallet' \in Nat, adminVars' = adminVars,
         liqLit' = liqLit + sent + incentiveCrv[d],
         incentiveCrv' = [incentiveCrv EXCEPT ![d] = 0]
  PROVE  IInv'
<1>1. /\ held \in [Holders -> Nat] /\ incentiveCrv \in [Depositors -> Nat]
      /\ liqLit \in Nat /\ escrowAmount \in Nat
      /\ Minting \in Depositors /\ Minting # Staker
      /\ Staker \in Holders /\ \A e \in Depositors : e \in Holders
      /\ FeeDenominator \in Nat /\ MaxIncentive \in Nat
  BY PartiesAssumption, FeeAssumption DEF IInv, TypeOK, Holders
<1>2. /\ held' \in [Holders -> Nat] /\ escrowAmount' \in Nat
      /\ held'[d] = 0
      /\ \A e \in Depositors : e # d => held'[e] = held[e]
      /\ held'[Staker] + escrowAmount' = held[Staker] + escrowAmount + held[d] + sent
      /\ escrowEnd' \in Nat /\ unlockTime' \in [Depositors -> Nat]
      /\ \A e \in Depositors : WholeWeeks(unlockTime'[e]) /\ unlockTime'[e] <= escrowEnd'
      /\ escrowEnd' <= UnlockInWeeks(now)
  BY LockTokensFacts
<1>3. /\ incentiveCrv' \in [Depositors -> Nat] /\ incentiveCrv'[d] = 0
      /\ \A e \in Depositors : e # d => incentiveCrv'[e] = incentiveCrv[e]
  BY <1>1
<1>4. TypeOK'
  BY <1>1, <1>2, <1>3 DEF IInv, TypeOK, adminVars
<1>5. LiqLitBacked'
  <2>1. liqLit + incentiveCrv[Minting] <= held[Minting] + held[Staker] + escrowAmount
    BY DEF IInv, LiqLitBacked
  <2>2. CASE d = Minting
    BY <1>1, <1>2, <1>3, <2>1, <2>2 DEF LiqLitBacked
  <2>3. CASE d # Minting
    <3>1. incentiveCrv[d] = 0 /\ sent = 0
      BY <1>1, <2>3
    <3> QED BY <1>1, <1>2, <1>3, <2>1, <2>3, <3>1 DEF LiqLitBacked
  <2> QED BY <2>2, <2>3
<1>6. IncentiveFromWaiting'
  <2> SUFFICES ASSUME NEW e \in Depositors
               PROVE  FeeDenominator * incentiveCrv'[e] <= MaxIncentive * held'[e]
    BY DEF IncentiveFromWaiting
  <2>1. CASE e = d
    BY <1>1, <1>2, <1>3, <2>1
  <2>2. CASE e # d
    BY <1>2, <1>3, <2>2 DEF IInv, IncentiveFromWaiting
  <2> QED BY <2>1, <2>2
<1>7. OwedByMinting'
  BY <1>3 DEF IInv, OwedByMinting
<1>8. CopiesLag'
  BY <1>2 DEF CopiesLag, WholeWeeks, UnlockInWeeks
<1> QED BY <1>4, <1>5, <1>6, <1>7, <1>8 DEF IInv

\* The first lock, or the one after the escrow ran out and was released.
LEMMA InitialLockKeeps ==
  ASSUME IInv, NEW d \in Depositors, InitialLock(d)
  PROVE  IInv'
<1> DEFINE end == UnlockInWeeks(now)
<1>1. /\ held \in [Holders -> Nat] /\ escrowAmount \in Nat /\ escrowEnd \in Nat
      /\ unlockTime \in [Depositors -> Nat] /\ now \in Nat /\ liqLit \in Nat
      /\ incentiveCrv \in [Depositors -> Nat]
      /\ Minting \in Depositors /\ Minting # Staker
      /\ Staker \in Holders /\ \A e \in Depositors : e \in Holders /\ e # Staker
  BY PartiesAssumption, TimeAssumption DEF IInv, TypeOK, Holders
<1>2. end \in Nat /\ WholeWeeks(end)
  BY <1>1, UnlockIsWholeWeeks
<1>3. /\ held' = [held EXCEPT ![Staker] = 0]
      /\ escrowAmount' = held[Staker] + escrowAmount
      /\ escrowEnd' = end
      /\ unlockTime' = [unlockTime EXCEPT ![d] = end]
      /\ now' = now /\ wallet' = wallet /\ liqLit' = liqLit /\ incentiveCrv' = incentiveCrv
      /\ adminVars' = adminVars
  BY DEF InitialLock
<1> HIDE DEF end
<1>4. /\ held' \in [Holders -> Nat] /\ held'[Staker] = 0
      /\ \A e \in Depositors : held'[e] = held[e]
  BY <1>1, <1>3
<1>5. TypeOK'
  BY <1>1, <1>2, <1>3, <1>4 DEF IInv, TypeOK, adminVars
<1>6. LiqLitBacked'
  BY <1>1, <1>3, <1>4 DEF IInv, LiqLitBacked
<1>7. IncentiveFromWaiting' /\ OwedByMinting'
  BY <1>3, <1>4 DEF IInv, IncentiveFromWaiting, OwedByMinting
<1>8. CopiesLag'
  <2>1. \A e \in Depositors : WholeWeeks(unlockTime'[e]) /\ unlockTime'[e] <= escrowEnd'
    <3> SUFFICES ASSUME NEW e \in Depositors
                 PROVE  WholeWeeks(unlockTime'[e]) /\ unlockTime'[e] <= escrowEnd'
      OBVIOUS
    <3>1. WholeWeeks(unlockTime[e]) /\ unlockTime[e] <= escrowEnd /\ escrowEnd <= end
      BY DEF IInv, CopiesLag, end
    <3>2. CASE e = d
      BY <1>1, <1>2, <1>3, <3>2
    <3>3. CASE e # d
      BY <1>1, <1>2, <1>3, <3>1, <3>3
    <3> QED BY <3>2, <3>3
  <2>2. escrowEnd' <= end
    BY <1>2, <1>3
  <2> QED BY <1>3, <2>1, <2>2 DEF CopiesLag, WholeWeeks, UnlockInWeeks, end
<1> QED BY <1>5, <1>6, <1>7, <1>8 DEF IInv

\* LIT that comes to a contract, of which some may be minted and some owed for it.
LEMMA ComesInKeeps ==
  ASSUME IInv, NEW to \in Holders, NEW amount \in Nat, NEW minted \in Nat, NEW left \in Nat,
         held' = [held EXCEPT ![to] = @ + amount],
         liqLit' = liqLit + minted,
         incentiveCrv' = [incentiveCrv EXCEPT ![Minting] = @ + left],
         minted + left > 0 => to = Minting,
         minted + left <= amount, FeeDenominator * left <= MaxIncentive * amount,
         now' = now, wallet' \in Nat, lockVars' = lockVars, adminVars' = adminVars
  PROVE  IInv'
<1>1. /\ held \in [Holders -> Nat] /\ incentiveCrv \in [Depositors -> Nat]
      /\ liqLit \in Nat /\ escrowAmount \in Nat
      /\ Minting \in Depositors /\ Minting # Staker
      /\ Staker \in Holders /\ \A e \in Depositors : e \in Holders
      /\ FeeDenominator \in Nat /\ MaxIncentive \in Nat
  BY PartiesAssumption, FeeAssumption DEF IInv, TypeOK, Holders
<1>2. /\ held' \in [Holders -> Nat] /\ held'[to] = held[to] + amount
      /\ \A h \in Holders : h # to => held'[h] = held[h]
      /\ \A h \in Holders : held'[h] >= held[h]
  BY <1>1
<1>3. /\ incentiveCrv' \in [Depositors -> Nat]
      /\ incentiveCrv'[Minting] = incentiveCrv[Minting] + left
      /\ \A e \in Depositors : e # Minting => incentiveCrv'[e] = incentiveCrv[e]
  BY <1>1
<1>4. escrowAmount' = escrowAmount /\ escrowEnd' = escrowEnd /\ unlockTime' = unlockTime
  BY DEF lockVars
<1>5. TypeOK'
  BY <1>1, <1>2, <1>3, <1>4 DEF IInv, TypeOK, adminVars
<1>6. LiqLitBacked'
  <2>1. liqLit + incentiveCrv[Minting] <= held[Minting] + held[Staker] + escrowAmount
    BY DEF IInv, LiqLitBacked
  <2>2. CASE to = Minting
    BY <1>1, <1>2, <1>3, <1>4, <2>1, <2>2 DEF LiqLitBacked
  <2>3. CASE to # Minting
    <3>1. minted = 0 /\ left = 0
      BY <2>3
    <3> QED BY <1>1, <1>2, <1>3, <1>4, <2>1, <3>1 DEF LiqLitBacked
  <2> QED BY <2>2, <2>3
<1>7. IncentiveFromWaiting'
  <2> SUFFICES ASSUME NEW e \in Depositors
               PROVE  FeeDenominator * incentiveCrv'[e] <= MaxIncentive * held'[e]
    BY DEF IncentiveFromWaiting
  <2>1. FeeDenominator * incentiveCrv[e] <= MaxIncentive * held[e]
    BY DEF IInv, IncentiveFromWaiting
  <2>2. held[e] \in Nat /\ held'[e] \in Nat /\ incentiveCrv[e] \in Nat
    BY <1>1, <1>2
  <2>3. CASE e = Minting /\ to = Minting
    <3>1. FeeDenominator * (incentiveCrv[e] + left) = FeeDenominator * incentiveCrv[e] + FeeDenominator * left
          /\ MaxIncentive * (held[e] + amount) = MaxIncentive * held[e] + MaxIncentive * amount
      BY <1>1, <2>2
    <3>2. /\ FeeDenominator * incentiveCrv[e] \in Int /\ FeeDenominator * left \in Int
          /\ MaxIncentive * held[e] \in Int /\ MaxIncentive * amount \in Int
      BY <1>1, <2>2
    <3>3. incentiveCrv'[e] = incentiveCrv[e] + left /\ held'[e] = held[e] + amount
      BY <1>2, <1>3, <2>3
    <3> QED BY <2>1, <3>1, <3>2, <3>3
  <2>4. CASE ~(e = Minting /\ to = Minting)
    <3>1. incentiveCrv'[e] = incentiveCrv[e]
      BY <1>1, <1>3, <2>4
    <3>2. MaxIncentive * held[e] <= MaxIncentive * held'[e]
      BY <1>1, <1>2, <2>2, MulMonotone
    <3>3. /\ FeeDenominator * incentiveCrv[e] \in Int
          /\ MaxIncentive * held[e] \in Int /\ MaxIncentive * held'[e] \in Int
      BY <1>1, <2>2
    <3> QED BY <2>1, <3>1, <3>2, <3>3
  <2> QED BY <2>3, <2>4
<1>8. OwedByMinting'
  BY <1>3 DEF IInv, OwedByMinting
<1>9. CopiesLag'
  BY <1>4 DEF IInv, CopiesLag, WholeWeeks, UnlockInWeeks
<1> QED BY <1>5, <1>6, <1>7, <1>8, <1>9 DEF IInv

\* A deposit, locked at once or left with the depositor.
LEMMA DepositKeeps ==
  ASSUME IInv, NEW d \in Depositors, NEW amount \in Nat, Deposit(d, amount)
  PROVE  IInv'
<1> DEFINE left == CallIncentive(d, amount)
<1>1. TypeOK /\ d \in Holders /\ d = Minting /\ liqLit \in Nat /\ wallet \in Nat
      /\ FeeDenominator \in Nat /\ MaxIncentive \in Nat
  BY FeeAssumption DEF IInv, TypeOK, Holders, Deposit
<1>2. left \in Nat /\ left <= amount /\ FeeDenominator * left <= MaxIncentive * amount
  BY <1>1, IncentiveBounded
<1>3. /\ held' = [held EXCEPT ![d] = @ + amount]
      /\ liqLit' = liqLit + amount - left
      /\ incentiveCrv' = [incentiveCrv EXCEPT ![Minting] = @ + left]
      /\ now' = now /\ lockVars' = lockVars /\ adminVars' = adminVars
      /\ amount \in 1..wallet /\ wallet' = wallet - amount
  BY <1>1 DEF Deposit
<1> HIDE DEF left
<1>4. amount - left \in Nat /\ liqLit' = liqLit + (amount - left) /\ wallet' \in Nat
      /\ (amount - left) + left <= amount
  BY <1>1, <1>2, <1>3
<1> QED BY <1>1, <1>2, <1>3, <1>4, ComesInKeeps

\* LIT that anyone sends to the depositor or the escrow.
LEMMA SendTokensKeeps ==
  ASSUME IInv, NEW to \in Holders, NEW amount \in Nat, SendTokens(to, amount)
  PROVE  IInv'
<1>1. /\ liqLit \in Nat /\ wallet \in Nat /\ incentiveCrv \in [Depositors -> Nat]
      /\ Minting \in Depositors /\ FeeDenominator \in Nat /\ MaxIncentive \in Nat
  BY PartiesAssumption, FeeAssumption DEF IInv, TypeOK
<1>2. /\ held' = [held EXCEPT ![to] = @ + amount]
      /\ liqLit' = liqLit /\ incentiveCrv' = incentiveCrv
      /\ now' = now /\ lockVars' = lockVars /\ adminVars' = adminVars
      /\ amount \in 1..wallet /\ wallet' = wallet - amount
  BY DEF SendTokens
<1>3. liqLit' = liqLit + 0 /\ incentiveCrv' = [incentiveCrv EXCEPT ![Minting] = @ + 0] /\ wallet' \in Nat
  BY <1>1, <1>2
<1>4. MaxIncentive * amount \in Nat
  BY <1>1, MulNat
<1>5. 0 + 0 <= amount /\ FeeDenominator * 0 <= MaxIncentive * amount /\ ~(0 + 0 > 0) /\ 0 \in Nat
  BY <1>1, <1>4
<1> QED BY <1>2, <1>3, <1>5, ComesInKeeps

\* The roles' steps and the clock change nothing that the ledger rests on.
LEMMA LedgerStands ==
  ASSUME IInv, TypeOK', held' = held, liqLit' = liqLit, incentiveCrv' = incentiveCrv,
         lockVars' = lockVars, UnlockInWeeks(now) <= UnlockInWeeks(now)'
  PROVE  IInv'
<1>1. escrowAmount' = escrowAmount /\ escrowEnd' = escrowEnd /\ unlockTime' = unlockTime
  BY DEF lockVars
<1>2. LiqLitBacked' /\ IncentiveFromWaiting' /\ OwedByMinting'
  BY <1>1 DEF IInv, LiqLitBacked, IncentiveFromWaiting, OwedByMinting
<1>3. CopiesLag'
  <2>1. escrowEnd \in Nat /\ UnlockInWeeks(now) \in Nat /\ UnlockInWeeks(now)' \in Nat
    <3>1. now \in Nat /\ now' \in Nat /\ escrowEnd \in Nat
      BY TimeAssumption DEF IInv, TypeOK
    <3>2. UnlockInWeeks(now)' = UnlockInWeeks(now')
      BY DEF UnlockInWeeks
    <3> QED BY <3>1, <3>2, UnlockIsWholeWeeks
  <2>2. escrowEnd' <= UnlockInWeeks(now)'
    BY <1>1, <2>1 DEF IInv, CopiesLag
  <2> QED BY <1>1, <2>2 DEF IInv, CopiesLag, WholeWeeks
<1> QED BY <1>2, <1>3 DEF IInv

\* Every step of the depositors, the escrow and the owner keeps the invariant.
LEMMA NextKeepsIInv == IInv /\ [Next]_vars => IInv'
<1> SUFFICES ASSUME IInv, [Next]_vars PROVE IInv'
  OBVIOUS
<1>1. TypeOK /\ now \in Nat /\ wallet \in Nat /\ UnlockInWeeks(now) \in Nat
  BY TimeAssumption, UnlockIsWholeWeeks DEF IInv, TypeOK
<1>2. ASSUME now' = now PROVE UnlockInWeeks(now) <= UnlockInWeeks(now)'
  BY <1>1, <1>2 DEF UnlockInWeeks
<1>3. CASE UNCHANGED vars
  <2>1. TypeOK'
    BY <1>1, <1>3 DEF TypeOK, vars, lockVars, adminVars
  <2> QED BY <1>2, <1>3, <2>1, LedgerStands DEF vars
<1>4. CASE Tick
  <2>1. TypeOK'
    BY <1>1, <1>4, TimeAssumption DEF Tick, TypeOK, lockVars, adminVars
  <2>2. UnlockInWeeks(now)' = UnlockInWeeks(now + 1)
    BY <1>4 DEF Tick, UnlockInWeeks
  <2>3. UnlockInWeeks(now) <= UnlockInWeeks(now + 1)
    BY <1>1, UnlockMonotone
  <2> QED BY <1>4, <2>1, <2>2, <2>3, LedgerStands DEF Tick
<1>5. ASSUME NEW d \in Depositors, LockCurve(d)
      PROVE  IInv'
  <2>1. liqLit \in Nat /\ incentiveCrv[d] \in Nat
    BY <1>1 DEF TypeOK
  <2>2. liqLit' = liqLit + 0 + incentiveCrv[d] /\ wallet' \in Nat
    BY <1>1, <1>5, <2>1 DEF LockCurve
  <2>3. incentiveCrv[d] > 0 \/ 0 > 0 => d = Minting
    BY <1>5 DEF LockCurve
  <2> QED BY <1>5, <2>2, <2>3, PaidKeeps DEF LockCurve
<1>6. ASSUME NEW d \in Depositors, InitialLock(d)
      PROVE  IInv'
  BY <1>6, InitialLockKeeps
<1>7. ASSUME NEW d \in Depositors, NEW amount \in 1..wallet, DepositAndLock(d, amount)
      PROVE  IInv'
  <2>1. amount \in Nat /\ wallet' \in Nat
    BY <1>1, <1>7 DEF DepositAndLock
  <2> QED BY <1>7, <2>1, PaidKeeps DEF DepositAndLock
<1>8. ASSUME NEW d \in Depositors, NEW amount \in 1..wallet, Deposit(d, amount)
      PROVE  IInv'
  BY <1>1, <1>8, DepositKeeps
<1>9. ASSUME NEW d \in Depositors, NEW fee \in FeeValues, SetFees(d, fee)
      PROVE  IInv'
  <2>1. fee \in 0..MaxIncentive
    BY <1>9, FeeAssumption DEF SetFees
  <2>2. TypeOK'
    BY <1>1, <1>9, <2>1 DEF SetFees, TypeOK, lockVars
  <2> QED BY <1>2, <1>9, <2>2, LedgerStands DEF SetFees
<1>10. ASSUME NEW d \in Depositors, NEW stop \in BOOLEAN, SetCooldown(d, stop)
       PROVE  IInv'
  <2>1. TypeOK'
    BY <1>1, <1>10 DEF SetCooldown, TypeOK, lockVars
  <2> QED BY <1>2, <1>10, <2>1, LedgerStands DEF SetCooldown
<1>11. ASSUME NEW d \in Depositors, SetDepositor(d)
       PROVE  IInv'
  <2>1. TypeOK'
    BY <1>1, <1>11 DEF SetDepositor, TypeOK, lockVars
  <2> QED BY <1>2, <1>11, <2>1, LedgerStands DEF SetDepositor
<1>12. ASSUME NEW to \in Holders, NEW amount \in 1..wallet, SendTokens(to, amount)
       PROVE  IInv'
  BY <1>1, <1>12, SendTokensKeeps
<1> QED BY <1>3, <1>4, <1>5, <1>6, <1>7, <1>8, <1>9, <1>10, <1>11, <1>12 DEF Next

\* The inductive invariant holds of every behaviour.
THEOREM Invariance == Spec => []IInv
<1>1. Init => IInv
  BY InitIInv
<1>2. IInv /\ [Next]_vars => IInv'
  BY NextKeepsIInv
<1> QED BY <1>1, <1>2, PTL DEF Spec

\* The variables keep their types.
THEOREM TypeCorrect == Spec => []TypeOK
<1>1. IInv => TypeOK
  BY DEF IInv
<1> QED BY <1>1, Invariance, PTL

\* liqLIT and the incentive owed are covered by the LIT that is locked or can be.
THEOREM Backed == Spec => []LiqLitBacked
<1>1. IInv => LiqLitBacked
  BY DEF IInv
<1> QED BY <1>1, Invariance, PTL

\* No incentive is owed but for LIT that still waits to be locked.
THEOREM OwedForWaiting == Spec => []IncentiveFromWaiting
<1>1. IInv => IncentiveFromWaiting
  BY DEF IInv
<1> QED BY <1>1, Invariance, PTL

\* LIT enters the escrow only with the longest lock there is.
THEOREM LongestLock == Spec => LockedForLongest
<1>1. ASSUME IInv, [Next]_vars
      PROVE  escrowAmount' > escrowAmount => escrowEnd' = UnlockInWeeks(now)
  <2>1. escrowAmount \in Nat
    BY <1>1 DEF IInv, TypeOK
  <2>2. CASE escrowAmount' = escrowAmount
    BY <2>1, <2>2
  <2>3. ASSUME NEW d \in Depositors, NEW sent \in Nat, ~cooldown[d], LockTokens(d, sent)
        PROVE  escrowAmount' > escrowAmount => escrowEnd' = UnlockInWeeks(now)
    BY <1>1, <2>3, LockTokensFacts
  <2>4. ASSUME NEW d \in Depositors, LockCurve(d)
        PROVE  escrowAmount' > escrowAmount => escrowEnd' = UnlockInWeeks(now)
    BY <2>3, <2>4 DEF LockCurve
  <2>5. ASSUME NEW d \in Depositors, NEW amount \in 1..wallet, DepositAndLock(d, amount)
        PROVE  escrowAmount' > escrowAmount => escrowEnd' = UnlockInWeeks(now)
    <3>1. amount \in Nat
      BY <1>1 DEF IInv, TypeOK
    <3> QED BY <2>3, <2>5, <3>1 DEF DepositAndLock
  <2>6. ASSUME NEW d \in Depositors, InitialLock(d)
        PROVE  escrowEnd' = UnlockInWeeks(now)
    BY <2>6 DEF InitialLock
  <2>7. ASSUME NEW d \in Depositors
        PROVE  /\ \A amount : Deposit(d, amount) => escrowAmount' = escrowAmount
               /\ \A fee : SetFees(d, fee) => escrowAmount' = escrowAmount
               /\ \A stop : SetCooldown(d, stop) => escrowAmount' = escrowAmount
               /\ SetDepositor(d) => escrowAmount' = escrowAmount
    BY DEF Deposit, SetFees, SetCooldown, SetDepositor, lockVars
  <2>8. /\ \A to, amount : SendTokens(to, amount) => escrowAmount' = escrowAmount
        /\ Tick => escrowAmount' = escrowAmount
        /\ UNCHANGED vars => escrowAmount' = escrowAmount
    BY DEF SendTokens, Tick, vars, lockVars
  <2> QED BY <1>1, <2>2, <2>4, <2>5, <2>6, <2>7, <2>8 DEF Next
<1>2. IInv /\ [Next]_vars => [escrowAmount' > escrowAmount => escrowEnd' = UnlockInWeeks(now)]_vars
  BY <1>1
<1> QED BY <1>2, Invariance, PTL DEF Spec, LockedForLongest

\* A paid incentive is paid in full in a step that locks all that waited.
THEOREM PaidForLocking == Spec => IncentivePaidForLocking
<1> DEFINE Paid(d) ==
      incentiveCrv'[d] < incentiveCrv[d] =>
        /\ incentiveCrv'[d] = 0 /\ held'[d] = 0
        /\ escrowAmount' >= escrowAmount + held[d]
        /\ liqLit' = liqLit + incentiveCrv[d] + (wallet - wallet')
<1>1. ASSUME IInv, [Next]_vars, NEW d \in Depositors
      PROVE  Paid(d)
  <2>1. /\ incentiveCrv \in [Depositors -> Nat] /\ liqLit \in Nat /\ wallet \in Nat
        /\ Minting \in Depositors
    BY <1>1, PartiesAssumption DEF IInv, TypeOK
  <2>2. ASSUME incentiveCrv'[d] >= incentiveCrv[d], incentiveCrv'[d] \in Int PROVE Paid(d)
    BY <2>1, <2>2
  <2>3. ASSUME incentiveCrv' = incentiveCrv PROVE Paid(d)
    BY <2>1, <2>3
  <2>4. ASSUME NEW e \in Depositors, NEW sent \in Nat, ~cooldown[e], LockTokens(e, sent),
               wallet' = wallet - sent, liqLit' = liqLit + sent + incentiveCrv[e],
               incentiveCrv' = [incentiveCrv EXCEPT ![e] = 0]
        PROVE  Paid(d)
    <3>1. CASE e = d
      <4>1. held'[d] = 0 /\ escrowAmount' >= escrowAmount + held[d]
        BY <1>1, <2>4, <3>1, LockTokensFacts
      <4>2. incentiveCrv'[d] = 0 /\ wallet - wallet' = sent
        BY <2>1, <2>4, <3>1
      <4> QED BY <2>1, <2>4, <3>1, <4>1, <4>2
    <3>2. CASE e # d
      <4>1. incentiveCrv'[d] = incentiveCrv[d]
        BY <2>1, <2>4, <3>2
      <4> QED BY <2>1, <4>1
    <3> QED BY <3>1, <3>2
  <2> HIDE DEF Paid
  <2>5. ASSUME NEW e \in Depositors, LockCurve(e) PROVE Paid(d)
    <3>1. wallet' = wallet - 0 /\ liqLit' = liqLit + 0 + incentiveCrv[e]
      BY <2>1, <2>5 DEF LockCurve
    <3> QED BY <2>4, <2>5, <3>1 DEF LockCurve
  <2>6. ASSUME NEW e \in Depositors, NEW amount \in 1..wallet, DepositAndLock(e, amount) PROVE Paid(d)
    <3>1. amount \in Nat
      BY <2>1
    <3> QED BY <2>4, <2>6, <3>1 DEF DepositAndLock
  <2>7. ASSUME NEW e \in Depositors, NEW amount \in 1..wallet, Deposit(e, amount) PROVE Paid(d)
    <3>1. amount \in Nat
      BY <2>1
    <3>2. CallIncentive(e, amount) \in Nat
      BY <1>1, <3>1, IncentiveBounded DEF IInv
    <3>3. incentiveCrv' = [incentiveCrv EXCEPT ![e] = @ + CallIncentive(e, amount)]
      BY <2>7 DEF Deposit
    <3>4. incentiveCrv'[d] \in Int /\ incentiveCrv'[d] >= incentiveCrv[d]
      BY <2>1, <3>2, <3>3
    <3> QED BY <2>2, <3>4
  <2>8. ASSUME NEW e \in Depositors
        PROVE  /\ InitialLock(e) \/ SetDepositor(e) => Paid(d)
               /\ \A fee : SetFees(e, fee) => Paid(d)
               /\ \A stop : SetCooldown(e, stop) => Paid(d)
    BY <2>3 DEF InitialLock, SetDepositor, SetFees, SetCooldown
  <2>9. /\ \A to, amount : SendTokens(to, amount) => Paid(d)
        /\ Tick \/ UNCHANGED vars => Paid(d)
    BY <2>3 DEF SendTokens, Tick, vars
  <2> QED BY <1>1, <2>5, <2>6, <2>7, <2>8, <2>9 DEF Next
<1>2. IInv /\ [Next]_vars => [\A d \in Depositors : Paid(d)]_vars
  BY <1>1
<1> QED BY <1>2, Invariance, PTL DEF Spec, IncentivePaidForLocking

\* liqLIT is a wrapped token in the sense of WrappedToken.
THEOREM WrapsLit == Spec => WrapsOneToOne
<1> USE DEF Wrapped!Spec, Wrapped!vars
<1>1. Init => Wrapped!Init
  BY PartiesAssumption, TokensAssumption DEF Init, Wrapped!Init, Backing
<1>2. ASSUME IInv, [Next]_vars
      PROVE  Wrapped!Next \/ UNCHANGED <<Backing, liqLit, incentiveCrv[Minting]>>
  <2>1. /\ incentiveCrv \in [Depositors -> Nat] /\ liqLit \in Nat /\ wallet \in Nat
        /\ Minting \in Depositors /\ InitialTokens \in Nat /\ OwedByMinting
    BY <1>2, PartiesAssumption, TokensAssumption DEF IInv, TypeOK
  <2>2. ASSUME wallet' = wallet, liqLit' = liqLit, incentiveCrv' = incentiveCrv
        PROVE  UNCHANGED <<Backing, liqLit, incentiveCrv[Minting]>>
    BY <2>2 DEF Backing
  <2>3. ASSUME NEW d \in Depositors, LockCurve(d)
        PROVE  Wrapped!Next \/ UNCHANGED <<Backing, liqLit, incentiveCrv[Minting]>>
    <3>1. /\ wallet' = wallet /\ liqLit' = liqLit + incentiveCrv[d]
          /\ incentiveCrv' = [incentiveCrv EXCEPT ![d] = 0]
      BY <2>3 DEF LockCurve
    <3>2. CASE d = Minting
      <4>1. incentiveCrv'[Minting] = 0 /\ Backing' = Backing
        BY <2>1, <3>1, <3>2 DEF Backing
      <4> QED BY <3>1, <3>2, <4>1 DEF Wrapped!Next, Wrapped!PayOwed
    <3>3. CASE d # Minting
      <4>1. incentiveCrv[d] = 0
        BY <2>1, <3>3 DEF OwedByMinting
      <4>2. incentiveCrv'[Minting] = incentiveCrv[Minting] /\ liqLit' = liqLit /\ Backing' = Backing
        BY <2>1, <3>1, <3>3, <4>1 DEF Backing
      <4> QED BY <4>2
    <3> QED BY <3>2, <3>3
  <2>4. ASSUME NEW amount \in 1..wallet, wallet' = wallet - amount, NEW minted \in Nat, NEW left \in Nat,
               liqLit' = liqLit + minted, incentiveCrv'[Minting] = left,
               minted + left = incentiveCrv[Minting] + amount
        PROVE  Wrapped!Next
    <3>1. Backing' > Backing /\ Backing' - Backing = amount
      BY <2>1, <2>4 DEF Backing
    <3>2. liqLit' >= liqLit /\ incentiveCrv'[Minting] \in Nat
          /\ liqLit' + incentiveCrv'[Minting] = liqLit + incentiveCrv[Minting] + (Backing' - Backing)
      BY <2>1, <2>4, <3>1
    <3> QED BY <3>1, <3>2 DEF Wrapped!Next, Wrapped!Wrap
  <2>5. ASSUME NEW d \in Depositors, NEW amount \in 1..wallet, DepositAndLock(d, amount)
        PROVE  Wrapped!Next
    <3>1. /\ d = Minting /\ wallet' = wallet - amount
          /\ liqLit' = liqLit + (amount + incentiveCrv[Minting])
          /\ incentiveCrv'[Minting] = 0
          /\ amount + incentiveCrv[Minting] \in Nat
          /\ (amount + incentiveCrv[Minting]) + 0 = incentiveCrv[Minting] + amount
      BY <2>1, <2>5 DEF DepositAndLock
    <3> QED BY <2>4, <3>1
  <2>6. ASSUME NEW d \in Depositors, NEW amount \in 1..wallet, Deposit(d, amount)
        PROVE  Wrapped!Next
    <3> DEFINE c == CallIncentive(d, amount)
    <3>1. amount \in Nat
      BY <2>1
    <3>2. c \in Nat /\ c <= amount
      BY <1>2, <3>1, IncentiveBounded DEF IInv
    <3>3. /\ d = Minting /\ wallet' = wallet - amount
          /\ liqLit' = liqLit + amount - c
          /\ incentiveCrv' = [incentiveCrv EXCEPT ![Minting] = @ + c]
      BY <2>6 DEF Deposit
    <3> HIDE DEF c
    <3>4. /\ liqLit' = liqLit + (amount - c) /\ amount - c \in Nat
          /\ incentiveCrv'[Minting] = incentiveCrv[Minting] + c
          /\ incentiveCrv[Minting] + c \in Nat
          /\ (amount - c) + (incentiveCrv[Minting] + c) = incentiveCrv[Minting] + amount
      BY <2>1, <3>1, <3>2, <3>3
    <3> QED BY <2>4, <3>3, <3>4
  <2>7. ASSUME NEW to \in Holders, NEW amount \in 1..wallet, SendTokens(to, amount)
        PROVE  Wrapped!Next
    <3>1. Backing' > Backing /\ liqLit' = liqLit /\ incentiveCrv'[Minting] = incentiveCrv[Minting]
      BY <2>1, <2>7 DEF SendTokens, Backing
    <3> QED BY <3>1 DEF Wrapped!Next, Wrapped!Give
  <2>8. ASSUME NEW d \in Depositors
        PROVE  /\ InitialLock(d) \/ SetDepositor(d)
                    => UNCHANGED <<Backing, liqLit, incentiveCrv[Minting]>>
               /\ \A fee : SetFees(d, fee) => UNCHANGED <<Backing, liqLit, incentiveCrv[Minting]>>
               /\ \A stop : SetCooldown(d, stop) => UNCHANGED <<Backing, liqLit, incentiveCrv[Minting]>>
    BY <2>2 DEF InitialLock, SetDepositor, SetFees, SetCooldown
  <2>9. Tick \/ UNCHANGED vars => UNCHANGED <<Backing, liqLit, incentiveCrv[Minting]>>
    BY <2>2 DEF Tick, vars
  <2> QED BY <1>2, <2>3, <2>5, <2>6, <2>7, <2>8, <2>9 DEF Next
<1>3. IInv /\ [Next]_vars => [Wrapped!Next]_(Wrapped!vars)
  BY <1>2
<1> QED BY <1>1, <1>3, Invariance, PTL DEF Spec, WrapsOneToOne

----------------------------------------------------------------------------------
(* The gauge votes *)

IsGaugeList(list) == list \in Seq(Range(Gauges)) /\ IsInjective(list)

\* Every choice has the label that one of the tasks gives its gauge, and no gauge has two.
Labels == Range(Name) \cup Range(Symbols)
IsChoiceList(list) ==
  /\ list \in Seq([address : Range(Gauges), label : Labels])
  /\ \A i \in DOMAIN list : list[i].label \in {Name[list[i].address], Symbols[list[i].address]}
  /\ \A i, j \in DOMAIN list : list[i].address = list[j].address => i = j

ProposalOK ==
  /\ proposal.choices \in Seq(Labels) /\ proposal.scores \in Seq(Nat)
  /\ Len(proposal.scores) = Len(proposal.choices)

\* The controller never has more than the whole power in use.
Used(pow) == SumTo([k \in 1..Len(Gauges) |-> pow[Gauges[k]]], Len(Gauges))
PowerOK == power \in [Range(Gauges) -> Nat] /\ Used(power) <= totalVotes

\* Resets come first, then by what they change in the power in use.
VoteSet == [gauge : Range(Gauges), voteDelta : Int, voteWeight : Nat]
InSendingOrder(vs) ==
  /\ vs \in Seq(VoteSet)
  /\ \A i, j \in 1..Len(vs) : vs[i].gauge = vs[j].gauge => i = j
  /\ \A i, j \in 1..Len(vs) :
       i < j /\ vs[i].voteWeight # 0 =>
         /\ vs[j].voteWeight # 0
         /\ vs[i].voteWeight - power[vs[i].gauge] <= vs[j].voteWeight - power[vs[j].gauge]

VotesOK ==
  /\ InSendingOrder(votes)
  /\ Total([i \in 1..Len(votes) |-> votes[i].voteWeight]) <= totalVotes
  /\ votes # <<>> =>
       \A g \in Range(source.gauges) : power[g] > 0 => \E i \in 1..Len(votes) : votes[i].gauge = g

VotesInv ==
  /\ IsGaugeList(snapshot) /\ IsChoiceList(choices) /\ ProposalOK /\ PowerOK /\ VotesOK
  /\ SharesFollowLabels /\ WholePowerUsed

\* The weights of some scores add up to the whole power, and each is its score's share of it
\* but for what rounding moves to the first.
LEMMA WeightsAddUp ==
  ASSUME NEW scores \in Seq(Nat), Len(scores) > 0, \A k \in 1..Len(scores) : scores[k] > 0
  PROVE  /\ Weights(scores) \in [1..Len(scores) -> Nat]
         /\ SumTo(Weights(scores), Len(scores)) = totalVotes
         /\ \A k \in 1..Len(scores) :
              Weights(scores)[k] * Total(scores) <= (scores[k] * totalVotes) + (Len(scores) * Total(scores))
<1> DEFINE n == Len(scores)
           sum == Total(scores)
           floors == [k \in 1..n |-> (totalVotes * scores[k]) \div sum]
           rest == totalVotes - SumTo(floors, n)
           w == Weights(scores)
           whole == totalVotes
<1>0. n \in Nat /\ n > 0 /\ 1 \in 1..n /\ \A k \in 1..n : scores[k] \in Nat /\ scores[k] > 0
  BY LenProperties, ElementOfSeq
<1>1. sum \in Nat /\ sum > 0
  <2>1. sum = SumTo(scores, n)
    BY DEF Total
  <2>2. scores[1] <= SumTo(scores, n) /\ SumTo(scores, n) \in Nat
    <3>1. n \in 0..n
      BY <1>0
    <3> QED BY <3>1, <1>0, SumToMember, SumToNat
  <2> QED BY <2>1, <2>2, <1>0
<1>2. whole \in Nat
  BY DEF totalVotes
<1> HIDE DEF whole
<1>3. ASSUME NEW k \in 1..n
      PROVE  /\ floors[k] \in Nat /\ sum * floors[k] <= whole * scores[k]
             /\ whole * scores[k] <= sum * floors[k] + sum
  <2> DEFINE x == whole * scores[k]
  <2>1. x \in Nat
    BY <1>0, <1>2, MulNat
  <2>2. floors[k] = x \div sum
    BY DEF whole
  <2> HIDE DEF x, sum
  <2>3. x \div sum \in Nat /\ sum * (x \div sum) <= x /\ x <= sum * (x \div sum) + sum
    BY <2>1, <1>1
  <2> QED BY <2>2, <2>3 DEF x
<1>4. Len(floors) = n /\ floors \in [1..n -> Nat] /\ Total(floors) = SumTo(floors, n)
  <2>1. floors \in [1..n -> Nat]
    BY <1>3
  <2>2. Len(floors) = n
    BY <1>0
  <2> QED BY <2>1, <2>2 DEF Total
<1>5. w = [floors EXCEPT ![1] = @ + rest]
  BY <1>4 DEF Weights
<1> HIDE DEF floors, w
<1>6. SumTo(floors, n) \in Nat /\ rest \in Int
  <2>1. n \in 0..n
    BY <1>0
  <2>2. SumTo(floors, n) \in Nat
    BY <2>1, <1>0, <1>4, SumToNat
  <2> QED BY <2>2, <1>2 DEF whole
<1>7. sum * SumTo(floors, n) <= sum * whole /\ sum * whole <= sum * (SumTo(floors, n) + n)
  <2> DEFINE low == [k \in 1..n |-> sum * floors[k]]
             mid == [k \in 1..n |-> whole * scores[k]]
             high == [k \in 1..n |-> sum * (floors[k] + 1)]
             up == [k \in 1..n |-> floors[k] + 1]
  <2>1. \A k \in 1..n : /\ floors[k] \in Int /\ low[k] = sum * floors[k] /\ low[k] \in Int
                        /\ scores[k] \in Int /\ mid[k] = whole * scores[k] /\ mid[k] \in Int
                        /\ up[k] = floors[k] + 1 /\ up[k] \in Int /\ high[k] = sum * up[k] /\ high[k] \in Int
                        /\ low[k] <= mid[k] /\ mid[k] <= high[k]
    <3> SUFFICES ASSUME NEW k \in 1..n
                 PROVE  /\ floors[k] \in Int /\ sum * floors[k] \in Int
                        /\ scores[k] \in Int /\ whole * scores[k] \in Int
                        /\ floors[k] + 1 \in Int /\ sum * (floors[k] + 1) \in Int
                        /\ sum * floors[k] <= whole * scores[k] /\ whole * scores[k] <= sum * (floors[k] + 1)
      OBVIOUS
    <3>1. floors[k] \in Nat /\ scores[k] \in Nat
      BY <1>0, <1>4
    <3> HIDE DEF sum
    <3>2. sum * (floors[k] + 1) = sum * floors[k] + sum
      BY <3>1, <1>1, Distributes
    <3>3. sum * floors[k] <= whole * scores[k] /\ whole * scores[k] <= sum * floors[k] + sum
      BY <1>3 DEF sum
    <3>4. sum * floors[k] \in Int /\ whole * scores[k] \in Int /\ sum \in Int
      BY <3>1, <1>1, <1>2 DEF whole
    <3>5. whole * scores[k] <= sum * (floors[k] + 1) /\ sum * (floors[k] + 1) \in Int
      BY <3>2, <3>3, <3>4
    <3> QED BY <3>1, <3>3, <3>4, <3>5 DEF sum
  <2>2. sum = SumTo(scores, n)
    BY DEF Total
  <2> HIDE DEF low, mid, high, up, sum
  <2>3. SumTo(low, n) = sum * SumTo(floors, n) /\ SumTo(mid, n) = whole * SumTo(scores, n)
        /\ SumTo(high, n) = sum * SumTo(up, n)
    <3>1. sum \in Int /\ whole \in Int
      BY <1>1, <1>2
    <3>2. SumTo(low, n) = sum * SumTo(floors, n)
      <4>1. \A k \in 1..n : floors[k] \in Int /\ low[k] = sum * floors[k]
        BY <2>1
      <4> QED BY <4>1, <3>1, <1>0, SumToScale
    <3>3. SumTo(mid, n) = whole * SumTo(scores, n)
      <4>1. \A k \in 1..n : scores[k] \in Int /\ mid[k] = whole * scores[k]
        BY <2>1
      <4> QED BY <4>1, <3>1, <1>0, SumToScale
    <3>4. SumTo(high, n) = sum * SumTo(up, n)
      <4>1. \A k \in 1..n : up[k] \in Int /\ high[k] = sum * up[k]
        BY <2>1
      <4> QED BY <4>1, <3>1, <1>0, SumToScale
    <3> QED BY <3>2, <3>3, <3>4
  <2>4. SumTo(low, n) <= SumTo(mid, n) /\ SumTo(mid, n) <= SumTo(high, n)
    BY <2>1, <1>0, SumToMonotone
  <2>5. SumTo(up, n) = SumTo(floors, n) + n
    <3> DEFINE S == {k \in 0..n : SumTo(up, k) = SumTo(floors, k) + k}
    <3>1. 0 \in S
      BY <1>0, SumToZero
    <3>2. ASSUME NEW k \in 0..n, k \in S, k < n PROVE k + 1 \in S
      <4>1. SumTo(up, k + 1) = SumTo(up, k) + up[k + 1] /\ SumTo(floors, k + 1) = SumTo(floors, k) + floors[k + 1]
            /\ SumTo(floors, k) \in Int /\ floors[k + 1] \in Int
        BY <2>1, <1>0, <3>2, SumToStep
      <4>2. up[k + 1] = floors[k + 1] + 1
        <5>1. k + 1 \in 1..n
          BY <3>2
        <5> QED BY <5>1, <2>1
      <4>3. SumTo(up, k) = SumTo(floors, k) + k
        BY <3>2
      <4>4. SumTo(up, k + 1) = SumTo(floors, k + 1) + (k + 1)
        <5>1. \A a, b \in Int : (a + k) + (b + 1) = (a + b) + (k + 1)
          OBVIOUS
        <5>2. (SumTo(floors, k) + k) + (floors[k + 1] + 1) = (SumTo(floors, k) + floors[k + 1]) + (k + 1)
          BY <5>1, <4>1
        <5> HIDE DEF S
        <5> QED BY <5>2, <4>1, <4>2, <4>3
      <4>5. k + 1 \in 0..n
        BY <3>2
      <4> QED BY <4>4, <4>5
    <3> HIDE DEF S
    <3>3. 0..n \subseteq S
      BY <3>1, <3>2, <1>0, BoundedInduction
    <3> QED BY <3>3, <1>0 DEF S
  <2>6. whole * sum = sum * whole
    BY <1>1, <1>2
  <2> QED BY <2>2, <2>3, <2>4, <2>5, <2>6
<1> HIDE DEF sum
<1>8. SumTo(floors, n) <= whole /\ whole <= SumTo(floors, n) + n
  <2>1. SumTo(floors, n) \in Int /\ SumTo(floors, n) + n \in Int /\ whole \in Int /\ sum \in Nat /\ sum > 0
    BY <1>0, <1>1, <1>2, <1>6
  <2>2. SumTo(floors, n) <= whole
    BY <2>1, <1>7, MulCancels
  <2>3. whole <= SumTo(floors, n) + n
    BY <2>1, <1>7, MulCancels
  <2> QED BY <2>2, <2>3
<1>9. rest \in Nat /\ rest <= n
  BY <1>2, <1>6, <1>8 DEF whole
<1> HIDE DEF rest
<1>10. w \in [1..n -> Nat] /\ w[1] = floors[1] + rest /\ \A k \in 1..n : k # 1 => w[k] = floors[k]
  BY <1>0, <1>4, <1>5, <1>9
<1>11. SumTo(w, n) = whole
  <2>1. \A k \in 1..n : floors[k] \in Int /\ w[k] \in Int
    BY <1>4, <1>10
  <2>2. SumTo(w, n) = SumTo(floors, n) + w[1] - floors[1]
    BY <2>1, <1>0, <1>10, SumToUpdate
  <2> QED BY <2>1, <2>2, <1>0, <1>2, <1>6, <1>10 DEF rest, whole
<1>12. ASSUME NEW k \in 1..n PROVE w[k] * sum <= (scores[k] * whole) + (n * sum)
  <2>1. floors[k] \in Nat /\ w[k] \in Nat /\ w[k] <= floors[k] + n
    BY <1>0, <1>4, <1>9, <1>10
  <2>2. sum * w[k] <= sum * (floors[k] + n)
    BY <2>1, <1>0, <1>1, MulMonotone
  <2>3. sum * (floors[k] + n) = sum * floors[k] + sum * n
    BY <2>1, <1>0, <1>1, Distributes
  <2>4. sum * floors[k] <= whole * scores[k]
    BY <1>3 DEF sum
  <2>5. sum * w[k] = w[k] * sum /\ sum * n = n * sum /\ whole * scores[k] = scores[k] * whole
        /\ sum * n \in Int /\ sum * floors[k] \in Int /\ sum * w[k] \in Int /\ whole * scores[k] \in Int
    BY <2>1, <1>0, <1>1, <1>2
  <2> QED BY <2>2, <2>3, <2>4, <2>5
<1> QED BY <1>10, <1>11, <1>12 DEF w, sum, whole

\* The successful choices are some of the proposal's, each once, and have scores.
LEMMA SuccessfulType ==
  ASSUME ProposalOK
  PROVE  LET n == Len(Successful)
             m == Len(proposal.choices)
         IN  /\ m \in Nat /\ n \in Nat /\ n <= m /\ DOMAIN Successful = 1..n
             /\ DOMAIN proposal.choices = 1..m
             /\ \A k \in 1..n : Successful[k] \in 1..m
             /\ \A k, l \in 1..n : Successful[k] = Successful[l] => k = l
             /\ Won \in Seq(Nat) /\ Len(Won) = n
             /\ \A k \in 1..n : Won[k] = proposal.scores[Successful[k]] /\ Won[k] > 0
<1> DEFINE m == Len(proposal.choices)
           scores == proposal.scores
           passed == {i \in DOMAIN scores : scores[i] * 500 > Total(scores)}
           key == [i \in passed |-> -scores[i]]
<1>1. /\ m \in Nat /\ DOMAIN proposal.choices = 1..m /\ scores \in Seq(Nat) /\ Len(scores) = m
      /\ DOMAIN scores = 1..m /\ \A i \in 1..m : scores[i] \in Nat
  BY LenProperties, ElementOfSeq DEF ProposalOK
<1>2. Total(scores) \in Nat
  <2>1. Total(scores) = SumTo(scores, m)
    BY <1>1 DEF Total
  <2>2. m \in 0..m
    BY <1>1
  <2>3. SumTo(scores, m) \in Nat
    BY <2>2, <1>1, SumToNat
  <2> QED BY <2>1, <2>3
<1>3. passed \in SUBSET (1..Len(scores)) /\ \A i \in passed : scores[i] > 0 /\ key[i] \in Int
  <2>1. ASSUME NEW i \in passed PROVE scores[i] > 0 /\ key[i] \in Int
    <3>1. scores[i] \in Nat /\ scores[i] * 500 > Total(scores)
      BY <1>1
    <3> QED BY <3>1, <1>2
  <2> QED BY <2>1, <1>1
<1>4. Successful = Ordered(passed, key) /\ Won = At(scores, Ordered(passed, key))
  BY DEF Successful, Won
<1> HIDE DEF passed, key, scores
<1>5. /\ Won \in Seq(Nat) /\ Len(Won) \in Nat /\ Len(Won) = Len(Successful) /\ Len(Won) = Cardinality(passed)
      /\ IsSelection(Won, scores, passed, Successful)
  <2>1. LET out == At(scores, Ordered(passed, key))
            p == Ordered(passed, key)
        IN  /\ out \in Seq(Nat) /\ Len(out) \in Nat /\ Len(out) = Len(p) /\ Len(out) = Cardinality(passed)
            /\ IsSelection(out, scores, passed, p)
    <3>1. \A i \in passed : key[i] \in Int
      BY <1>3
    <3>2. scores \in Seq(Nat) /\ passed \in SUBSET (1..Len(scores))
      BY <1>1, <1>3
    <3> QED BY <3>1, <3>2, OrderedSelects
  <2> QED BY <2>1, <1>4
<1>6. Cardinality(passed) <= m
  <2>1. IsFiniteSet(1..m) /\ Cardinality(1..m) = m
    BY <1>1, FS_Interval
  <2> QED BY <2>1, <1>1, <1>3, FS_Subset
<1>7. /\ Successful \in [1..Len(Won) -> passed]
      /\ \A k \in 1..Len(Won) : Won[k] = scores[Successful[k]]
      /\ \A k, l \in 1..Len(Won) : Successful[k] = Successful[l] => k = l
  BY <1>5 DEF IsSelection
<1>8. DOMAIN Successful = 1..Len(Won) /\ \A k \in 1..Len(Won) : Successful[k] \in passed
  BY <1>7
<1> QED BY <1>1, <1>3, <1>5, <1>6, <1>7, <1>8 DEF scores

\* A label is looked up to the address of its first choice.
LEMMA AddressOfChoice ==
  ASSUME IsChoiceList(choices), NEW label
  PROVE  \/ AddressOf(label) = Unknown /\ \A i \in DOMAIN choices : choices[i].label # label
         \/ \E i \in DOMAIN choices :
              /\ AddressOf(label) = choices[i].address /\ choices[i].label = label
              /\ \A j \in 1..(i - 1) : choices[j].label # label
<1> DEFINE found == {i \in DOMAIN choices : choices[i].label = label}
<1>1. Len(choices) \in Nat /\ DOMAIN choices = 1..Len(choices)
  BY LenProperties DEF IsChoiceList
<1>2. CASE found = {}
  BY <1>2 DEF AddressOf
<1>3. CASE found # {}
  <2>1. found \in SUBSET (0..Len(choices))
    BY <1>1
  <2>2. First(found) \in found /\ \A j \in found : First(found) <= j
    <3> HIDE DEF found
    <3> QED BY <2>1, <1>1, <1>3, FirstIsLeast
  <2>3. AddressOf(label) = choices[First(found)].address
    BY <1>3 DEF AddressOf
  <2>4. ASSUME NEW j \in 1..(First(found) - 1) PROVE choices[j].label # label
    <3> DEFINE i == First(found)
    <3>1. i \in 1..Len(choices) /\ \A k \in found : i <= k
      BY <2>2, <1>1
    <3> HIDE DEF i
    <3>2. j \in 1..Len(choices) /\ ~(i <= j)
      <4>1. j \in 1..(i - 1)
        BY <2>4 DEF i
      <4> QED BY <4>1, <3>1, <1>1
    <3> QED BY <3>1, <3>2, <1>1
  <2> QED BY <2>2, <2>3, <2>4
<1> QED BY <1>2, <1>3

\* The first choice with a gauge's address.
LEMMA WeightOfGauge ==
  ASSUME NEW n \in Nat, NEW addresses, DOMAIN addresses = 1..n, NEW weights, NEW g
  PROVE  \/ WeightOf(addresses, weights, g) = 0 /\ \A k \in 1..n : addresses[k] # g
         \/ \E k \in 1..n : addresses[k] = g /\ WeightOf(addresses, weights, g) = weights[k]
<1> DEFINE found == {k \in DOMAIN addresses : addresses[k] = g}
<1>1. CASE found = {}
  BY <1>1 DEF WeightOf
<1>2. CASE found # {}
  <2>1. found \in SUBSET (0..n)
    OBVIOUS
  <2>2. First(found) \in found
    <3> HIDE DEF found
    <3> QED BY <2>1, <1>2, FirstIsLeast
  <2>3. WeightOf(addresses, weights, g) = weights[First(found)]
    BY <1>2 DEF WeightOf
  <2> QED BY <2>2, <2>3
<1> QED BY <1>1, <1>2

\* What a gauge has after some of the votes.
LEMMA PowerAfterVotes ==
  ASSUME PowerOK, InSendingOrder(votes), NEW n \in 0..Len(votes)
  PROVE  /\ DOMAIN PowerAfter(n) = Range(Gauges)
         /\ \A i \in 1..Len(votes) :
              PowerAfter(n)[votes[i].gauge] = IF i <= n THEN votes[i].voteWeight ELSE power[votes[i].gauge]
         /\ \A g \in Range(Gauges) : (\A i \in 1..Len(votes) : votes[i].gauge # g) => PowerAfter(n)[g] = power[g]
         /\ PowerAfter(n) \in [Range(Gauges) -> Nat]
<1> DEFINE L == Len(votes)
           cast(g) == {i \in 1..n : votes[i].gauge = g}
<1>1. L \in Nat /\ \A i \in 1..L : votes[i].gauge \in Range(Gauges) /\ votes[i].voteWeight \in Nat
  <2>1. L \in Nat /\ \A i \in 1..L : votes[i] \in VoteSet
    BY LenProperties, ElementOfSeq DEF InSendingOrder
  <2> QED BY <2>1 DEF VoteSet
<1>2. \A i, j \in 1..L : votes[i].gauge = votes[j].gauge => i = j
  BY DEF InSendingOrder
<1>3. DOMAIN power = Range(Gauges) /\ \A g \in Range(Gauges) : power[g] \in Nat
  BY DEF PowerOK
<1>4. PowerAfter(n) = [g \in Range(Gauges) |-> IF cast(g) = {} THEN power[g] ELSE votes[First(cast(g))].voteWeight]
  BY <1>3 DEF PowerAfter
<1>5. n \in Nat /\ \A i \in 1..n : i \in 1..L
  BY <1>1
<1>6. ASSUME NEW i \in 1..L
      PROVE  PowerAfter(n)[votes[i].gauge] = IF i <= n THEN votes[i].voteWeight ELSE power[votes[i].gauge]
  <2>1. CASE i <= n
    <3>1. i \in cast(votes[i].gauge)
      BY <2>1
    <3>2. \A j \in cast(votes[i].gauge) : j = i
      BY <1>2, <1>5
    <3>3. First(cast(votes[i].gauge)) = i
      <4>1. cast(votes[i].gauge) = {i}
        BY <3>1, <3>2
      <4>2. First({i}) = i
        <5>1. {i} \in SUBSET (0..L) /\ {i} # {}
          OBVIOUS
        <5>2. First({i}) \in {i}
          BY <5>1, <1>1, FirstIsLeast
        <5> QED BY <5>2
      <4> QED BY <4>1, <4>2
    <3> QED BY <3>1, <3>3, <2>1, <1>1, <1>4
  <2>2. CASE ~(i <= n)
    <3>1. cast(votes[i].gauge) = {}
      BY <2>2, <1>2, <1>5
    <3> QED BY <3>1, <2>2, <1>1, <1>4
  <2> QED BY <2>1, <2>2
<1>7. ASSUME NEW g \in Range(Gauges), \A i \in 1..L : votes[i].gauge # g PROVE PowerAfter(n)[g] = power[g]
  <2>1. cast(g) = {}
    BY <1>5, <1>7
  <2> QED BY <2>1, <1>4
<1>8. ASSUME NEW g \in Range(Gauges) PROVE PowerAfter(n)[g] \in Nat
  <2>1. CASE \A i \in 1..L : votes[i].gauge # g
    BY <2>1, <1>3, <1>7
  <2>2. CASE \E i \in 1..L : votes[i].gauge = g
    BY <2>2, <1>1, <1>3, <1>6
  <2> QED BY <2>1, <2>2
<1> HIDE DEF cast
<1>9. DOMAIN PowerAfter(n) = Range(Gauges) /\ PowerAfter(n) \in [Range(Gauges) -> Nat]
  BY <1>4, <1>8
<1> QED BY <1>6, <1>7, <1>9

\* One vote moves the power in use by what it changes.
LEMMA VoteMovesPower ==
  ASSUME PowerOK, InSendingOrder(votes)
  PROVE  /\ UsedAfter(0) <= totalVotes
         /\ \A n \in 0..Len(votes) : UsedAfter(n) \in Nat /\ UsedAfter(n) = Used(PowerAfter(n))
         /\ \A n \in 1..Len(votes) :
              UsedAfter(n) = UsedAfter(n - 1) + votes[n].voteWeight - power[votes[n].gauge]
<1> DEFINE L == Len(votes)
           G == Len(Gauges)
           entries(n) == [k \in 1..G |-> PowerAfter(n)[Gauges[k]]]
<1>1. /\ G \in Nat /\ \A k \in 1..G : Gauges[k] \in Range(Gauges)
      /\ \A j, k \in 1..G : Gauges[j] = Gauges[k] => j = k
      /\ \A g \in Range(Gauges) : \E k \in 1..G : Gauges[k] = g
  <2>1. Gauges \in Seq(Range(Gauges)) /\ IsInjective(Gauges)
    BY GaugesAssumption
  <2>2. G \in Nat /\ DOMAIN Gauges = 1..G
    BY <2>1, LenProperties
  <2> QED BY <2>1, <2>2 DEF IsInjective, Range
<1>2. L \in Nat /\ \A i \in 1..L : votes[i].gauge \in Range(Gauges) /\ votes[i].voteWeight \in Nat
  <2>1. L \in Nat /\ \A i \in 1..L : votes[i] \in VoteSet
    BY LenProperties, ElementOfSeq DEF InSendingOrder
  <2> QED BY <2>1 DEF VoteSet
<1>3. ASSUME NEW n \in 0..L
      PROVE  /\ UsedAfter(n) = SumTo(entries(n), G) /\ UsedAfter(n) \in Nat /\ UsedAfter(n) = Used(PowerAfter(n))
             /\ \A k \in 1..G : entries(n)[k] \in Nat
  <2>1. \A k \in 1..G : entries(n)[k] \in Nat
    BY <1>1, PowerAfterVotes
  <2> HIDE DEF entries
  <2>2. Len(entries(n)) = G
    BY <1>1 DEF entries
  <2>3. UsedAfter(n) = SumTo(entries(n), G)
    BY <2>2 DEF UsedAfter, Total, entries
  <2>4. G \in 0..G
    BY <1>1
  <2>5. SumTo(entries(n), G) \in Nat
    BY <2>1, <2>4, <1>1, SumToNat
  <2>6. Used(PowerAfter(n)) = SumTo(entries(n), G)
    BY DEF Used, entries
  <2> QED BY <2>1, <2>3, <2>5, <2>6
<1>4. UsedAfter(0) <= totalVotes
  <2>1. \A g \in Range(Gauges) : PowerAfter(0)[g] = power[g]
    <3>1. 0 \in 0..L
      BY <1>2
    <3>2. \A i \in 1..L : ~(i <= 0)
      OBVIOUS
    <3>3. /\ \A i \in 1..L : PowerAfter(0)[votes[i].gauge] = power[votes[i].gauge]
          /\ \A g \in Range(Gauges) : (\A i \in 1..L : votes[i].gauge # g) => PowerAfter(0)[g] = power[g]
      BY <3>1, <3>2, PowerAfterVotes
    <3> QED BY <3>3
  <2>2. entries(0) = [k \in 1..G |-> power[Gauges[k]]]
    BY <2>1, <1>1
  <2>3. 0 \in 0..L
    BY <1>2
  <2> QED BY <2>2, <2>3, <1>3 DEF PowerOK, Used
<1>5. ASSUME NEW n \in 1..L PROVE UsedAfter(n) = UsedAfter(n - 1) + votes[n].voteWeight - power[votes[n].gauge]
  <2> DEFINE g == votes[n].gauge
             a == entries(n - 1)
             b == entries(n)
  <2>1. n \in 0..L /\ n - 1 \in 0..L
    BY <1>2
  <2>2. PICK j \in 1..G : Gauges[j] = g
    BY <1>1, <1>2
  <2>3. a[j] = power[g] /\ b[j] = votes[n].voteWeight
    <3>1. PowerAfter(n)[g] = votes[n].voteWeight
      BY <2>1, PowerAfterVotes
    <3>2. ~(n <= n - 1)
      BY <1>2
    <3>3. PowerAfter(n - 1)[g] = power[g]
      BY <2>1, <3>2, PowerAfterVotes
    <3> QED BY <3>1, <3>3, <2>2
  <2>4. ASSUME NEW k \in 1..G, k # j PROVE b[k] = a[k]
    <3>1. Gauges[k] # g /\ Gauges[k] \in Range(Gauges)
      BY <1>1, <2>2, <2>4
    <3>2. PowerAfter(n)[Gauges[k]] = PowerAfter(n - 1)[Gauges[k]]
      <4>1. CASE \A i \in 1..L : votes[i].gauge # Gauges[k]
        BY <4>1, <3>1, <2>1, PowerAfterVotes
      <4>2. CASE \E i \in 1..L : votes[i].gauge = Gauges[k]
        <5>1. PICK i \in 1..L : votes[i].gauge = Gauges[k]
          BY <4>2
        <5>2. i <= n <=> i <= n - 1
          BY <5>1, <3>1, <1>2
        <5>3. PowerAfter(n)[votes[i].gauge] = IF i <= n THEN votes[i].voteWeight ELSE power[votes[i].gauge]
          BY <2>1, PowerAfterVotes
        <5>4. PowerAfter(n - 1)[votes[i].gauge] = IF i <= n - 1 THEN votes[i].voteWeight ELSE power[votes[i].gauge]
          BY <2>1, PowerAfterVotes
        <5> QED BY <5>1, <5>2, <5>3, <5>4
      <4> QED BY <4>1, <4>2
    <3> QED BY <3>2
  <2> HIDE DEF entries
  <2>5. \A k \in 1..G : a[k] \in Int /\ b[k] \in Int
    <3>1. (\A k \in 1..G : a[k] \in Nat) /\ \A k \in 1..G : b[k] \in Nat
      BY <2>1, <1>3
    <3> QED BY <3>1
  <2>6. UsedAfter(n) = SumTo(b, G) /\ UsedAfter(n - 1) = SumTo(a, G)
    BY <2>1, <1>3
  <2> HIDE DEF a, b, g
  <2>7. SumTo(b, G) = SumTo(a, G) + b[j] - a[j]
    <3>1. \A k \in 1..G : k # j => b[k] = a[k]
      BY <2>4
    <3>2. G \in Nat
      BY <1>1
    <3> HIDE DEF G
    <3> QED BY <3>1, <3>2, <2>5, SumToUpdate
  <2>8. SumTo(a, G) \in Nat /\ SumTo(b, G) \in Nat /\ a[j] \in Int /\ b[j] \in Int
    BY <2>1, <2>5, <2>6, <1>3
  <2> QED BY <2>3, <2>6, <2>7, <2>8 DEF g
<1> QED BY <1>3, <1>4, <1>5

\* When every gauge with power is voted for, the weights are all that is in use at the end.
LEMMA OnlyVotesAreLeft ==
  ASSUME PowerOK, VotesOK, \A g \in Range(Gauges) : power[g] > 0 => \E i \in 1..Len(votes) : votes[i].gauge = g
  PROVE  UsedAfter(Len(votes)) <= totalVotes
<1> DEFINE L == Len(votes)
           G == Len(Gauges)
           f == [k \in 1..G |-> PowerAfter(L)[Gauges[k]]]
           w == [i \in 1..L |-> votes[i].voteWeight]
           P == {k \in 1..G : f[k] # 0}
           h == [k \in 1..G |-> CHOOSE i \in 1..L : votes[i].gauge = Gauges[k]]
<1>0. InSendingOrder(votes)
  BY DEF VotesOK
<1>1. /\ G \in Nat /\ \A k \in 1..G : Gauges[k] \in Range(Gauges)
      /\ \A j, k \in 1..G : Gauges[j] = Gauges[k] => j = k
  <2>1. Gauges \in Seq(Range(Gauges)) /\ IsInjective(Gauges)
    BY GaugesAssumption
  <2>2. G \in Nat /\ DOMAIN Gauges = 1..G
    BY <2>1, LenProperties
  <2> QED BY <2>1, <2>2 DEF IsInjective, Range
<1>2. L \in Nat /\ L \in 0..L /\ \A i \in 1..L : votes[i].voteWeight \in Nat /\ i <= L
  <2>1. L \in Nat /\ \A i \in 1..L : votes[i] \in VoteSet
    BY <1>0, LenProperties, ElementOfSeq DEF InSendingOrder
  <2> QED BY <2>1 DEF VoteSet
<1>3. \A k \in 1..G : f[k] \in Nat
  BY <1>0, <1>1, <1>2, PowerAfterVotes
<1>4. ASSUME NEW k \in P PROVE h[k] \in 1..L /\ votes[h[k]].gauge = Gauges[k] /\ f[k] <= w[h[k]]
  <2>1. \E i \in 1..L : votes[i].gauge = Gauges[k]
    <3> SUFFICES ASSUME \A i \in 1..L : votes[i].gauge # Gauges[k] PROVE FALSE
      OBVIOUS
    <3>1. PowerAfter(L)[Gauges[k]] = power[Gauges[k]]
      BY <1>0, <1>1, <1>2, PowerAfterVotes
    <3>2. power[Gauges[k]] \in Nat /\ power[Gauges[k]] # 0
      BY <3>1, <1>1 DEF PowerOK
    <3> QED BY <3>2, <1>1
  <2>2. h[k] \in 1..L /\ votes[h[k]].gauge = Gauges[k]
    BY <2>1
  <2>3. PowerAfter(L)[votes[h[k]].gauge] = votes[h[k]].voteWeight
    BY <2>2, <1>0, <1>2, PowerAfterVotes
  <2>4. f[k] = votes[h[k]].voteWeight /\ w[h[k]] = votes[h[k]].voteWeight
    <3> HIDE DEF h
    <3> QED BY <2>2, <2>3
  <2> HIDE DEF h, f, w
  <2> QED BY <2>2, <2>4, <1>2
<1>5. \A j, k \in P : h[j] = h[k] => j = k
  <2> SUFFICES ASSUME NEW j \in P, NEW k \in P, h[j] = h[k] PROVE j = k
    OBVIOUS
  <2>1. j \in 1..G /\ k \in 1..G
    OBVIOUS
  <2>2. votes[h[j]].gauge = Gauges[j] /\ votes[h[k]].gauge = Gauges[k]
    BY <1>4
  <2> HIDE DEF h, f, P
  <2> QED BY <2>1, <2>2, <1>1
<1>6. /\ \A i \in 1..L : w[i] \in Nat
      /\ P \in SUBSET (1..G) /\ \A k \in 1..G : k \notin P => f[k] = 0
  BY <1>2
<1>7. \A k \in P : h[k] \in 1..L /\ f[k] <= w[h[k]]
  BY <1>4
<1>8. UsedAfter(L) = SumTo(f, G) /\ SumTo(w, L) <= totalVotes
  <2>1. Len(f) = G /\ Len(w) = L
    BY <1>1, <1>2
  <2>2. UsedAfter(L) = Total(f) /\ Total(w) <= totalVotes
    BY DEF UsedAfter, VotesOK
  <2> HIDE DEF f, w
  <2> QED BY <2>1, <2>2 DEF Total
<1> HIDE DEF f, w, P, h
<1>9. SumTo(f, G) <= SumTo(w, L)
  BY <1>1, <1>2, <1>3, <1>5, <1>6, <1>7, SumOverImage
<1>10. SumTo(f, G) \in Int /\ SumTo(w, L) \in Int
  <2>1. (\A k \in 1..G : f[k] \in Int) /\ \A i \in 1..L : w[i] \in Int
    BY <1>3, <1>6
  <2> QED BY <2>1, <1>1, <1>2, SumToUnfold
<1> QED BY <1>8, <1>9, <1>10 DEF totalVotes

\* Votes that only lower what is in use come first, so that no vote is refused.
LEMMA NoVoteRefused ==
  ASSUME PowerOK, VotesOK, \A g \in Range(Gauges) : power[g] > 0 => \E i \in 1..Len(votes) : votes[i].gauge = g
  PROVE  Accepted
<1> DEFINE L == Len(votes)
           d(i) == votes[i].voteWeight - power[votes[i].gauge]
           whole == totalVotes
<1>0. InSendingOrder(votes)
  BY DEF VotesOK
<1>1. L \in Nat /\ \A i \in 1..L : /\ votes[i].voteWeight \in Nat /\ power[votes[i].gauge] \in Nat
                                   /\ d(i) \in Int /\ (d(i) > 0 => votes[i].voteWeight # 0)
  <2>1. L \in Nat /\ \A i \in 1..L : votes[i] \in VoteSet
    BY <1>0, LenProperties, ElementOfSeq DEF InSendingOrder
  <2>2. \A i \in 1..L : votes[i].voteWeight \in Nat /\ power[votes[i].gauge] \in Nat
    BY <2>1 DEF VoteSet, PowerOK
  <2> QED BY <2>1, <2>2
<1>2. \A i, j \in 1..L : i < j /\ d(i) > 0 => d(i) <= d(j)
  BY <1>0, <1>1 DEF InSendingOrder
<1>3. /\ UsedAfter(0) <= whole /\ \A n \in 0..L : UsedAfter(n) \in Nat
      /\ \A n \in 1..L : UsedAfter(n) = UsedAfter(n - 1) + d(n)
  <2>1. \A n \in 1..L : UsedAfter(n) = UsedAfter(n - 1) + votes[n].voteWeight - power[votes[n].gauge]
    BY <1>0, VoteMovesPower
  <2>2. \A n \in 1..L : UsedAfter(n - 1) \in Nat
    <3>1. \A n \in 1..L : n - 1 \in 0..L
      BY <1>1
    <3> QED BY <3>1, <1>0, VoteMovesPower
  <2>3. \A n \in 1..L : UsedAfter(n) = UsedAfter(n - 1) + d(n)
    BY <2>1, <2>2, <1>1
  <2> QED BY <2>3, <1>0, VoteMovesPower
<1>4. UsedAfter(L) <= whole
  BY OnlyVotesAreLeft
<1>5. whole \in Nat
  BY DEF totalVotes
<1> HIDE DEF d, whole, L
<1>6. ASSUME NEW n \in 1..L PROVE UsedAfter(n) <= whole
  <2>1. CASE \A i \in 1..n : d(i) <= 0
    <3> DEFINE S == {k \in 0..n : UsedAfter(k) <= whole}
    <3>1. 0 \in S
      BY <1>3
    <3>2. ASSUME NEW k \in 0..n, k \in S, k < n PROVE k + 1 \in S
      <4>1. k + 1 \in 1..n /\ k + 1 \in 1..L /\ k \in 0..L /\ k + 1 \in 0..n /\ (k + 1) - 1 = k
        BY <1>1, <3>2
      <4>2. d(k + 1) <= 0 /\ d(k + 1) \in Int /\ UsedAfter(k) \in Nat /\ UsedAfter(k + 1) = UsedAfter(k) + d(k + 1)
        BY <4>1, <2>1, <1>1, <1>3
      <4>3. UsedAfter(k) <= whole
        BY <3>2
      <4>4. UsedAfter(k + 1) <= whole
        <5> HIDE DEF S
        <5> QED BY <4>2, <4>3, <1>5
      <4> QED BY <4>1, <4>4
    <3> HIDE DEF S
    <3>3. 0..n \subseteq S
      BY <3>1, <3>2, BoundedInduction
    <3> QED BY <3>3 DEF S
  <2>2. CASE \E i \in 1..n : d(i) > 0
    <3>1. PICK i \in 1..n : d(i) > 0
      <4>1. \E i \in 1..n : d(i) > 0
        BY <2>2
      <4> QED BY <4>1
    <3>2. i \in 1..L /\ d(i) \in Int
      BY <1>1
    <3> DEFINE S == {k \in 0..L : k >= n => UsedAfter(n) <= UsedAfter(k)}
    <3>3. 0 \in S
      BY <1>1
    <3>4. ASSUME NEW k \in 0..L, k \in S, k < L PROVE k + 1 \in S
      <4>1. k + 1 \in 1..L /\ k + 1 \in 0..L /\ n \in 0..L /\ (k + 1) - 1 = k
        BY <1>1, <3>4
      <4>2. CASE k + 1 <= n
        <5>1. k + 1 >= n => k + 1 = n
          BY <4>2, <4>1
        <5>2. UsedAfter(n) <= UsedAfter(n)
          BY <4>1, <1>3
        <5> QED BY <4>1, <5>1, <5>2
      <4>3. CASE k >= n
        <5>1. d(i) <= d(k + 1) /\ d(k + 1) \in Int
          <6>1. i < k + 1
            BY <4>3
          <6> QED BY <6>1, <4>1, <3>1, <3>2, <1>1, <1>2
        <5>2. UsedAfter(k + 1) = UsedAfter(k) + d(k + 1) /\ UsedAfter(k) \in Nat /\ UsedAfter(n) \in Nat
          BY <4>1, <1>3
        <5>3. UsedAfter(n) <= UsedAfter(k)
          BY <3>4, <4>3
        <5>4. UsedAfter(n) <= UsedAfter(k + 1)
          <6> HIDE DEF S
          <6> QED BY <5>1, <5>2, <5>3, <3>1, <3>2
        <5> QED BY <4>1, <5>4
      <4> QED BY <4>1, <4>2, <4>3
    <3> HIDE DEF S
    <3>5. 0..L \subseteq S
      BY <3>3, <3>4, <1>1, BoundedInduction
    <3>6. UsedAfter(n) <= UsedAfter(L) /\ UsedAfter(n) \in Nat /\ UsedAfter(L) \in Nat
      <4>1. L \in S /\ n \in 0..L /\ L \in 0..L /\ L >= n
        BY <3>5, <1>1
      <4>2. UsedAfter(n) <= UsedAfter(L)
        BY <4>1 DEF S
      <4> QED BY <4>1, <4>2, <1>3
    <3> QED BY <3>6, <1>4, <1>5
  <2>3. \A i \in 1..n : d(i) <= 0 \/ d(i) > 0
    BY <1>1
  <2> QED BY <2>1, <2>2, <2>3
<1> QED BY <1>6 DEF Accepted, whole, L

\* What VotesOK says of printed votes is all that the controller needs.
LEMMA PrintedVotesPass ==
  ASSUME VotesInv
  PROVE  VotesAccepted
<1> SUFFICES ASSUME Powered \subseteq Range(source.gauges) PROVE Accepted
  BY DEF VotesAccepted
<1>1. CASE votes = <<>>
  <2>1. Len(votes) = 0
    BY <1>1
  <2>2. 1..Len(votes) = {}
    BY <2>1
  <2> QED BY <2>2 DEF Accepted
<1>2. CASE votes # <<>>
  <2>1. \A g \in Range(Gauges) : power[g] > 0 => g \in Range(source.gauges)
    BY DEF Powered, VotesInv, PowerOK
  <2>2. \A g \in Range(Gauges) : power[g] > 0 => \E i \in 1..Len(votes) : votes[i].gauge = g
    BY <2>1, <1>2 DEF VotesInv, VotesOK
  <2> QED BY <2>2, NoVoteRefused DEF VotesInv
<1> QED BY <1>1, <1>2

DistinctVotes(vs) ==
  /\ vs \in Seq(VoteSet)
  /\ \A i, j \in 1..Len(vs) : vs[i].gauge = vs[j].gauge => i = j
SameVotes(vs, ws) ==
  /\ \A i \in 1..Len(vs) : \E k \in 1..Len(ws) : ws[k] = vs[i]
  /\ \A k \in 1..Len(ws) : \E i \in 1..Len(vs) : ws[k] = vs[i]

\* The first sort keeps the votes.
LEMMA VotesSorted ==
  ASSUME NEW vs, DistinctVotes(vs)
  PROVE  LET sorted == SortedBy(vs, Changes(vs))
         IN  /\ DistinctVotes(sorted) /\ SameVotes(vs, sorted)
             /\ \A k, l \in 1..Len(sorted) : k < l => sorted[k].voteDelta <= sorted[l].voteDelta
<1> DEFINE D == 1..Len(vs)
           key == Changes(vs)
           p == Ordered(D, key)
           sorted == At(vs, p)
           n == Len(sorted)
<1>1. vs \in Seq(VoteSet) /\ DOMAIN vs = D /\ D \in SUBSET (1..Len(vs)) /\ \A i \in D : vs[i] \in VoteSet
  BY LenProperties, ElementOfSeq DEF DistinctVotes
<1>2. \A i \in D : key[i] = vs[i].voteDelta /\ key[i] \in Int
  BY <1>1 DEF Changes, VoteSet
<1>3. SortedBy(vs, Changes(vs)) = sorted
  BY <1>1 DEF SortedBy
<1> HIDE DEF key
<1>4. /\ sorted \in Seq(VoteSet) /\ n \in Nat
      /\ IsSelection(sorted, vs, D, p)
      /\ \A k, l \in 1..n : k < l => key[p[k]] <= key[p[l]]
  <2>1. LET out == At(vs, Ordered(D, key))
            q == Ordered(D, key)
        IN  /\ out \in Seq(VoteSet) /\ Len(out) \in Nat /\ Len(out) = Len(q) /\ Len(out) = Cardinality(D) /\ DOMAIN out = 1..Len(out)
            /\ IsSelection(out, vs, D, q)
            /\ \A k, l \in 1..Len(out) : k < l => key[q[k]] <= key[q[l]]
    <3>1. \A i \in D : key[i] \in Int
      BY <1>2
    <3>2. vs \in Seq(VoteSet) /\ D \in SUBSET (1..Len(vs))
      BY <1>1
    <3> HIDE DEF D
    <3> QED BY <3>1, <3>2, OrderedSelects
  <2> QED BY <2>1
<1> HIDE DEF sorted, p
<1>5. /\ \A k \in 1..n : p[k] \in D /\ sorted[k] = vs[p[k]]
      /\ \A i \in D : \E k \in 1..n : p[k] = i
      /\ \A k, l \in 1..n : p[k] = p[l] => k = l
  BY <1>4 DEF IsSelection
<1>6. \A k, l \in 1..n : sorted[k].gauge = sorted[l].gauge => k = l
  <2> SUFFICES ASSUME NEW k \in 1..n, NEW l \in 1..n, sorted[k].gauge = sorted[l].gauge PROVE k = l
    OBVIOUS
  <2>1. p[k] \in 1..Len(vs) /\ p[l] \in 1..Len(vs) /\ vs[p[k]].gauge = vs[p[l]].gauge
    BY <1>5
  <2>2. p[k] = p[l]
    BY <2>1 DEF DistinctVotes
  <2> QED BY <2>2, <1>5
<1>7. \A k, l \in 1..n : k < l => sorted[k].voteDelta <= sorted[l].voteDelta
  <2> SUFFICES ASSUME NEW k \in 1..n, NEW l \in 1..n, k < l PROVE sorted[k].voteDelta <= sorted[l].voteDelta
    OBVIOUS
  <2>1. key[p[k]] <= key[p[l]]
    BY <1>4
  <2>2. key[p[k]] = sorted[k].voteDelta /\ key[p[l]] = sorted[l].voteDelta
    <3>1. p[k] \in D /\ p[l] \in D /\ sorted[k] = vs[p[k]] /\ sorted[l] = vs[p[l]]
      BY <1>5
    <3> HIDE DEF D
    <3> QED BY <3>1, <1>2
  <2> QED BY <2>1, <2>2
<1>8. SameVotes(vs, sorted)
  BY <1>5 DEF SameVotes
<1>9. DistinctVotes(sorted)
  BY <1>4, <1>6 DEF DistinctVotes
<1> QED BY <1>3, <1>7, <1>8, <1>9

\* The second sort puts the resets first and keeps the order of the other votes.
LEMMA VotesInOrder ==
  ASSUME PowerOK, NEW vs, DistinctVotes(vs),
         \A i \in 1..Len(vs) : vs[i].voteWeight # 0 => vs[i].voteDelta = vs[i].voteWeight - power[vs[i].gauge]
  PROVE  InSendingOrder(InOrder(vs)) /\ SameVotes(vs, InOrder(vs))
<1> DEFINE sorted == SortedBy(vs, Changes(vs))
           n == Len(sorted)
           R == {i \in DOMAIN sorted : sorted[i].voteWeight = 0}
           K == {i \in DOMAIN sorted : sorted[i].voteWeight # 0}
           resets == Filtered(sorted, R)
           kept == Filtered(sorted, K)
           a == Len(resets)
           b == Len(kept)
           first == [k \in 1..a |-> resets[a + 1 - k]]
           out == InOrder(vs)
<1>1. /\ DistinctVotes(sorted) /\ SameVotes(vs, sorted)
      /\ \A k, l \in 1..n : k < l => sorted[k].voteDelta <= sorted[l].voteDelta
  BY VotesSorted
<1>2. out = first \o kept
  BY DEF InOrder
<1> HIDE DEF sorted
<1>3. sorted \in Seq(VoteSet) /\ n \in Nat /\ DOMAIN sorted = 1..n /\ \A i, j \in 1..n : sorted[i].gauge = sorted[j].gauge => i = j
  BY <1>1, LenProperties DEF DistinctVotes
<1>4. R \in SUBSET (1..Len(sorted)) /\ K \in SUBSET (1..Len(sorted)) /\ (\A i \in 1..n : i \in R \/ i \in K)
      /\ (\A i \in R : sorted[i].voteWeight = 0) /\ \A i \in K : sorted[i].voteWeight # 0
  BY <1>3
<1> HIDE DEF R, K, n
<1>5. resets \in Seq(VoteSet) /\ a \in Nat /\ \E p : IsSelection(resets, sorted, R, p)
  BY <1>3, <1>4, FilteredSelects
<1>6. kept \in Seq(VoteSet) /\ b \in Nat /\ \E p : IsSelection(kept, sorted, K, p) /\ \A k, l \in 1..b : k < l => p[k] < p[l]
  BY <1>3, <1>4, FilteredSelects
<1> HIDE DEF resets, kept
<1>7. PICK p : IsSelection(resets, sorted, R, p)
  BY <1>5
<1>8. PICK q : IsSelection(kept, sorted, K, q) /\ \A k, l \in 1..b : k < l => q[k] < q[l]
  BY <1>6
<1>9. \A k \in 1..a : a + 1 - k \in 1..a /\ a + 1 - (a + 1 - k) = k
  BY <1>5
<1>10. \A k \in 1..a : resets[k] \in VoteSet
  BY <1>5, ElementOfSeq
<1>11. first \in Seq(VoteSet) /\ Len(first) = a
  <2>1. first \in [1..a -> VoteSet]
    BY <1>9, <1>10
  <2> HIDE DEF a, first
  <2> QED BY <2>1, <1>5 DEF a
<1>12. out \in Seq(VoteSet) /\ Len(out) = a + b
       /\ \A k \in 1..(a + b) : out[k] = IF k <= a THEN first[k] ELSE kept[k - a]
  <2> HIDE DEF first, out
  <2>1. first \in Seq(VoteSet) /\ kept \in Seq(VoteSet)
    BY <1>6, <1>11
  <2>2. /\ first \o kept \in Seq(VoteSet) /\ Len(first \o kept) = Len(first) + Len(kept)
        /\ \A i \in 1..(Len(first) + Len(kept)) :
             (first \o kept)[i] = IF i <= Len(first) THEN first[i] ELSE kept[i - Len(first)]
    BY <2>1, ConcatProperties
  <2> QED BY <2>2, <1>2, <1>11
<1>13. \A k \in 1..a : p[k] \in R /\ p[k] \in 1..n /\ resets[k] = sorted[p[k]]
  BY <1>7, <1>4 DEF IsSelection, n
<1>14. \A k \in 1..b : q[k] \in K /\ q[k] \in 1..n /\ kept[k] = sorted[q[k]]
  BY <1>8, <1>4 DEF IsSelection, n
\* Where in the sorted list a vote comes from.
<1> DEFINE from(k) == IF k <= a THEN p[a + 1 - k] ELSE q[k - a]
<1>15. ASSUME NEW k \in 1..(a + b)
       PROVE  /\ from(k) \in 1..n /\ out[k] = sorted[from(k)]
              /\ k <= a => from(k) = p[a + 1 - k] /\ a + 1 - k \in 1..a
              /\ ~(k <= a) => from(k) = q[k - a] /\ k - a \in 1..b
              /\ out[k].voteWeight # 0 <=> ~(k <= a)
  <2>1. CASE k <= a
    <3>1. k \in 1..a /\ a + 1 - k \in 1..a
      BY <2>1, <1>5
    <3>2. out[k] = resets[a + 1 - k]
      <4>1. out[k] = first[k]
        <5> HIDE DEF out, first
        <5> QED BY <2>1, <1>12
      <4> QED BY <4>1, <3>1
    <3> HIDE DEF out
    <3> QED BY <3>1, <3>2, <2>1, <1>4, <1>13
  <2>2. CASE ~(k <= a)
    <3>1. k - a \in 1..b
      BY <2>2, <1>5, <1>6
    <3>2. out[k] = kept[k - a]
      <4> HIDE DEF out, first
      <4> QED BY <2>2, <1>12
    <3> HIDE DEF out
    <3> QED BY <3>1, <3>2, <2>2, <1>4, <1>14
  <2> QED BY <2>1, <2>2
<1>16. /\ \A k, l \in 1..a : p[k] = p[l] => k = l
       /\ \A k, l \in 1..b : q[k] = q[l] => k = l
       /\ \A i \in R : \E k \in 1..a : p[k] = i
       /\ \A i \in K : \E k \in 1..b : q[k] = i
  BY <1>7, <1>8 DEF IsSelection
<1>17. ASSUME NEW k \in 1..(a + b), NEW l \in 1..(a + b), from(k) = from(l) PROVE k = l
  <2>1. k <= a <=> l <= a
    <3>1. out[k] = out[l]
      BY <1>15, <1>17
    <3> HIDE DEF out, from
    <3> QED BY <3>1, <1>15
  <2>2. CASE k <= a
    <3>1. a + 1 - k = a + 1 - l
      <4>1. a + 1 - k \in 1..a /\ a + 1 - l \in 1..a /\ p[a + 1 - k] = p[a + 1 - l]
        BY <2>1, <2>2, <1>15, <1>17
      <4> QED BY <4>1, <1>16
    <3> QED BY <3>1, <1>5
  <2>3. CASE ~(k <= a)
    <3>1. k - a = l - a
      <4>1. k - a \in 1..b /\ l - a \in 1..b /\ q[k - a] = q[l - a]
        BY <2>1, <2>3, <1>15, <1>17
      <4> QED BY <4>1, <1>16
    <3> QED BY <3>1, <1>5
  <2> QED BY <2>2, <2>3
<1> HIDE DEF out, first
<1>18. ASSUME NEW i \in 1..n PROVE \E k \in 1..(a + b) : out[k] = sorted[i]
  <2>1. CASE i \in R
    <3>1. PICK m \in 1..a : p[m] = i
      BY <2>1, <1>16
    <3>2. a + 1 - m \in 1..(a + b) /\ a + 1 - m <= a /\ a + 1 - (a + 1 - m) = m
      BY <1>5, <1>6
    <3>3. out[a + 1 - m] = sorted[from(a + 1 - m)] /\ from(a + 1 - m) = p[a + 1 - (a + 1 - m)]
      BY <3>2, <1>15
    <3> QED BY <3>1, <3>2, <3>3
  <2>2. CASE i \in K
    <3>1. PICK m \in 1..b : q[m] = i
      BY <2>2, <1>16
    <3>2. a + m \in 1..(a + b) /\ ~(a + m <= a) /\ (a + m) - a = m
      BY <1>5, <1>6
    <3>3. out[a + m] = sorted[from(a + m)] /\ from(a + m) = q[(a + m) - a]
      BY <3>2, <1>15
    <3> QED BY <3>1, <3>2, <3>3
  <2> QED BY <2>1, <2>2, <1>4
<1>19. SameVotes(vs, out)
  <2>1. /\ \A i \in 1..Len(vs) : \E k \in 1..n : sorted[k] = vs[i]
        /\ \A k \in 1..n : \E i \in 1..Len(vs) : sorted[k] = vs[i]
    BY <1>1 DEF SameVotes, n
  <2>2. \A k \in 1..Len(out) : from(k) \in 1..n /\ out[k] = sorted[from(k)]
    BY <1>12, <1>15
  <2>3. \A i \in 1..n : \E k \in 1..Len(out) : out[k] = sorted[i]
    BY <1>12, <1>18
  <2> HIDE DEF from
  <2>4. ASSUME NEW i \in 1..Len(vs) PROVE \E k \in 1..Len(out) : out[k] = vs[i]
    <3>1. PICK j \in 1..n : sorted[j] = vs[i]
      BY <2>1
    <3> QED BY <3>1, <2>3
  <2>5. ASSUME NEW k \in 1..Len(out) PROVE \E i \in 1..Len(vs) : out[k] = vs[i]
    BY <2>1, <2>2
  <2> QED BY <2>4, <2>5 DEF SameVotes
<1>20. ASSUME NEW i \in 1..Len(out), NEW j \in 1..Len(out), out[i].gauge = out[j].gauge PROVE i = j
  <2>1. i \in 1..(a + b) /\ j \in 1..(a + b)
    BY <1>12
  <2>2. from(i) = from(j)
    <3>1. from(i) \in 1..n /\ from(j) \in 1..n /\ sorted[from(i)].gauge = sorted[from(j)].gauge
      BY <2>1, <1>15, <1>20
    <3> HIDE DEF from
    <3> QED BY <3>1, <1>3
  <2> QED BY <2>1, <2>2, <1>17
<1>21. \A k \in 1..Len(out) : out[k].voteWeight # 0 => out[k].voteDelta = out[k].voteWeight - power[out[k].gauge]
  BY <1>19 DEF SameVotes
<1>22. ASSUME NEW i \in 1..Len(out), NEW j \in 1..Len(out), i < j, out[i].voteWeight # 0
       PROVE  /\ out[j].voteWeight # 0
              /\ out[i].voteWeight - power[out[i].gauge] <= out[j].voteWeight - power[out[j].gauge]
  <2>1. i \in 1..(a + b) /\ j \in 1..(a + b)
    BY <1>12
  <2>2. ~(i <= a) /\ ~(j <= a)
    BY <2>1, <1>5, <1>15, <1>22
  <2>3. out[j].voteWeight # 0
    BY <2>1, <2>2, <1>15
  <2>4. from(i) = q[i - a] /\ from(j) = q[j - a] /\ i - a \in 1..b /\ j - a \in 1..b
    BY <2>1, <2>2, <1>15
  <2>5. i - a < j - a
    BY <2>1, <1>5, <1>22
  <2>6. from(i) < from(j)
    BY <2>4, <2>5, <1>8
  <2>7. out[i].voteDelta <= out[j].voteDelta
    <3>1. from(i) \in 1..n /\ from(j) \in 1..n /\ out[i] = sorted[from(i)] /\ out[j] = sorted[from(j)]
      BY <2>1, <1>15
    <3> HIDE DEF from
    <3> QED BY <3>1, <2>6, <1>1 DEF n
  <2> QED BY <2>3, <2>7, <1>21, <1>22
<1>23. InSendingOrder(out)
  BY <1>12, <1>20, <1>22 DEF InSendingOrder
<1> QED BY <1>19, <1>23 DEF out

\* What the successful choices are worth.
LEMMA WeightsWon ==
  ASSUME ProposalOK, Len(Successful) > 0
  PROVE  LET n == Len(Successful)
         IN  /\ n \in Nat /\ DOMAIN Addresses = 1..n
             /\ \A k \in 1..n : Addresses[k] = AddressOf(proposal.choices[Successful[k]])
             /\ Weights(Won) \in [1..n -> Nat] /\ SumTo(Weights(Won), n) = totalVotes
             /\ \A k \in 1..n :
                  Weights(Won)[k] * Total(Won) <= (Won[k] * totalVotes) + (n * Total(Won))
<1>1. /\ Len(Successful) \in Nat /\ Won \in Seq(Nat) /\ Len(Won) = Len(Successful)
      /\ \A k \in 1..Len(Successful) : Won[k] > 0
  BY SuccessfulType
<1>2. DOMAIN Addresses = 1..Len(Successful)
      /\ \A k \in 1..Len(Successful) : Addresses[k] = AddressOf(proposal.choices[Successful[k]])
  BY DEF Addresses
<1>3. /\ Weights(Won) \in [1..Len(Won) -> Nat]
      /\ SumTo(Weights(Won), Len(Won)) = totalVotes
      /\ \A k \in 1..Len(Won) :
           Weights(Won)[k] * Total(Won) <= (Won[k] * totalVotes) + (Len(Won) * Total(Won))
  BY <1>1, WeightsAddUp
<1> QED BY <1>1, <1>2, <1>3

\* The printed votes are for gauges of the list, each with its own weight.
LEMMA VotesPrinted ==
  ASSUME IsGaugeList(snapshot), ProposalOK, PowerOK, Len(Successful) > 0
  PROVE  /\ InSendingOrder(Votes)
         /\ \A i \in 1..Len(Votes) : /\ Votes[i].gauge \in Range(snapshot)
                                     /\ Votes[i].voteWeight = WeightOf(Addresses, Weights(Won), Votes[i].gauge)
         /\ \A g \in Range(snapshot) :
              g \in Range(Addresses) \/ power[g] > 0 => \E i \in 1..Len(Votes) : Votes[i].gauge = g
<1> DEFINE n == Len(Successful)
           weights == Weights(Won)
           weight(g) == WeightOf(Addresses, weights, g)
           V == {i \in DOMAIN snapshot : snapshot[i] \in Range(Addresses) \/ power[snapshot[i]] > 0}
           voted == Filtered(snapshot, V)
           VoteFor(g) == [gauge |-> g, voteWeight |-> weight(g),
                          voteDelta |-> IF g \in Range(Addresses) THEN weight(g) - power[g] ELSE power[g]]
           vs == [k \in 1..Len(voted) |-> VoteFor(voted[k])]
<1>1. n \in Nat /\ DOMAIN Addresses = 1..n /\ weights \in [1..n -> Nat]
  BY WeightsWon
<1>2. snapshot \in Seq(Range(Gauges)) /\ IsInjective(snapshot) /\ DOMAIN snapshot = 1..Len(snapshot)
      /\ Range(snapshot) \subseteq Range(Gauges)
  <2>1. snapshot \in Seq(Range(Gauges)) /\ IsInjective(snapshot)
    BY DEF IsGaugeList
  <2>2. DOMAIN snapshot = 1..Len(snapshot) /\ \A i \in 1..Len(snapshot) : snapshot[i] \in Range(Gauges)
    BY <2>1, LenProperties, ElementOfSeq
  <2> QED BY <2>1, <2>2 DEF Range
<1>3. V \in SUBSET (1..Len(snapshot))
  BY <1>2
<1>4. /\ \A g : g \in Range(voted) <=> \E i \in V : snapshot[i] = g
      /\ IsInjective(voted)
  <2> HIDE DEF V
  <2> QED BY <1>2, <1>3, FilteredRange
<1>5. voted \in Seq(Range(Gauges)) /\ Len(voted) \in Nat /\ DOMAIN voted = 1..Len(voted)
  <2> HIDE DEF V
  <2> QED BY <1>2, <1>3, FilteredSelects
<1>6. \A g : g \in Range(voted) <=> g \in Range(snapshot) /\ (g \in Range(Addresses) \/ power[g] > 0)
  BY <1>4 DEF Range
<1>7. Votes = InOrder(vs)
  BY DEF Votes
<1> HIDE DEF V, voted, weights
<1>8. ASSUME NEW g \in Range(Gauges)
      PROVE  /\ VoteFor(g) \in VoteSet /\ VoteFor(g).gauge = g /\ VoteFor(g).voteWeight = weight(g)
             /\ weight(g) # 0 => VoteFor(g).voteDelta = weight(g) - power[g]
  <2>1. \/ weight(g) = 0 /\ \A k \in 1..n : Addresses[k] # g
        \/ \E k \in 1..n : Addresses[k] = g /\ weight(g) = weights[k]
    <3> HIDE DEF n
    <3> QED BY <1>1, WeightOfGauge
  <2>2. weight(g) \in Nat /\ (weight(g) # 0 => g \in Range(Addresses))
    BY <2>1, <1>1 DEF Range
  <2>3. power[g] \in Nat
    BY DEF PowerOK
  <2> HIDE DEF weight
  <2> QED BY <2>2, <2>3 DEF VoteSet
<1>9. \A k \in 1..Len(voted) : voted[k] \in Range(Gauges) /\ voted[k] \in Range(voted)
  BY <1>5, ElementOfSeq DEF Range
<1>10. Len(vs) = Len(voted) /\ \A k \in 1..Len(voted) : vs[k] = VoteFor(voted[k])
  BY <1>5
<1>11. vs \in Seq(VoteSet)
  <2>1. vs \in [1..Len(voted) -> VoteSet]
    <3> HIDE DEF VoteFor
    <3> QED BY <1>8, <1>9
  <2> HIDE DEF vs
  <2> QED BY <2>1, <1>5
<1> HIDE DEF vs
<1>12. ASSUME NEW i \in 1..Len(vs), NEW j \in 1..Len(vs), vs[i].gauge = vs[j].gauge PROVE i = j
  <2>1. voted[i] = voted[j] /\ i \in 1..Len(voted) /\ j \in 1..Len(voted)
    <3> HIDE DEF VoteFor
    <3> QED BY <1>8, <1>9, <1>10, <1>12
  <2> QED BY <2>1, <1>4, <1>5 DEF IsInjective
<1>13. ASSUME NEW k \in 1..Len(vs)
       PROVE  /\ vs[k].gauge = voted[k] /\ vs[k].voteWeight = weight(vs[k].gauge) /\ k \in 1..Len(voted)
              /\ vs[k].voteWeight # 0 => vs[k].voteDelta = vs[k].voteWeight - power[vs[k].gauge]
  <2> HIDE DEF VoteFor, weight
  <2> QED BY <1>8, <1>9, <1>10
<1>14. DistinctVotes(vs)
  BY <1>11, <1>12 DEF DistinctVotes
<1>15. InSendingOrder(InOrder(vs)) /\ SameVotes(vs, InOrder(vs))
  BY <1>13, <1>14, VotesInOrder
<1>16. ASSUME NEW i \in 1..Len(Votes)
       PROVE  Votes[i].gauge \in Range(snapshot) /\ Votes[i].voteWeight = weight(Votes[i].gauge)
  <2>1. PICK k \in 1..Len(vs) : Votes[i] = vs[k]
    BY <1>7, <1>15 DEF SameVotes
  <2>2. vs[k].gauge \in Range(voted)
    BY <1>9, <1>13
  <2> HIDE DEF weight
  <2> QED BY <2>1, <2>2, <1>6, <1>13
<1>17. ASSUME NEW g \in Range(snapshot), g \in Range(Addresses) \/ power[g] > 0 PROVE \E i \in 1..Len(Votes) : Votes[i].gauge = g
  <2>1. PICK k \in 1..Len(voted) : voted[k] = g
    BY <1>5, <1>6, <1>17 DEF Range
  <2>2. k \in 1..Len(vs) /\ vs[k].gauge = g
    BY <2>1, <1>10, <1>13
  <2>3. PICK i \in 1..Len(Votes) : Votes[i] = vs[k]
    BY <2>2, <1>7, <1>15 DEF SameVotes
  <2> QED BY <2>2, <2>3
<1> QED BY <1>7, <1>15, <1>16, <1>17 DEF weights

PrintedWeights == [i \in 1..Len(Votes) |-> Votes[i].voteWeight]

\* A printed weight is that of a successful choice, if it is not 0.
LEMMA WeightIsWon ==
  ASSUME IsGaugeList(snapshot), ProposalOK, PowerOK, Len(Successful) > 0, NEW i \in 1..Len(Votes)
  PROVE  /\ Votes[i].voteWeight \in Nat /\ Votes[i].gauge \in Range(Gauges)
         /\ Votes[i].voteWeight # 0 =>
              \E k \in 1..Len(Successful) :
                Addresses[k] = Votes[i].gauge /\ Votes[i].voteWeight = Weights(Won)[k]
<1> DEFINE n == Len(Successful)
           g == Votes[i].gauge
           weights == Weights(Won)
<1>1. n \in Nat /\ DOMAIN Addresses = 1..n
  BY WeightsWon
<1>2. Votes[i].voteWeight = WeightOf(Addresses, weights, g)
  BY VotesPrinted
<1>3. Votes[i] \in VoteSet
  <2>1. Votes \in Seq(VoteSet)
    BY VotesPrinted DEF InSendingOrder
  <2> QED BY <2>1, ElementOfSeq
<1>4. \/ WeightOf(Addresses, weights, g) = 0 /\ \A k \in 1..n : Addresses[k] # g
      \/ \E k \in 1..n : Addresses[k] = g /\ WeightOf(Addresses, weights, g) = weights[k]
  <2> HIDE DEF n, g, weights
  <2> QED BY <1>1, WeightOfGauge
<1> QED BY <1>2, <1>3, <1>4 DEF VoteSet

\* The printed weights are at most the whole power,
LEMMA WeightsAreWithin ==
  ASSUME IsGaugeList(snapshot), ProposalOK, PowerOK, Len(Successful) > 0
  PROVE  /\ Len(Votes) \in Nat /\ SumTo(PrintedWeights, Len(Votes)) \in Nat
         /\ Total(PrintedWeights) = SumTo(PrintedWeights, Len(Votes))
         /\ SumTo(PrintedWeights, Len(Votes)) <= totalVotes
<1> DEFINE n == Len(Successful)
           m == Len(Votes)
           f == PrintedWeights
           w == Weights(Won)
           P == {i \in 1..m : f[i] # 0}
           h == [i \in 1..m |-> CHOOSE k \in 1..n : Addresses[k] = Votes[i].gauge /\ f[i] = w[k]]
<1>1. n \in Nat /\ w \in [1..n -> Nat] /\ SumTo(w, n) = totalVotes
  BY WeightsWon
<1>2. m \in Nat /\ \A i, j \in 1..m : Votes[i].gauge = Votes[j].gauge => i = j
  BY VotesPrinted, LenProperties DEF InSendingOrder
<1>3. Len(f) = m /\ \A i \in 1..m : f[i] = Votes[i].voteWeight
  BY <1>2 DEF PrintedWeights
<1> HIDE DEF f, m, n, w
<1>4. \A i \in 1..m : f[i] \in Nat
  BY <1>3, WeightIsWon DEF m
<1>5. ASSUME NEW i \in P PROVE h[i] \in 1..n /\ Addresses[h[i]] = Votes[i].gauge /\ f[i] <= w[h[i]]
  <2>1. \E k \in 1..n : Addresses[k] = Votes[i].gauge /\ f[i] = w[k]
    <3>1. i \in 1..m /\ Votes[i].voteWeight # 0 /\ f[i] = Votes[i].voteWeight
      BY <1>3
    <3> QED BY <3>1, WeightIsWon DEF m, n, w
  <2>2. h[i] \in 1..n /\ Addresses[h[i]] = Votes[i].gauge /\ f[i] = w[h[i]]
    BY <2>1
  <2>3. i \in 1..m
    OBVIOUS
  <2> HIDE DEF h
  <2> QED BY <2>2, <2>3, <1>4
<1>6. \A i, j \in P : h[i] = h[j] => i = j
  <2> SUFFICES ASSUME NEW i \in P, NEW j \in P, h[i] = h[j] PROVE i = j
    OBVIOUS
  <2>1. i \in 1..m /\ j \in 1..m
    OBVIOUS
  <2>2. Addresses[h[i]] = Votes[i].gauge /\ Addresses[h[j]] = Votes[j].gauge
    BY <1>5
  <2> HIDE DEF h, P
  <2> QED BY <2>1, <2>2, <1>2
<1>7. P \in SUBSET (1..m) /\ \A i \in 1..m : i \notin P => f[i] = 0
  OBVIOUS
<1>8. \A k \in 1..n : w[k] \in Nat
  BY <1>1
<1>9. \A i \in P : h[i] \in 1..n /\ f[i] <= w[h[i]]
  BY <1>5
<1> HIDE DEF h, P
<1>10. SumTo(f, m) <= SumTo(w, n)
  BY <1>1, <1>2, <1>4, <1>6, <1>7, <1>8, <1>9, SumOverImage
<1>11. SumTo(f, m) \in Nat
  <2>1. m \in 0..m
    BY <1>2
  <2> QED BY <2>1, <1>2, <1>4, SumToNat
<1>12. Total(f) = SumTo(f, m)
  BY <1>3 DEF Total
<1> QED BY <1>1, <1>2, <1>10, <1>11, <1>12 DEF f, m

\* and they are all of it when every successful choice is the only one with its label and the
\* label leads to a listed gauge.
WholeIsPrinted ==
  LET Found(label) == \E k \in DOMAIN choices :
                        /\ choices[k].label = label /\ choices[k].address \in Range(snapshot)
                        /\ \A j \in 1..(k - 1) : choices[j].label # label
  IN  \/ Total(PrintedWeights) = totalVotes
      \/ \E i \in Range(Successful) :
           \/ ~Found(proposal.choices[i])
           \/ \E j \in DOMAIN proposal.choices \ {i} : proposal.choices[j] = proposal.choices[i]
LEMMA WeightsAreAll ==
  ASSUME IsGaugeList(snapshot), IsChoiceList(choices), ProposalOK, PowerOK, Len(Successful) > 0
  PROVE  WholeIsPrinted
<1> DEFINE n == Len(Successful)
           m == Len(Votes)
           f == PrintedWeights
           w == Weights(Won)
           Found(label) == \E k \in DOMAIN choices :
                             /\ choices[k].label = label /\ choices[k].address \in Range(snapshot)
                             /\ \A j \in 1..(k - 1) : choices[j].label # label
           h == [k \in 1..n |-> CHOOSE i \in 1..m : Votes[i].gauge = Addresses[k]]
<1> SUFFICES ASSUME \A i \in Range(Successful) :
                      /\ Found(proposal.choices[i])
                      /\ \A j \in DOMAIN proposal.choices \ {i} : proposal.choices[j] # proposal.choices[i]
             PROVE  Total(f) = totalVotes
  BY DEF WholeIsPrinted
<1>1. /\ n \in Nat /\ w \in [1..n -> Nat] /\ SumTo(w, n) = totalVotes /\ DOMAIN Addresses = 1..n
      /\ \A k \in 1..n : Addresses[k] = AddressOf(proposal.choices[Successful[k]])
  BY WeightsWon
<1>2. /\ m \in Nat /\ SumTo(f, m) \in Nat /\ Total(f) = SumTo(f, m) /\ SumTo(f, m) <= totalVotes
  BY WeightsAreWithin
<1>3. /\ \A k \in 1..n : Successful[k] \in Range(Successful) /\ Successful[k] \in DOMAIN proposal.choices
      /\ \A k, l \in 1..n : Successful[k] = Successful[l] => k = l
  BY SuccessfulType DEF Range
<1>4. ASSUME NEW k \in 1..n
      PROVE  \E i \in DOMAIN choices : /\ Addresses[k] = choices[i].address /\ choices[i].address \in Range(snapshot)
                                       /\ choices[i].label = proposal.choices[Successful[k]]
  <2> DEFINE label == proposal.choices[Successful[k]]
  <2>0. Found(label)
    BY <1>3
  <2>1. PICK c \in DOMAIN choices : /\ choices[c].label = label /\ choices[c].address \in Range(snapshot)
                                    /\ \A j \in 1..(c - 1) : choices[j].label # label
    BY <2>0
  <2>2. PICK d \in DOMAIN choices : /\ AddressOf(label) = choices[d].address /\ choices[d].label = label
                                    /\ \A j \in 1..(d - 1) : choices[j].label # label
    <3> HIDE DEF label
    <3> QED BY <2>1, AddressOfChoice
  <2>3. c \in Nat /\ d \in Nat /\ c >= 1 /\ d >= 1
    <3>1. choices \in Seq([address : Range(Gauges), label : Labels])
      BY DEF IsChoiceList
    <3>2. DOMAIN choices = 1..Len(choices) /\ Len(choices) \in Nat
      BY <3>1, LenProperties
    <3> QED BY <3>2
  <2>4. c = d
    <3> HIDE DEF label
    <3> QED BY <2>1, <2>2, <2>3
  <2> QED BY <2>1, <2>2, <2>4, <1>1
<1>5. ASSUME NEW k \in 1..n, NEW l \in 1..n, Addresses[k] = Addresses[l] PROVE k = l
  <2>1. PICK i \in DOMAIN choices : Addresses[k] = choices[i].address /\ choices[i].label = proposal.choices[Successful[k]]
    BY <1>4
  <2>2. PICK j \in DOMAIN choices : Addresses[l] = choices[j].address /\ choices[j].label = proposal.choices[Successful[l]]
    BY <1>4
  <2>3. i = j
    BY <2>1, <2>2, <1>5 DEF IsChoiceList
  <2>4. proposal.choices[Successful[k]] = proposal.choices[Successful[l]]
    BY <2>1, <2>2, <2>3
  <2>5. Successful[k] = Successful[l]
    BY <2>4, <1>3
  <2> QED BY <2>5, <1>3
<1>6. m \in Nat /\ \A i \in 1..m : f[i] = Votes[i].voteWeight
  BY <1>2 DEF PrintedWeights
<1> HIDE DEF f, m, n, w, Found
<1>7. \A i \in 1..m : f[i] \in Nat
  BY <1>6, WeightIsWon DEF m
<1>8. ASSUME NEW k \in 1..n PROVE h[k] \in 1..m /\ Votes[h[k]].gauge = Addresses[k] /\ w[k] <= f[h[k]]
  <2>1. Addresses[k] \in Range(snapshot) /\ Addresses[k] \in Range(Addresses)
    BY <1>1, <1>4 DEF Range
  <2>2. \E i \in 1..m : Votes[i].gauge = Addresses[k]
    BY <2>1, VotesPrinted DEF m
  <2>3. h[k] \in 1..m /\ Votes[h[k]].gauge = Addresses[k]
    BY <2>2
  <2> HIDE DEF h
  <2>4. f[h[k]] = WeightOf(Addresses, w, Addresses[k])
    BY <2>3, <1>6, VotesPrinted DEF m, w
  <2>5. WeightOf(Addresses, w, Addresses[k]) = w[k]
    <3>1. \/ WeightOf(Addresses, w, Addresses[k]) = 0 /\ \A l \in 1..n : Addresses[l] # Addresses[k]
          \/ \E l \in 1..n : Addresses[l] = Addresses[k] /\ WeightOf(Addresses, w, Addresses[k]) = w[l]
      BY <1>1, WeightOfGauge
    <3> QED BY <3>1, <1>5
  <2>6. w[k] \in Nat
    BY <1>1
  <2> QED BY <2>3, <2>4, <2>5, <2>6
<1>9. \A k, l \in 1..n : h[k] = h[l] => k = l
  <2> HIDE DEF h
  <2> QED BY <1>5, <1>8
<1>10. /\ \A k \in 1..n : w[k] \in Nat
       /\ \A k \in 1..n : h[k] \in 1..m /\ w[k] <= f[h[k]]
  BY <1>1, <1>8
<1> HIDE DEF h
<1>11. SumTo(w, n) <= SumTo(f, m)
  <2> DEFINE P == 1..n
  <2>1. P \in SUBSET (1..n) /\ (\A k \in P : h[k] \in 1..m /\ w[k] <= f[h[k]]) /\ (\A k, l \in P : h[k] = h[l] => k = l)
        /\ \A i \in 1..n : i \notin P => w[i] = 0
    BY <1>9, <1>10
  <2> HIDE DEF P
  <2> QED BY <2>1, <1>1, <1>2, <1>7, <1>10, SumOverImage
<1> QED BY <1>1, <1>2, <1>11 DEF totalVotes

\* Each list of gauges that a task makes has no gauge twice.
LEMMA GaugesFiltered ==
  ASSUME NEW list, IsGaugeList(list), NEW S \in SUBSET (DOMAIN list)
  PROVE  IsGaugeList(Filtered(list, S))
<1>1. list \in Seq(Range(Gauges)) /\ IsInjective(list) /\ S \in SUBSET (1..Len(list))
  <2>1. list \in Seq(Range(Gauges)) /\ IsInjective(list)
    BY DEF IsGaugeList
  <2> QED BY <2>1, LenProperties
<1>2. Filtered(list, S) \in Seq(Range(Gauges))
  BY <1>1, FilteredSelects
<1>3. IsInjective(Filtered(list, S))
  BY <1>1, FilteredRange
<1> QED BY <1>2, <1>3 DEF IsGaugeList

LEMMA AliveGauges ==
  ASSUME NEW list, IsGaugeList(list)
  PROVE  IsGaugeList(Alive(list))
<1> DEFINE S == {i \in DOMAIN list : list[i] \notin killed}
<1>1. S \in SUBSET (DOMAIN list)
  OBVIOUS
<1>2. Alive(list) = Filtered(list, S)
  BY DEF Alive
<1> HIDE DEF S
<1> QED BY <1>1, <1>2, GaugesFiltered

LEMMA SortedGauges ==
  ASSUME NEW list, IsGaugeList(list)
  PROVE  IsGaugeList(sortGaugeList(list))
<1> DEFINE SA == {i \in DOMAIN PriorityGauges : PriorityGauges[i] \in Range(list)}
           SB == {i \in DOMAIN list : list[i] \notin Range(PriorityGauges)}
           A == Filtered(PriorityGauges, SA)
           B == Filtered(list, SB)
           out == A \o B
<1>1. PriorityGauges \in Seq(Range(PriorityGauges)) /\ IsInjective(PriorityGauges)
  BY GaugesAssumption
<1>2. list \in Seq(Range(Gauges)) /\ IsInjective(list)
  BY DEF IsGaugeList
<1>3. SA \in SUBSET (1..Len(PriorityGauges)) /\ SB \in SUBSET (1..Len(list)) /\ SB \in SUBSET (DOMAIN list)
      /\ (\A i \in SA : PriorityGauges[i] \in Range(list) /\ PriorityGauges[i] \in Range(PriorityGauges))
      /\ \A i \in SB : list[i] \notin Range(PriorityGauges)
  <2>1. DOMAIN PriorityGauges = 1..Len(PriorityGauges)
    BY <1>1, LenProperties
  <2>2. DOMAIN list = 1..Len(list)
    BY <1>2, LenProperties
  <2> QED BY <2>1, <2>2 DEF Range
<1>4. sortGaugeList(list) = out
  BY DEF sortGaugeList
<1> HIDE DEF SA, SB
<1>5. A \in Seq(Range(PriorityGauges)) /\ IsInjective(A) /\ \A x : x \in Range(A) <=> \E i \in SA : PriorityGauges[i] = x
  BY <1>1, <1>3, FilteredSelects, FilteredRange
<1>6. B \in Seq(Range(Gauges)) /\ IsInjective(B) /\ \A x : x \in Range(B) <=> \E i \in SB : list[i] = x
  BY <1>2, <1>3, FilteredSelects, FilteredRange
<1> HIDE DEF A, B
<1>7. (\A x \in Range(A) : x \in Range(list) /\ x \in Range(PriorityGauges)) /\ \A x \in Range(B) : x \notin Range(PriorityGauges)
  BY <1>3, <1>5, <1>6
<1>8. DOMAIN A = 1..Len(A) /\ DOMAIN B = 1..Len(B) /\ Len(A) \in Nat /\ Len(B) \in Nat
      /\ (\A i \in 1..Len(A) : A[i] \in Range(A)) /\ \A i \in 1..Len(B) : B[i] \in Range(B)
  <2>1. DOMAIN A = 1..Len(A) /\ Len(A) \in Nat
    BY <1>5, LenProperties
  <2>2. DOMAIN B = 1..Len(B) /\ Len(B) \in Nat
    BY <1>6, LenProperties
  <2> QED BY <2>1, <2>2 DEF Range
<1>9. A \in Seq(Range(Gauges))
  <2>1. \A x \in Range(list) : x \in Range(Gauges)
    <3>1. \A i \in 1..Len(list) : list[i] \in Range(Gauges)
      BY <1>2, ElementOfSeq
    <3>2. DOMAIN list = 1..Len(list)
      BY <1>2, LenProperties
    <3> QED BY <3>1, <3>2 DEF Range
  <2>2. \A i \in 1..Len(A) : A[i] \in Range(Gauges)
    BY <2>1, <1>7, <1>8
  <2>3. A \in [1..Len(A) -> Range(Gauges)]
    <3>1. A \in [1..Len(A) -> Range(PriorityGauges)]
      BY <1>5, LenProperties
    <3> QED BY <2>2, <3>1
  <2> QED BY <2>3, <1>8
<1>10. /\ out \in Seq(Range(Gauges)) /\ Len(out) = Len(A) + Len(B)
       /\ \A i \in 1..(Len(A) + Len(B)) : out[i] = IF i <= Len(A) THEN A[i] ELSE B[i - Len(A)]
  BY <1>6, <1>9, ConcatProperties
<1> HIDE DEF out
<1>11. DOMAIN out = 1..(Len(A) + Len(B))
  BY <1>10, LenProperties
<1>12. ASSUME NEW i \in DOMAIN out, NEW j \in DOMAIN out, out[i] = out[j] PROVE i = j
  <2>1. CASE i <= Len(A) /\ j <= Len(A)
    <3>1. i \in 1..Len(A) /\ j \in 1..Len(A) /\ A[i] = A[j]
      BY <2>1, <1>8, <1>10, <1>11, <1>12
    <3> QED BY <3>1, <1>5, <1>8 DEF IsInjective
  <2>2. CASE ~(i <= Len(A)) /\ ~(j <= Len(A))
    <3>1. i - Len(A) \in 1..Len(B) /\ j - Len(A) \in 1..Len(B)
      BY <2>2, <1>8, <1>11
    <3>2. B[i - Len(A)] = B[j - Len(A)]
      BY <2>2, <1>10, <1>11, <1>12
    <3>3. i - Len(A) = j - Len(A)
      BY <3>1, <3>2, <1>6, <1>8 DEF IsInjective
    <3> QED BY <3>3, <1>8, <1>11
  <2>3. ASSUME NEW k \in DOMAIN out, NEW l \in DOMAIN out, k <= Len(A), ~(l <= Len(A)) PROVE out[k] # out[l]
    <3>1. k \in 1..Len(A) /\ l - Len(A) \in 1..Len(B)
      BY <2>3, <1>8, <1>11
    <3>2. out[k] = A[k] /\ out[l] = B[l - Len(A)]
      BY <2>3, <1>10, <1>11
    <3>3. A[k] \in Range(PriorityGauges) /\ B[l - Len(A)] \notin Range(PriorityGauges)
      BY <3>1, <1>7, <1>8
    <3> QED BY <3>2, <3>3
  <2> QED BY <2>1, <2>2, <2>3, <1>12
<1> QED BY <1>4, <1>10, <1>12 DEF IsGaugeList, IsInjective

\* Choices made from such a list.
LEMMA ChoicesOfGauges ==
  ASSUME NEW list, IsGaugeList(list), NEW labels \in {Name, Symbols}
  PROVE  IsChoiceList([i \in 1..Len(list) |-> Choice(list[i], labels[list[i]])])
<1> DEFINE out == [i \in 1..Len(list) |-> Choice(list[i], labels[list[i]])]
           n == Len(list)
<1>1. list \in Seq(Range(Gauges)) /\ IsInjective(list)
  BY DEF IsGaugeList
<1>2. n \in Nat /\ DOMAIN list = 1..n /\ \A i \in 1..n : list[i] \in Range(Gauges)
  BY <1>1, LenProperties, ElementOfSeq
<1>3. \A g \in Range(Gauges) : labels[g] \in Labels /\ labels[g] \in {Name[g], Symbols[g]}
  <2>1. DOMAIN Name = Range(Gauges) /\ DOMAIN Symbols = Range(Gauges)
    BY GaugesAssumption
  <2> QED BY <2>1 DEF Labels, Range
<1>4. \A i \in 1..n : /\ out[i] \in [address : Range(Gauges), label : Labels]
                      /\ out[i].address = list[i] /\ out[i].label = labels[list[i]]
  BY <1>2, <1>3 DEF Choice
<1>5. out \in [1..n -> [address : Range(Gauges), label : Labels]]
  BY <1>4
<1>6. DOMAIN out = 1..n
  OBVIOUS
<1> HIDE DEF out
<1>7. out \in Seq([address : Range(Gauges), label : Labels])
  <2> DEFINE T == [address : Range(Gauges), label : Labels]
  <2>1. n \in Nat /\ out \in [1..n -> T]
    BY <1>2, <1>5
  <2> HIDE DEF n, T
  <2>2. out \in Seq(T)
    BY <2>1
  <2> QED BY <2>2 DEF T
<1>8. \A i \in DOMAIN out : out[i].label \in {Name[out[i].address], Symbols[out[i].address]}
  BY <1>2, <1>3, <1>4, <1>6
<1>9. \A i, j \in DOMAIN out : out[i].address = out[j].address => i = j
  BY <1>1, <1>2, <1>4, <1>6 DEF IsInjective
<1>10. IsChoiceList(out)
  BY <1>7, <1>8, <1>9 DEF IsChoiceList
<1> QED BY <1>10 DEF out

\* No votes are left to be sent.
LEMMA NothingPrinted ==
  ASSUME votes = <<>>
  PROVE  VotesOK /\ SharesFollowLabels /\ WholePowerUsed
<1>1. Len(votes) = 0 /\ 1..Len(votes) = {} /\ votes \in Seq(VoteSet) /\ Range(votes) = {}
  BY DEF Range
<1>2. Total([i \in 1..Len(votes) |-> votes[i].voteWeight]) = 0
  <2> DEFINE f == [i \in 1..Len(votes) |-> votes[i].voteWeight]
  <2>1. Len(f) = 0
    BY <1>1
  <2>2. Total(f) = SumTo(f, 0)
    BY <2>1 DEF Total
  <2> HIDE DEF f
  <2>3. SumTo(f, 0) = 0
    BY SumToZero
  <2> QED BY <2>2, <2>3 DEF f
<1>3. VotesOK
  BY <1>1, <1>2 DEF VotesOK, InSendingOrder, totalVotes
<1> QED BY <1>1, <1>3 DEF SharesFollowLabels, WholePowerUsed

LEMMA NothingPrintedNext ==
  ASSUME votes' = <<>>
  PROVE  VotesOK' /\ SharesFollowLabels' /\ WholePowerUsed'
<1>1. Len(votes') = 0 /\ 1..Len(votes') = {} /\ votes' \in Seq(VoteSet) /\ Range(votes') = {}
  BY DEF Range
<1>2. Total([i \in 1..Len(votes') |-> votes'[i].voteWeight]) = 0
  <2> DEFINE f == [i \in 1..Len(votes') |-> votes'[i].voteWeight]
  <2>1. Len(f) = 0
    BY <1>1
  <2>2. Total(f) = SumTo(f, 0)
    BY <2>1 DEF Total
  <2> HIDE DEF f
  <2>3. SumTo(f, 0) = 0
    BY SumToZero
  <2> QED BY <2>2, <2>3 DEF f
<1>3. VotesOK'
  BY <1>1, <1>2 DEF VotesOK, InSendingOrder, totalVotes
<1> QED BY <1>1, <1>3 DEF SharesFollowLabels, WholePowerUsed

\* What was printed does not change while files are written.
LEMMA PrintedKept ==
  ASSUME VotesOK, SharesFollowLabels, WholePowerUsed, UNCHANGED <<proposal, votes, source, power>>
  PROVE  VotesOK' /\ SharesFollowLabels' /\ WholePowerUsed'
<1>1. Successful' = Successful /\ Won' = Won
  BY DEF Successful, Won
<1>2. VotesOK'
  BY DEF VotesOK, InSendingOrder
<1>3. SharesFollowLabels'
  BY <1>1 DEF SharesFollowLabels
<1>4. WholePowerUsed'
  BY <1>1 DEF WholePowerUsed
<1> QED BY <1>2, <1>3, <1>4

LEMMA VotesStart ==
  ASSUME VotesInit
  PROVE  VotesInv
<1>1. IsGaugeList(Gauges)
  BY GaugesAssumption DEF IsGaugeList
<1>2. IsGaugeList(snapshot)
  BY <1>1 DEF VotesInit
<1>3. IsChoiceList(choices)
  <2>1. IsChoiceList([i \in 1..Len(Gauges) |-> Choice(Gauges[i], Name[Gauges[i]])])
    BY <1>1, ChoicesOfGauges
  <2> QED BY <2>1 DEF VotesInit
<1>4. ProposalOK
  BY DEF VotesInit, NoProposal, ProposalOK
<1>5. PowerOK
  <2> DEFINE f == [k \in 1..Len(Gauges) |-> power[Gauges[k]]]
  <2>1. power \in [Range(Gauges) -> Nat] /\ \A g \in Range(Gauges) : power[g] = 0
    BY DEF VotesInit
  <2>2. Gauges \in Seq(Range(Gauges))
    BY GaugesAssumption
  <2>3. Len(Gauges) \in Nat /\ \A k \in 1..Len(Gauges) : f[k] = 0
    <3>1. Len(Gauges) \in Nat /\ \A k \in 1..Len(Gauges) : Gauges[k] \in Range(Gauges)
      BY <2>2, LenProperties, ElementOfSeq
    <3> QED BY <3>1, <2>1
  <2>4. Used(power) = SumTo(f, Len(Gauges)) /\ f = [k \in 1..Len(Gauges) |-> 0]
    BY <2>3 DEF Used
  <2> HIDE DEF f
  <2>5. SumTo([k \in 1..Len(Gauges) |-> 0], Len(Gauges)) = 0
    BY <2>3, SumOfZeros
  <2> QED BY <2>1, <2>4, <2>5 DEF PowerOK, totalVotes
<1>6. votes = <<>>
  BY DEF VotesInit
<1> QED BY <1>2, <1>3, <1>4, <1>5, <1>6, NothingPrinted DEF VotesInv

LEMMA FilesWritten ==
  ASSUME VotesInv, WriteSnapshot \/ PrintChoices \/ Generate
  PROVE  VotesInv'
<1>1. UNCHANGED <<proposal, votes, source, power>>
  BY DEF WriteSnapshot, PrintChoices, Generate
<1>2. ProposalOK' /\ PowerOK'
  BY <1>1 DEF VotesInv, ProposalOK, PowerOK
<1>3. VotesOK' /\ SharesFollowLabels' /\ WholePowerUsed'
  BY <1>1, PrintedKept DEF VotesInv
<1>4. IsGaugeList(Gauges) /\ IsGaugeList(snapshot) /\ IsChoiceList(choices)
  BY GaugesAssumption DEF IsGaugeList, VotesInv
<1>5. IsGaugeList(snapshot') /\ IsChoiceList(choices')
  <2>1. CASE WriteSnapshot
    BY <2>1, <1>4, AliveGauges DEF WriteSnapshot
  <2>2. CASE PrintChoices
    <3> DEFINE gauges == Alive(Gauges)
    <3>1. IsGaugeList(gauges)
      BY <1>4, AliveGauges
    <3>2. IsChoiceList([i \in 1..Len(gauges) |-> Choice(gauges[i], Name[gauges[i]])])
      <4> HIDE DEF gauges
      <4> QED BY <3>1, ChoicesOfGauges
    <3> QED BY <3>2, <2>2, <1>4 DEF PrintChoices
  <2>3. CASE Generate
    <3> DEFINE alive == Alive(sortGaugeList(snapshot))
               S == {i \in DOMAIN alive : alive[i] \notin Removed}
               cleaned == Filtered(alive, S)
    <3>1. IsGaugeList(alive) /\ S \in SUBSET (DOMAIN alive)
      BY <1>4, SortedGauges, AliveGauges
    <3>2. snapshot' = snapshot
          /\ choices' = [i \in 1..Len(cleaned) |-> Choice(cleaned[i], Symbols[cleaned[i]])]
      BY <2>3 DEF Generate
    <3> HIDE DEF alive, S
    <3>3. IsGaugeList(cleaned)
      BY <3>1, GaugesFiltered
    <3> HIDE DEF cleaned
    <3>4. IsChoiceList([i \in 1..Len(cleaned) |-> Choice(cleaned[i], Symbols[cleaned[i]])])
      BY <3>3, ChoicesOfGauges
    <3> QED BY <3>2, <3>4, <1>4
  <2> QED BY <2>1, <2>2, <2>3
<1> QED BY <1>2, <1>3, <1>5 DEF VotesInv

LEMMA ProposalCreated ==
  ASSUME VotesInv, Create
  PROVE  VotesInv'
<1>1. votes' = <<>> /\ UNCHANGED <<snapshot, choices, power>>
  BY DEF Create
<1>2. IsGaugeList(snapshot') /\ IsChoiceList(choices') /\ PowerOK'
  BY <1>1 DEF VotesInv, PowerOK
<1>3. ProposalOK'
  <2> DEFINE n == Len(choices)
             T == [address : Range(Gauges), label : Labels]
  <2>1. PICK scores \in [1..n -> Scores] :
          proposal' = [choices |-> [i \in 1..n |-> choices[i].label], scores |-> scores]
    BY DEF Create
  <2>2. choices \in Seq(T)
    BY DEF VotesInv, IsChoiceList
  <2>3. n \in Nat /\ \A i \in 1..n : choices[i] \in T
    <3> HIDE DEF T
    <3> QED BY <2>2, LenProperties, ElementOfSeq
  <2> DEFINE labels == [i \in 1..n |-> choices[i].label]
  <2>4. labels \in [1..n -> Labels] /\ scores \in [1..n -> Nat]
    BY <2>3, GaugesAssumption
  <2> HIDE DEF n, labels
  <2>5. labels \in Seq(Labels) /\ scores \in Seq(Nat) /\ Len(labels) = n /\ Len(scores) = n
    BY <2>3, <2>4
  <2>6. proposal'.choices = labels /\ proposal'.scores = scores
    BY <2>1 DEF labels
  <2> QED BY <2>5, <2>6 DEF ProposalOK
<1> QED BY <1>1, <1>2, <1>3, NothingPrintedNext DEF VotesInv

\* A printed weight is a label's share, and the label was the gauge's.
LEMMA ShareOfLabel ==
  ASSUME IsGaugeList(snapshot), IsChoiceList(choices), ProposalOK, PowerOK, Len(Successful) > 0,
         NEW i \in 1..Len(Votes), Votes[i].voteWeight > 0
  PROVE  \E j \in DOMAIN proposal.choices :
           /\ proposal.choices[j] \in {Name[Votes[i].gauge], Symbols[Votes[i].gauge]}
           /\ Votes[i].voteWeight * Total(Won) <= (proposal.scores[j] * totalVotes) + (Len(proposal.choices) * Total(Won))
<1> DEFINE n == Len(Successful)
           m == Len(proposal.choices)
           v == Votes[i]
           whole == totalVotes
           sum == Total(Won)
<1>1. v.voteWeight \in Nat /\ v.gauge \in Range(Gauges)
  BY WeightIsWon
<1>2. PICK k \in 1..n : Addresses[k] = v.gauge /\ v.voteWeight = Weights(Won)[k]
  BY <1>1, WeightIsWon
<1> DEFINE j == Successful[k]
<1>3. /\ n \in Nat /\ m \in Nat /\ n <= m /\ j \in DOMAIN proposal.choices /\ Won[k] = proposal.scores[j]
      /\ Won \in Seq(Nat) /\ Len(Won) = n
  BY SuccessfulType
<1>4. Addresses[k] = AddressOf(proposal.choices[j]) /\ v.voteWeight * sum <= (Won[k] * whole) + (n * sum)
  BY <1>2, WeightsWon
<1>5. PICK c \in DOMAIN choices : AddressOf(proposal.choices[j]) = choices[c].address /\ choices[c].label = proposal.choices[j]
  <2>1. v.gauge # Unknown
    BY <1>1, GaugesAssumption
  <2> QED BY <2>1, <1>2, <1>4, AddressOfChoice
<1>6. proposal.choices[j] \in {Name[v.gauge], Symbols[v.gauge]}
  BY <1>2, <1>4, <1>5 DEF IsChoiceList
<1>7. sum \in Nat /\ Won[k] \in Nat /\ whole \in Nat
  <2>1. n \in 0..n /\ \A l \in 1..n : Won[l] \in Nat
    BY <1>3, ElementOfSeq
  <2>2. SumTo(Won, n) \in Nat
    BY <2>1, <1>3, SumToNat
  <2>3. Total(Won) = SumTo(Won, n)
    BY <1>3 DEF Total
  <2> QED BY <2>1, <2>2, <2>3 DEF totalVotes
<1> HIDE DEF j, v, n, m, whole, sum
<1>8. n * sum <= m * sum
  <2>1. sum * n <= sum * m
    BY <1>3, <1>7, MulMonotone
  <2> QED BY <2>1, <1>3, <1>7
<1>9. v.voteWeight * sum <= (Won[k] * whole) + (m * sum)
  <2>1. v.voteWeight * sum \in Int /\ Won[k] * whole \in Int /\ n * sum \in Int /\ m * sum \in Int
    <3>1. v.voteWeight \in Nat /\ sum \in Nat /\ Won[k] \in Nat /\ whole \in Nat /\ n \in Nat /\ m \in Nat
      BY <1>1, <1>3, <1>7
    <3>2. /\ v.voteWeight * sum \in Nat /\ Won[k] * whole \in Nat
          /\ n * sum \in Nat /\ m * sum \in Nat
      BY <3>1, MulNat
    <3> QED BY <3>2
  <2> QED BY <2>1, <1>4, <1>8
<1> QED BY <1>3, <1>6, <1>9 DEF v, m, whole, sum

LEMMA ResultPrinted ==
  ASSUME VotesInv, Result
  PROVE  VotesInv'
<1>1. /\ Len(Successful) > 0 /\ votes' = Votes /\ source' = [gauges |-> snapshot, choices |-> choices]
      /\ UNCHANGED <<snapshot, choices, proposal, power>>
  BY DEF Result
<1>2. IsGaugeList(snapshot) /\ IsChoiceList(choices) /\ ProposalOK /\ PowerOK
  BY DEF VotesInv
<1>3. IsGaugeList(snapshot') /\ IsChoiceList(choices') /\ ProposalOK' /\ PowerOK'
  BY <1>1, <1>2 DEF ProposalOK, PowerOK
<1>4. Successful' = Successful /\ Won' = Won /\ source'.gauges = snapshot /\ source'.choices = choices
  BY <1>1 DEF Successful, Won
<1>5. InSendingOrder(Votes) /\ DOMAIN Votes = 1..Len(Votes)
  <2>1. InSendingOrder(Votes)
    BY <1>1, <1>2, VotesPrinted
  <2> QED BY <2>1, LenProperties DEF InSendingOrder
<1>6. Total(PrintedWeights) \in Nat /\ Total(PrintedWeights) <= totalVotes
  BY <1>1, <1>2, WeightsAreWithin
<1>7. \A g \in Range(snapshot) : power[g] > 0 => \E i \in 1..Len(Votes) : Votes[i].gauge = g
  BY <1>1, <1>2, VotesPrinted
<1>8. WholeIsPrinted
  BY <1>1, <1>2, WeightsAreAll
<1>9. ASSUME NEW v \in Range(Votes), v.voteWeight > 0
      PROVE  \E j \in DOMAIN proposal.choices :
               /\ proposal.choices[j] \in {Name[v.gauge], Symbols[v.gauge]}
               /\ v.voteWeight * Total(Won) <= (proposal.scores[j] * totalVotes) + (Len(proposal.choices) * Total(Won))
  <2>1. PICK i \in 1..Len(Votes) : v = Votes[i]
    BY <1>5 DEF Range
  <2> QED BY <2>1, <1>1, <1>2, <1>9, ShareOfLabel
<1>10. VotesOK'
  <2>1. InSendingOrder(votes)'
    BY <1>1, <1>5 DEF InSendingOrder
  <2>2. Total([i \in 1..Len(votes') |-> votes'[i].voteWeight]) <= totalVotes
    BY <1>1, <1>6 DEF PrintedWeights
  <2>3. \A g \in Range(source'.gauges) : power'[g] > 0 => \E i \in 1..Len(votes') : votes'[i].gauge = g
    BY <1>1, <1>4, <1>7
  <2> QED BY <2>1, <2>2, <2>3 DEF VotesOK
<1>11. SharesFollowLabels'
  BY <1>1, <1>4, <1>9 DEF SharesFollowLabels
<1>12. WholePowerUsed'
  BY <1>1, <1>4, <1>8 DEF WholePowerUsed, WholeIsPrinted, PrintedWeights
<1> QED BY <1>3, <1>10, <1>11, <1>12 DEF VotesInv

LEMMA VotesSubmitted ==
  ASSUME VotesInv, Submit
  PROVE  VotesInv'
<1>1. /\ votes # <<>> /\ votes' = <<>> /\ proposal' = NoProposal /\ UNCHANGED <<snapshot, choices>>
      /\ power' = IF Accepted THEN PowerAfter(Len(votes)) ELSE power
  BY DEF Submit
<1>2. IsGaugeList(snapshot') /\ IsChoiceList(choices')
  BY <1>1 DEF VotesInv
<1>3. ProposalOK'
  BY <1>1 DEF ProposalOK, NoProposal
<1>4. PowerOK'
  <2>1. PowerOK /\ InSendingOrder(votes)
    BY DEF VotesInv, VotesOK
  <2>2. CASE ~Accepted
    BY <2>1, <2>2, <1>1 DEF PowerOK
  <2>3. CASE Accepted
    <3> DEFINE L == Len(votes)
    <3>1. L \in 1..L /\ L \in 0..L
      <4>1. votes \in Seq(VoteSet)
        BY <2>1 DEF InSendingOrder
      <4>2. L \in Nat /\ L # 0
        BY <4>1, <1>1, EmptySeq, LenProperties
      <4> QED BY <4>2
    <3>2. UsedAfter(L) <= totalVotes
      BY <2>3, <3>1 DEF Accepted
    <3>3. UsedAfter(L) = Used(PowerAfter(L))
      BY <2>1, <3>1, VoteMovesPower
    <3>4. PowerAfter(L) \in [Range(Gauges) -> Nat]
      BY <2>1, <3>1, PowerAfterVotes
    <3>5. power' = PowerAfter(L)
      BY <2>3, <1>1
    <3> QED BY <3>2, <3>3, <3>4, <3>5 DEF PowerOK
  <2> QED BY <2>2, <2>3
<1> QED BY <1>1, <1>2, <1>3, <1>4, NothingPrintedNext DEF VotesInv

LEMMA ProposalAbandoned ==
  ASSUME VotesInv, Abandon
  PROVE  VotesInv'
<1>1. votes' = <<>> /\ proposal' = NoProposal /\ UNCHANGED <<snapshot, choices, power>>
  BY DEF Abandon
<1>2. IsGaugeList(snapshot') /\ IsChoiceList(choices') /\ ProposalOK' /\ PowerOK'
  BY <1>1 DEF VotesInv, ProposalOK, NoProposal, PowerOK
<1> QED BY <1>1, <1>2, NothingPrintedNext DEF VotesInv

LEMMA VotesUnaffected ==
  ASSUME VotesInv, UNCHANGED <<snapshot, choices, proposal, votes, source, power>>
  PROVE  VotesInv'
<1>1. IsGaugeList(snapshot') /\ IsChoiceList(choices') /\ ProposalOK' /\ PowerOK'
  BY DEF VotesInv, ProposalOK, PowerOK
<1>2. VotesOK' /\ SharesFollowLabels' /\ WholePowerUsed'
  BY PrintedKept DEF VotesInv
<1> QED BY <1>1, <1>2 DEF VotesInv

\* Between proposals and while votes wait to be sent, the files are lists without repetitions,
\* the controller has at most the whole power in use, and what snapshot:result printed is in
\* an order in which vote_for_gauge_weights refuses none of it.
THEOREM VotesInvariance == VotesSpec => []VotesInv
<1>1. VotesInit => VotesInv
  BY VotesStart
<1>2. VotesInv /\ [VotesNext]_voteVars => VotesInv'
  <2> SUFFICES ASSUME VotesInv, [VotesNext]_voteVars PROVE VotesInv'
    OBVIOUS
  <2>1. CASE WriteSnapshot \/ PrintChoices \/ Generate
    BY <2>1, FilesWritten
  <2>2. CASE Create
    BY <2>2, ProposalCreated
  <2>3. CASE Result
    BY <2>3, ResultPrinted
  <2>4. CASE Submit
    BY <2>4, VotesSubmitted
  <2>5. CASE Abandon
    BY <2>5, ProposalAbandoned
  <2>6. ASSUME NEW g \in Mortal, Kill(g) PROVE VotesInv'
    BY <2>6, VotesUnaffected DEF Kill
  <2>7. CASE UNCHANGED voteVars
    BY <2>7, VotesUnaffected DEF voteVars
  <2> QED BY <2>1, <2>2, <2>3, <2>4, <2>5, <2>6, <2>7 DEF VotesNext
<1> QED BY <1>1, <1>2, PTL DEF VotesSpec

\* Whatever was voted before, and whatever the files became since, the gauge controller refuses
\* none of the votes that snapshot:result printed, sent in the printed order by
\* Booster.voteGaugeWeight, if the list it read has every gauge with power on it.
THEOREM VotesCanBeSent == VotesSpec => []VotesAccepted
<1>1. VotesInv => VotesAccepted
  BY PrintedVotesPass
<1> QED BY <1>1, VotesInvariance, PTL

\* A gauge is voted no more than the share of a choice whose label was its own, and what
\* rounding in snapshot:result moves to the first.
THEOREM SharesGoToLabels == VotesSpec => []SharesFollowLabels
<1>1. VotesInv => SharesFollowLabels
  BY DEF VotesInv
<1> QED BY <1>1, VotesInvariance, PTL

\* The weights that snapshot:result prints are the whole power, unless a label is there twice,
\* has gone from gauge_choices.json or leads to a gauge that is not in the list.
THEOREM NothingUnused == VotesSpec => []WholePowerUsed
<1>1. VotesInv => WholePowerUsed
  BY DEF VotesInv
<1> QED BY <1>1, VotesInvariance, PTL
=================================================================================
