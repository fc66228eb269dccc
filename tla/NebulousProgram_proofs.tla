----------------------- MODULE NebulousProgram_proofs -----------------------
(***************************************************************************)
(* Theorems about the on-chain program, for every set of users, apps and   *)
(* tags, every precision, width, fee schedule and bound.                   *)
(*                                                                         *)
(* First the rewards of single positions; then the books: the counters,    *)
(* the vault, the rounding of the reward pools, and the exit fee.  All but *)
(* the last are sums over positions, so their proofs have the same two     *)
(* halves: what the instructions do to one position, and what that does to *)
(* a sum.                                                                  *)
(***************************************************************************)
EXTENDS NebulousProgram, DataTheorems

-----------------------------------------------------------------------------
(***************************************************************************)
(* Arithmetic of the accumulator.                                          *)
(***************************************************************************)

\* The quotient of naturals is a natural.
LEMMA DivIsNat ==
  ASSUME NEW m \in Nat, NEW d \in Nat \ {0}
  PROVE  m \div d \in Nat
  OBVIOUS

\* Rounding down preserves order.
LEMMA DivMonotone ==
  ASSUME NEW m \in Nat, NEW n \in Nat, NEW d \in Nat \ {0}, m <= n
  PROVE  m \div d <= n \div d
  OBVIOUS

\* The product of naturals is a natural, and grows with either factor.
LEMMA TimesMonotone ==
  ASSUME NEW m \in Nat, NEW n \in Nat, NEW c \in Nat, m <= n
  PROVE  /\ c * m \in Nat /\ m * c \in Nat
         /\ c * m <= c * n /\ m * c <= n * c
  OBVIOUS

\* What a stake has accrued is a natural, and grows with the accumulator
\* (settle_pending and reward_debt_for).
LEMMA AccruedFacts ==
  ASSUME NEW x \in Nat, NEW s \in Nat
  PROVE  /\ accrued(x, s) \in Nat
         /\ reward_debt_for(x, s) = accrued(x, s)
         /\ accrued(0, s) = 0
         /\ \A s2 \in Nat : s <= s2 => accrued(x, s) <= accrued(x, s2)
<1>1. x * s \in Nat
  BY TimesMonotone
<1>2. accrued(x, s) \in Nat
  BY <1>1, DivIsNat, PrecisionPositive DEF accrued
<1>3. accrued(0, s) = 0
  <2>1. 0 * s = 0
    OBVIOUS
  <2>2. \A d \in Nat \ {0} : 0 \div d = 0
    OBVIOUS
  <2>3. QED
    BY <2>1, <2>2, PrecisionPositive DEF accrued
<1>4. ASSUME NEW s2 \in Nat, s <= s2
      PROVE  accrued(x, s) <= accrued(x, s2)
  <2>1. x * s <= x * s2 /\ x * s2 \in Nat
    BY <1>4, TimesMonotone
  <2>2. QED
    BY <1>1, <2>1, DivMonotone, PrecisionPositive DEF accrued
<1>5. QED
  BY <1>2, <1>3, <1>4 DEF reward_debt_for

\* settle_pending never goes below zero, and pays nothing on an empty position.
LEMMA SettleFacts ==
  ASSUME NEW x \in Nat, NEW d \in Nat, NEW s \in Nat
  PROVE  /\ settle_pending(x, d, s) \in Nat
         /\ settle_pending(0, d, s) = 0
<1>1. /\ accrued(x, s) \in Nat
      /\ accrued(0, s) = 0
  BY AccruedFacts
<1>2. QED
  BY <1>1 DEF settle_pending, SaturatingSub

\* Funding only raises an accumulator (bump_accumulator).
LEMMA BumpFacts ==
  ASSUME NEW x \in Nat, NEW t \in Nat, NEW s \in Nat, BumpOk(x, t, s)
  PROVE  /\ bump_accumulator(x, t, s) \in 0..U128Max
         /\ s <= bump_accumulator(x, t, s)
<1>1. x * REWARD_PRECISION \in Nat
  BY TimesMonotone, PrecisionPositive
<1>2. t \in Nat \ {0}
  BY DEF BumpOk
<1>3. (x * REWARD_PRECISION) \div t \in Nat
  BY <1>1, <1>2, DivIsNat
<1>4. QED
  BY <1>3, WidthsPositive DEF BumpOk, bump_accumulator

-----------------------------------------------------------------------------
(***************************************************************************)
(* The exit fee.                                                           *)
(***************************************************************************)

\* The fee rate is a natural whatever the clock does, also when it stepped back.
LEMMA RateIsNat ==
  ASSUME NEW e \in Int
  PROVE  linear_decay_fee_bps(e) \in Nat
<1>1. CASE e <= 0
  BY <1>1, FeeParameters DEF linear_decay_fee_bps
<1>2. CASE e >= UNSTAKE_FEE_DECAY_SECONDS
  BY <1>2, FeeParameters DEF linear_decay_fee_bps
<1>3. CASE e > 0 /\ e < UNSTAKE_FEE_DECAY_SECONDS
  <2>1. /\ UNSTAKE_FEE_START_BPS \in Nat
        /\ UNSTAKE_FEE_DECAY_SECONDS \in Nat \ {0}
        /\ UNSTAKE_FEE_DECAY_SECONDS - e \in Nat
    BY <1>3, FeeParameters
  <2>2. UNSTAKE_FEE_START_BPS * (UNSTAKE_FEE_DECAY_SECONDS - e) \in Nat
    BY <2>1, TimesMonotone
  <2>3. (UNSTAKE_FEE_START_BPS * (UNSTAKE_FEE_DECAY_SECONDS - e))
          \div UNSTAKE_FEE_DECAY_SECONDS \in Nat
    BY <2>1, <2>2, DivIsNat
  <2>4. QED
    BY <1>3, <2>1, <2>3 DEF linear_decay_fee_bps
<1>4. QED
  BY <1>1, <1>2, <1>3, FeeParameters

\* The fee itself is a natural.
LEMMA FeeIsNat ==
  ASSUME NEW x \in Nat, NEW bps \in Nat
  PROVE  unstake_fee(x, bps) \in Nat
<1>1. x * bps + 9999 \in Nat
  BY TimesMonotone
<1>2. QED
  BY <1>1, DivIsNat DEF unstake_fee

\* The averaged deposit time is a natural.
LEMMA AverageIsNat ==
  ASSUME NEW s \in Nat, NEW x \in Nat, NEW t \in Nat, NEW y \in Nat
  PROVE  weighted_avg_timestamp(s, x, t, y) \in Nat
<1>1. CASE x + y = 0
  BY <1>1 DEF weighted_avg_timestamp
<1>2. CASE x + y # 0
  <2>1. s * x + t * y \in Nat
    BY TimesMonotone
  <2>2. (s * x + t * y) \div (x + y) \in Nat
    BY <1>2, <2>1, DivIsNat
  <2>3. QED
    BY <1>2, <2>2 DEF weighted_avg_timestamp
<1>3. QED
  BY <1>1, <1>2

-----------------------------------------------------------------------------
(***************************************************************************)
(* The inductive invariant.  DebtWithinAccrued is stated of reward_debt    *)
(* and accrued alone; an empty position's debt is then below accrued(0) =  *)
(* 0, which is what the close instructions rest on.                        *)
(***************************************************************************)
Position == [open : BOOLEAN, amount : 0..U64Max, reward_debt : Nat, staked_at : Nat]

LedgerEntry == [funded : Nat, paid : Nat, fundings : Nat, resizes : Nat]

\* The accumulator a position is checkpointed against.
AccOf(k) == acc[k[1]][PoolOf(k[2])]

Checkpointed(p, s) == p.reward_debt <= accrued(p.amount, s)

IInv ==
  /\ TypeOK
  /\ \A k \in Positions : Checkpointed(pos[k], AccOf(k))
  /\ \A a \in Apps \ apps, p \in RewardPool : acc[a][p] = 0

\* A key of pos names an app, a slot and a user, and its pool is one of the two.
LEMMA KeyFacts ==
  ASSUME TypeOK, NEW a \in Apps, NEW s \in Slots, NEW u \in Users
  PROVE  /\ <<a, s, u>> \in Positions
         /\ PoolOf(s) \in RewardPool
         /\ pos[<<a, s, u>>] \in Position
         /\ acc[a][PoolOf(s)] \in Nat
         /\ total[a][PoolOf(s)] \in Nat
         /\ Pending(<<a, s, u>>) \in Nat
<1>1. <<a, s, u>> \in Positions /\ PoolOf(s) \in RewardPool
  BY DEF Positions, PoolOf, RewardPool
<1>2. /\ pos[<<a, s, u>>] \in Position
      /\ acc[a][PoolOf(s)] \in Nat
      /\ total[a][PoolOf(s)] \in Nat
  BY <1>1 DEF TypeOK, Position
<1>3. Pending(<<a, s, u>>) \in Nat
  <2>1. /\ pos[<<a, s, u>>].amount \in Nat
        /\ pos[<<a, s, u>>].reward_debt \in Nat
    BY <1>2, WidthsPositive DEF Position
  <2>2. Pending(<<a, s, u>>) = settle_pending(pos[<<a, s, u>>].amount,
                                 pos[<<a, s, u>>].reward_debt, acc[a][PoolOf(s)])
    BY DEF Pending
  <2>3. settle_pending(pos[<<a, s, u>>].amount,
                       pos[<<a, s, u>>].reward_debt, acc[a][PoolOf(s)]) \in Nat
    BY <1>2, <2>1, SettleFacts
  <2>4. QED
    BY <2>2, <2>3
<1>4. QED
  BY <1>1, <1>2, <1>3

\* Rewriting one position, checkpointed against its own accumulator, keeps every
\* position typed and checkpointed.
LEMMA RewritePosition ==
  ASSUME IInv, NEW k \in Positions, NEW q \in Position,
         Checkpointed(q, AccOf(k)),
         pos' = [pos EXCEPT ![k] = q], acc' = acc
  PROVE  /\ pos' \in [Positions -> Position]
         /\ \A j \in Positions : Checkpointed(pos'[j], AccOf(j)')
<1>1. pos \in [Positions -> Position]
  BY DEF IInv, TypeOK, Position
<1>2. pos' \in [Positions -> Position]
  BY <1>1
<1>3. ASSUME NEW j \in Positions
      PROVE  Checkpointed(pos'[j], AccOf(j)')
  <2>1. AccOf(j)' = AccOf(j)
    BY DEF AccOf
  <2>2. CASE j = k
    BY <1>1, <2>1, <2>2
  <2>3. CASE j # k
    <3>1. pos'[j] = pos[j]
      BY <1>1, <2>3
    <3>2. Checkpointed(pos[j], AccOf(j))
      BY DEF IInv
    <3>3. QED
      BY <2>1, <3>1, <3>2
  <2>4. QED
    BY <2>2, <2>3
<1>4. QED
  BY <1>2, <1>3

\* The three ways a handler rewrites a position leave it typed and checkpointed.
LEMMA RewrittenPosition ==
  ASSUME TypeOK, NEW p \in Position, NEW s \in Nat, NEW x \in Nat
  PROVE  /\ p.amount + x <= U64Max =>
              /\ AfterDeposit(p, x, s) \in Position
              /\ Checkpointed(AfterDeposit(p, x, s), s)
         /\ p.amount >= x =>
              /\ AfterWithdraw(p, x, s) \in Position
              /\ Checkpointed(AfterWithdraw(p, x, s), s)
         /\ AfterClaim(p, s) \in Position
         /\ Checkpointed(AfterClaim(p, s), s)
<1>1. /\ p.amount \in 0..U64Max /\ p.amount \in Nat
      /\ p.staked_at \in Nat /\ p.reward_debt \in Nat
  BY WidthsPositive DEF Position
<1>2. now \in Nat
  BY BoundsNat DEF TypeOK
<1>3. ASSUME p.amount + x <= U64Max
      PROVE  /\ AfterDeposit(p, x, s) \in Position
             /\ Checkpointed(AfterDeposit(p, x, s), s)
  <2>1. p.amount + x \in 0..U64Max /\ p.amount + x \in Nat
    BY <1>1, <1>3, WidthsPositive
  <2>2. /\ reward_debt_for(p.amount + x, s) \in Nat
        /\ reward_debt_for(p.amount + x, s) = accrued(p.amount + x, s)
    BY <2>1, AccruedFacts
  <2>3. weighted_avg_timestamp(p.staked_at, p.amount, now, x) \in Nat
    BY <1>1, <1>2, AverageIsNat
  <2>4. QED
    BY <2>1, <2>2, <2>3 DEF AfterDeposit, Position, Checkpointed
<1>4. ASSUME p.amount >= x
      PROVE  /\ AfterWithdraw(p, x, s) \in Position
             /\ Checkpointed(AfterWithdraw(p, x, s), s)
  <2>1. p.amount - x \in 0..U64Max /\ p.amount - x \in Nat
    BY <1>1, <1>4, WidthsPositive
  <2>2. /\ reward_debt_for(p.amount - x, s) \in Nat
        /\ reward_debt_for(p.amount - x, s) = accrued(p.amount - x, s)
    BY <2>1, AccruedFacts
  <2>3. p.open \in BOOLEAN
    BY DEF Position
  <2>4. QED
    BY <1>1, <2>1, <2>2, <2>3 DEF AfterWithdraw, Position, Checkpointed
<1>5. /\ AfterClaim(p, s) \in Position
      /\ Checkpointed(AfterClaim(p, s), s)
  <2>1. /\ reward_debt_for(p.amount, s) \in Nat
        /\ reward_debt_for(p.amount, s) = accrued(p.amount, s)
    <3>1. p.amount \in Nat
      BY <1>1
    <3>2. QED
      BY <3>1, AccruedFacts
  <2>2. QED
    BY <1>1, <2>1 DEF AfterClaim, Position, Checkpointed
<1>6. QED
  BY <1>3, <1>4, <1>5

\* vote and stake_tag keep the invariant.
LEMMA DepositKeepsInv ==
  ASSUME IInv, NEW a \in Apps, NEW s \in Slots, NEW u \in Users, NEW x \in Amounts,
         Deposit(a, s, u, x), stake_amount' \in [Apps \X Tags -> 0..U64Max]
  PROVE  IInv'
<1> DEFINE k == <<a, s, u>>
           pool == PoolOf(s)
           due == IF pos[k].amount > 0 THEN Pending(k) ELSE 0
           q == AfterDeposit(pos[k], x, acc[a][pool])
<1>1. TypeOK /\ x \in Nat
  BY BoundsNat DEF IInv, Amounts
<1>2. /\ k \in Positions /\ pool \in RewardPool
      /\ pos[k] \in Position
      /\ acc[a][pool] \in Nat /\ total[a][pool] \in Nat
      /\ due \in Nat
  <2>1. Pending(k) \in Nat
    BY <1>1, KeyFacts
  <2>2. QED
    BY <1>1, <2>1, KeyFacts
<1>3. /\ pos' = [pos EXCEPT ![k] = q]
      /\ acc' = acc
      /\ pos[k].amount + x <= U64Max
  BY DEF Deposit
<1>4. q \in Position /\ Checkpointed(q, AccOf(k))
  <2>1. AccOf(k) = acc[a][pool]
    BY DEF AccOf
  <2>2. QED
    BY <1>1, <1>2, <1>3, <2>1, RewrittenPosition
<1>5. /\ pos' \in [Positions -> Position]
      /\ \A j \in Positions : Checkpointed(pos'[j], AccOf(j)')
  BY <1>2, <1>3, <1>4, RewritePosition
<1>6. total' \in [Apps -> [RewardPool -> 0..U64Max]]
  <2>1. total[a][pool] + x \in 0..U64Max
    BY <1>1, <1>2 DEF Deposit
  <2>2. QED
    BY <1>1, <1>2, <2>1 DEF Deposit, TypeOK
<1>7. vault' \in 0..Supply
  <2>1. /\ due <= vault
        /\ vault - due + x <= Supply
        /\ vault' = vault - due + x
    BY DEF Deposit
  <2>2. vault \in Nat /\ Supply \in Nat
    BY <1>1, BoundsNat DEF TypeOK
  <2> HIDE DEF due
  <2>3. QED
    BY <1>1, <1>2, <2>1, <2>2
<1>8. ledger' \in [Apps -> [RewardPool -> LedgerEntry]]
  <2>1. ledger' = [ledger EXCEPT ![a][pool] = LedgerResize(ledger[a][pool], due)]
    BY <1>1, <1>2 DEF Deposit, TypeOK
  <2> HIDE DEF due
  <2>2. ledger[a][pool] \in LedgerEntry
    BY <1>1, <1>2 DEF TypeOK, LedgerEntry
  <2>3. LedgerResize(ledger[a][pool], due) \in LedgerEntry
    BY <1>2, <2>2 DEF LedgerResize, LedgerEntry
  <2>4. QED
    BY <1>1, <1>2, <2>1, <2>3 DEF TypeOK, LedgerEntry
<1>9. TypeOK'
  BY <1>1, <1>3, <1>5, <1>6, <1>7, <1>8 DEF Deposit, TypeOK, accounts, Position, LedgerEntry
<1>10. QED
  BY <1>3, <1>5, <1>9 DEF IInv, Deposit, accounts

\* withdraw_vote and withdraw_tag_stake keep the invariant.
LEMMA WithdrawKeepsInv ==
  ASSUME IInv, NEW a \in Apps, NEW s \in Slots, NEW u \in Users, NEW x \in Amounts,
         Withdraw(a, s, u, x), stake_amount' \in [Apps \X Tags -> 0..U64Max]
  PROVE  IInv'
<1> DEFINE k == <<a, s, u>>
           pool == PoolOf(s)
           due == Pending(k)
           fee == unstake_fee(x, linear_decay_fee_bps(now - pos[k].staked_at))
           q == AfterWithdraw(pos[k], x, acc[a][pool])
<1>1. TypeOK /\ x \in Nat
  BY BoundsNat DEF IInv, Amounts
<1>2. /\ k \in Positions /\ pool \in RewardPool
      /\ pos[k] \in Position
      /\ acc[a][pool] \in Nat /\ total[a][pool] \in 0..U64Max
      /\ due \in Nat
  <2>1. k \in Positions /\ pool \in RewardPool
    BY <1>1, KeyFacts
  <2>2. total[a][pool] \in 0..U64Max
    BY <1>1, <2>1 DEF TypeOK
  <2>3. QED
    BY <1>1, <2>2, KeyFacts
<1>3. /\ pos' = [pos EXCEPT ![k] = q]
      /\ acc' = acc
      /\ pos[k].amount >= x
  BY DEF Withdraw, EnoughStake
<1>4. q \in Position /\ Checkpointed(q, AccOf(k))
  <2>1. AccOf(k) = acc[a][pool]
    BY DEF AccOf
  <2>2. QED
    BY <1>1, <1>2, <1>3, <2>1, RewrittenPosition
<1>5. /\ pos' \in [Positions -> Position]
      /\ \A j \in Positions : Checkpointed(pos'[j], AccOf(j)')
  BY <1>2, <1>3, <1>4, RewritePosition
<1>6. total' \in [Apps -> [RewardPool -> 0..U64Max]]
  <2>1. total[a][pool] - x \in 0..U64Max
    BY <1>1, <1>2, WidthsPositive DEF Withdraw
  <2>2. QED
    BY <1>1, <1>2, <2>1 DEF Withdraw, TypeOK
<1>7. fee \in Nat
  <2>1. now - pos[k].staked_at \in Int
    BY <1>1, <1>2, BoundsNat DEF TypeOK, Position
  <2>2. linear_decay_fee_bps(now - pos[k].staked_at) \in Nat
    BY <2>1, RateIsNat
  <2>3. QED
    BY <1>1, <2>2, FeeIsNat
<1>8. vault' \in 0..Supply /\ treasury' \in Nat
  <2>1. /\ due + x <= vault
        /\ vault' = vault - due - fee - (x - fee)
        /\ treasury' = treasury + fee
    BY DEF Withdraw
  <2>2. vault \in 0..Supply /\ Supply \in Nat /\ treasury \in Nat
    BY <1>1, BoundsNat DEF TypeOK
  <2> HIDE DEF due, fee
  <2>3. QED
    BY <1>1, <1>2, <1>7, <2>1, <2>2
<1>9. ledger' \in [Apps -> [RewardPool -> LedgerEntry]]
  <2>1. ledger' = [ledger EXCEPT ![a][pool] = LedgerResize(ledger[a][pool], due)]
    BY <1>1, <1>2 DEF Withdraw, TypeOK
  <2> HIDE DEF due
  <2>2. ledger[a][pool] \in LedgerEntry
    BY <1>1, <1>2 DEF TypeOK, LedgerEntry
  <2>3. LedgerResize(ledger[a][pool], due) \in LedgerEntry
    BY <1>2, <2>2 DEF LedgerResize, LedgerEntry
  <2>4. QED
    BY <1>1, <1>2, <2>1, <2>3 DEF TypeOK, LedgerEntry
<1>10. TypeOK'
  BY <1>1, <1>3, <1>5, <1>6, <1>8, <1>9
  DEF Withdraw, TypeOK, accounts, Position, LedgerEntry
<1>11. QED
  BY <1>3, <1>5, <1>10 DEF IInv, Withdraw, accounts

\* claim_vote_reward and claim_tag_reward keep the invariant.
LEMMA ClaimKeepsInv ==
  ASSUME IInv, NEW a \in Apps, NEW s \in Slots, NEW u \in Users, Claim(a, s, u)
  PROVE  IInv'
<1> DEFINE k == <<a, s, u>>
           pool == PoolOf(s)
           due == Pending(k)
           q == AfterClaim(pos[k], acc[a][pool])
<1>1. TypeOK
  BY DEF IInv
<1>2. /\ k \in Positions /\ pool \in RewardPool
      /\ pos[k] \in Position
      /\ acc[a][pool] \in Nat
      /\ due \in Nat
  BY <1>1, KeyFacts
<1>3. /\ pos' = [pos EXCEPT ![k] = q]
      /\ acc' = acc
  BY DEF Claim
<1>4. q \in Position /\ Checkpointed(q, AccOf(k))
  <2>1. AccOf(k) = acc[a][pool]
    BY DEF AccOf
  <2>2. 0 \in Nat
    OBVIOUS
  <2>3. QED
    BY <1>1, <1>2, <2>1, <2>2, RewrittenPosition
<1>5. /\ pos' \in [Positions -> Position]
      /\ \A j \in Positions : Checkpointed(pos'[j], AccOf(j)')
  BY <1>2, <1>3, <1>4, RewritePosition
<1>6. vault' \in 0..Supply
  <2>1. due <= vault /\ vault' = vault - due
    BY DEF Claim
  <2>2. vault \in 0..Supply /\ Supply \in Nat
    BY <1>1, BoundsNat DEF TypeOK
  <2> HIDE DEF due
  <2>3. QED
    BY <1>2, <2>1, <2>2
<1>7. ledger' \in [Apps -> [RewardPool -> LedgerEntry]]
  <2>1. ledger' = [ledger EXCEPT ![a][pool] = LedgerClaim(ledger[a][pool], due)]
    BY <1>1, <1>2 DEF Claim, TypeOK
  <2> HIDE DEF due
  <2>2. ledger[a][pool] \in LedgerEntry
    BY <1>1, <1>2 DEF TypeOK, LedgerEntry
  <2>3. LedgerClaim(ledger[a][pool], due) \in LedgerEntry
    BY <1>2, <2>2 DEF LedgerClaim, LedgerEntry
  <2>4. QED
    BY <1>1, <1>2, <2>1, <2>3 DEF TypeOK, LedgerEntry
<1>8. TypeOK'
  BY <1>1, <1>3, <1>5, <1>6, <1>7
  DEF Claim, TypeOK, accounts, Position, LedgerEntry
<1>9. QED
  BY <1>3, <1>5, <1>8 DEF IInv, Claim, accounts

\* Closing an account leaves nothing that could be checkpointed wrongly.
LEMMA CloseKeepsInv ==
  ASSUME IInv, NEW a \in Apps, NEW s \in Slots, NEW u \in Users, Close(<<a, s, u>>)
  PROVE  IInv'
<1> DEFINE k == <<a, s, u>>
<1>1. TypeOK /\ k \in Positions /\ AccOf(k) \in Nat
  BY KeyFacts DEF IInv, AccOf
<1>2. pos' = [pos EXCEPT ![k] = NoPosition] /\ acc' = acc
  BY DEF Close
<1>3. NoPosition \in Position /\ Checkpointed(NoPosition, AccOf(k))
  <2>1. accrued(0, AccOf(k)) = 0
    BY <1>1, AccruedFacts
  <2>2. QED
    BY <2>1, WidthsPositive DEF NoPosition, Position, Checkpointed
<1>4. /\ pos' \in [Positions -> Position]
      /\ \A j \in Positions : Checkpointed(pos'[j], AccOf(j)')
  BY <1>1, <1>2, <1>3, RewritePosition
<1>5. TypeOK'
  BY <1>1, <1>4 DEF Close, TypeOK, accounts, Position
<1>6. QED
  BY <1>2, <1>4, <1>5 DEF IInv, Close, accounts

\* fund_app_rewards raises one accumulator; a checkpoint below what was accrued
\* stays below it.
LEMMA FundKeepsInv ==
  ASSUME IInv, NEW a \in Apps, NEW p \in RewardPool, NEW x \in Amounts,
         FundAppRewards(a, p, x)
  PROVE  IInv'
<1> DEFINE s2 == bump_accumulator(x, total[a][p], acc[a][p])
<1>1. TypeOK /\ x \in Nat
  BY BoundsNat DEF IInv, Amounts
<1>2. total[a][p] \in Nat /\ acc[a][p] \in Nat
  BY <1>1 DEF TypeOK
<1>3. BumpOk(x, total[a][p], acc[a][p])
  BY DEF FundAppRewards
<1>4. s2 \in 0..U128Max /\ acc[a][p] <= s2
  BY <1>1, <1>2, <1>3, BumpFacts
<1> HIDE DEF s2
<1>5. acc' = [acc EXCEPT ![a][p] = s2]
  BY <1>1 DEF FundAppRewards, TypeOK, s2
<1>6. acc' \in [Apps -> [RewardPool -> 0..U128Max]]
  BY <1>1, <1>4, <1>5 DEF TypeOK
<1>7. \A b \in Apps, r \in RewardPool : acc[b][r] <= acc'[b][r]
  <2> SUFFICES ASSUME NEW b \in Apps, NEW r \in RewardPool
               PROVE  acc[b][r] <= acc'[b][r]
    OBVIOUS
  <2>1. acc[b][r] \in Nat
    BY <1>1 DEF TypeOK
  <2>2. CASE b = a /\ r = p
    BY <1>1, <1>4, <1>5, <2>2 DEF TypeOK
  <2>3. CASE ~(b = a /\ r = p)
    <3>1. acc'[b][r] = acc[b][r]
      BY <1>1, <1>5, <2>3 DEF TypeOK
    <3>2. QED
      BY <2>1, <3>1
  <2>4. QED
    BY <2>2, <2>3
<1>8. ASSUME NEW j \in Positions
      PROVE  Checkpointed(pos'[j], AccOf(j)')
  <2>1. pos' = pos
    BY DEF FundAppRewards
  <2>2. j[1] \in Apps /\ PoolOf(j[2]) \in RewardPool
    BY DEF Positions, PoolOf, RewardPool
  <2>3. AccOf(j) \in Nat /\ AccOf(j)' \in Nat
    BY <1>1, <1>6, <2>2 DEF AccOf, TypeOK
  <2>4. AccOf(j) <= AccOf(j)'
    BY <1>7, <2>2 DEF AccOf
  <2>5. pos[j].amount \in Nat /\ pos[j].reward_debt \in Nat
    BY <1>1, WidthsPositive DEF TypeOK
  <2>6. /\ accrued(pos[j].amount, AccOf(j)) <= accrued(pos[j].amount, AccOf(j)')
        /\ accrued(pos[j].amount, AccOf(j)) \in Nat
        /\ accrued(pos[j].amount, AccOf(j)') \in Nat
    BY <2>3, <2>4, <2>5, AccruedFacts
  <2>7. pos[j].reward_debt <= accrued(pos[j].amount, AccOf(j))
    BY DEF IInv, Checkpointed
  <2>8. QED
    BY <2>1, <2>5, <2>6, <2>7 DEF Checkpointed
<1>9. vault' \in 0..Supply
  <2>1. vault + x <= Supply /\ vault' = vault + x
    BY DEF FundAppRewards
  <2>2. vault \in 0..Supply /\ Supply \in Nat
    BY <1>1, BoundsNat DEF TypeOK
  <2>3. QED
    BY <1>1, <2>1, <2>2
<1>10. ledger' \in [Apps -> [RewardPool -> LedgerEntry]]
  <2>1. ledger' = [ledger EXCEPT ![a][p] = LedgerFund(ledger[a][p], x)]
    BY <1>1 DEF FundAppRewards, TypeOK
  <2>2. ledger[a][p] \in LedgerEntry
    BY <1>1 DEF TypeOK, LedgerEntry
  <2>3. LedgerFund(ledger[a][p], x) \in LedgerEntry
    BY <1>1, <2>2 DEF LedgerFund, LedgerEntry
  <2>4. QED
    BY <1>1, <2>1, <2>3 DEF TypeOK, LedgerEntry
<1>11. TypeOK'
  BY <1>1, <1>6, <1>9, <1>10 DEF FundAppRewards, TypeOK, accounts, LedgerEntry
<1>12. \A b \in Apps \ apps', r \in RewardPool : acc'[b][r] = 0
  <2> SUFFICES ASSUME NEW b \in Apps \ apps', NEW r \in RewardPool
               PROVE  acc'[b][r] = 0
    OBVIOUS
  <2>1. b # a /\ b \in Apps \ apps
    BY DEF FundAppRewards, accounts
  <2>2. acc'[b][r] = acc[b][r]
    BY <1>1, <1>5, <2>1 DEF TypeOK
  <2>3. QED
    BY <2>1, <2>2 DEF IInv
<1>13. QED
  BY <1>8, <1>11, <1>12 DEF IInv

\* The accounts that hold no position, and the clock, do not touch a checkpoint.
\* init_app writes zero over accumulators that were zero.
LEMMA AccountsKeepInv ==
  ASSUME IInv,
         \/ Initialize
         \/ \E a \in Apps : InitApp(a)
         \/ \E a \in Apps, t \in Tags : SuggestTag(a, t)
         \/ Tick
  PROVE  IInv'
<1> USE DEF IInv, accounts
<1>1. CASE Initialize
  BY <1>1 DEF Initialize, TypeOK, Checkpointed, AccOf
<1>2. ASSUME NEW a \in Apps, InitApp(a)
      PROVE  IInv'
  <2>1. TypeOK /\ a \in Apps \ apps
    BY <1>2 DEF InitApp
  <2>2. acc' = acc
    <3>1. acc \in [Apps -> [RewardPool -> 0..U128Max]]
      BY <2>1 DEF TypeOK
    <3>2. acc[a] = [p \in RewardPool |-> 0]
      BY <2>1, <3>1
    <3>3. acc' = [acc EXCEPT ![a] = [p \in RewardPool |-> 0]]
      BY <1>2 DEF InitApp
    <3>4. QED
      BY <3>1, <3>2, <3>3
  <2>3. total' \in [Apps -> [RewardPool -> 0..U64Max]]
    BY <1>2, <2>1, WidthsPositive DEF InitApp, TypeOK
  <2>4. TypeOK'
    BY <1>2, <2>1, <2>2, <2>3 DEF InitApp, TypeOK
  <2>5. \A k \in Positions : Checkpointed(pos'[k], AccOf(k)')
    BY <1>2, <2>2 DEF InitApp, AccOf, Checkpointed
  <2>6. \A b \in Apps \ apps', p \in RewardPool : acc'[b][p] = 0
    BY <1>2, <2>2 DEF InitApp
  <2>7. QED
    BY <2>4, <2>5, <2>6
<1>3. ASSUME NEW a \in Apps, NEW t \in Tags, SuggestTag(a, t)
      PROVE  IInv'
  <2>1. stake_amount' \in [Apps \X Tags -> 0..U64Max]
    BY <1>3, WidthsPositive DEF SuggestTag, TypeOK
  <2>2. TypeOK'
    BY <1>3, <2>1 DEF SuggestTag, TypeOK
  <2>3. \A k \in Positions : Checkpointed(pos'[k], AccOf(k)')
    BY <1>3 DEF SuggestTag, AccOf, Checkpointed
  <2>4. QED
    BY <1>3, <2>2, <2>3 DEF SuggestTag
<1>4. CASE Tick
  BY <1>4 DEF Tick, TypeOK, Checkpointed, AccOf
<1>5. QED
  BY <1>1, <1>2, <1>3, <1>4

\* The invariant holds before initialize.
LEMMA InitEstablishesInv == Init => IInv
<1> SUFFICES ASSUME Init PROVE IInv
  OBVIOUS
<1>1. TypeOK
  <2>1. 0 \in Nat /\ 0 \in 0..U64Max /\ 0 \in 0..U128Max /\ 0 \in 0..Supply
                 /\ 0 \in 0..MaxTime
    BY WidthsPositive, BoundsNat
  <2>2. pos \in [Positions -> Position]
    BY <2>1 DEF Init, NoPosition, Position
  <2>3. ledger \in [Apps -> [RewardPool -> LedgerEntry]]
    BY <2>1 DEF Init, NewLedger, LedgerEntry
  <2>4. /\ total \in [Apps -> [RewardPool -> 0..U64Max]]
        /\ acc \in [Apps -> [RewardPool -> 0..U128Max]]
        /\ stake_amount \in [Apps \X Tags -> 0..U64Max]
    BY <2>1 DEF Init
  <2>5. QED
    BY <2>1, <2>2, <2>3, <2>4 DEF Init, TypeOK, Position, LedgerEntry
<1>2. \A k \in Positions : Checkpointed(pos[k], AccOf(k))
  <2> SUFFICES ASSUME NEW k \in Positions PROVE Checkpointed(pos[k], AccOf(k))
    OBVIOUS
  <2>1. k[1] \in Apps /\ PoolOf(k[2]) \in RewardPool
    BY DEF Positions, PoolOf, RewardPool
  <2>2. AccOf(k) = 0
    BY <2>1 DEF Init, AccOf
  <2>3. accrued(0, 0) = 0
    BY AccruedFacts
  <2>4. QED
    BY <2>2, <2>3 DEF Init, NoPosition, Checkpointed
<1>3. QED
  BY <1>1, <1>2 DEF Init, IInv

\* Every instruction keeps the invariant.
LEMMA StepKeepsInv == IInv /\ [Next]_vars => IInv'
<1> SUFFICES ASSUME IInv, [Next]_vars PROVE IInv'
  OBVIOUS
<1>1. VoteSlot \in Slots /\ Tags \subseteq Slots
  BY DEF Slots
<1>2. stake_amount \in [Apps \X Tags -> 0..U64Max]
  BY DEF IInv, TypeOK
<1>3. CASE UNCHANGED vars
  BY <1>3 DEF vars, IInv, TypeOK, Checkpointed, AccOf
<1>4. ASSUME NEW a \in Apps, NEW u \in Users, NEW x \in Amounts, Vote(a, u, x)
      PROVE  IInv'
  BY <1>1, <1>2, <1>4, DepositKeepsInv DEF Vote
<1>5. ASSUME NEW a \in Apps, NEW t \in Tags, NEW u \in Users, NEW x \in Amounts,
             StakeTag(a, t, u, x)
      PROVE  IInv'
  <2>1. stake_amount[<<a, t>>] + x \in 0..U64Max
    BY <1>2, <1>5, WidthsPositive, BoundsNat DEF StakeTag, Amounts
  <2>2. stake_amount' \in [Apps \X Tags -> 0..U64Max]
    BY <1>2, <1>5, <2>1 DEF StakeTag
  <2>3. QED
    BY <1>1, <1>5, <2>2, DepositKeepsInv DEF StakeTag
<1>6. ASSUME NEW a \in Apps, NEW u \in Users, NEW x \in Amounts, WithdrawVote(a, u, x)
      PROVE  IInv'
  BY <1>1, <1>2, <1>6, WithdrawKeepsInv DEF WithdrawVote
<1>7. ASSUME NEW a \in Apps, NEW t \in Tags, NEW u \in Users, NEW x \in Amounts,
             WithdrawTagStake(a, t, u, x)
      PROVE  IInv'
  <2>1. stake_amount[<<a, t>>] - x \in 0..U64Max
    BY <1>2, <1>7, WidthsPositive, BoundsNat DEF WithdrawTagStake, Amounts
  <2>2. stake_amount' \in [Apps \X Tags -> 0..U64Max]
    BY <1>2, <1>7, <2>1 DEF WithdrawTagStake
  <2>3. QED
    BY <1>1, <1>7, <2>2, WithdrawKeepsInv DEF WithdrawTagStake
<1>8. ASSUME NEW a \in Apps, NEW u \in Users, ClaimVoteReward(a, u)
      PROVE  IInv'
  BY <1>1, <1>8, ClaimKeepsInv DEF ClaimVoteReward
<1>9. ASSUME NEW a \in Apps, NEW t \in Tags, NEW u \in Users, ClaimTagReward(a, t, u)
      PROVE  IInv'
  BY <1>1, <1>9, ClaimKeepsInv DEF ClaimTagReward
<1>10. ASSUME NEW a \in Apps, NEW p \in RewardPool, NEW x \in Amounts,
              FundAppRewards(a, p, x)
       PROVE  IInv'
  BY <1>10, FundKeepsInv
<1>11. ASSUME NEW a \in Apps, NEW u \in Users, CloseVotePosition(a, u)
       PROVE  IInv'
  BY <1>1, <1>11, CloseKeepsInv DEF CloseVotePosition
<1>12. ASSUME NEW a \in Apps, NEW t \in Tags, NEW u \in Users,
              CloseTagStakePosition(a, t, u)
       PROVE  IInv'
  BY <1>1, <1>12, CloseKeepsInv DEF CloseTagStakePosition
<1>13. QED
  BY <1>3, <1>4, <1>5, <1>6, <1>7, <1>8, <1>9, <1>10, <1>11, <1>12, AccountsKeepInv
  DEF Next

-----------------------------------------------------------------------------
\* The inductive invariant holds in every reachable state.
THEOREM InvHolds == Spec => []IInv
<1>1. QED
  BY InitEstablishesInv, StepKeepsInv, PTL DEF Spec

\* Every account field stays within its integer width, for every instance.
THEOREM TypeCorrect == Spec => []TypeOK
<1>1. IInv => TypeOK
  BY DEF IInv
<1>2. QED
  BY <1>1, InvHolds, PTL

\* No position is ever checkpointed ahead of what it accrued: the saturating_sub of
\* settle_pending is never what keeps a reward from being paid.
THEOREM DebtNeverAhead == Spec => []DebtWithinAccrued
<1>1. IInv => DebtWithinAccrued
  BY DEF IInv, DebtWithinAccrued, Checkpointed, AccOf
<1>2. QED
  BY <1>1, InvHolds, PTL

\* Closing an emptied position never forfeits a reward: it is owed nothing and has
\* nothing checkpointed.
THEOREM EmptyPositionIsSettled == Spec => []EmptyPositionOwedNothing
<1>1. IInv => EmptyPositionOwedNothing
  <2> SUFFICES ASSUME IInv, NEW k \in Positions, pos[k].amount = 0
               PROVE  pos[k].reward_debt = 0 /\ Pending(k) = 0
    BY DEF EmptyPositionOwedNothing
  <2>1. TypeOK /\ k[1] \in Apps /\ PoolOf(k[2]) \in RewardPool
    BY DEF IInv, Positions, PoolOf, RewardPool
  <2>2. AccOf(k) \in Nat /\ pos[k].reward_debt \in Nat
    BY <2>1 DEF TypeOK, AccOf
  <2>3. /\ accrued(0, AccOf(k)) = 0
        /\ settle_pending(0, pos[k].reward_debt, AccOf(k)) = 0
    BY <2>2, AccruedFacts, SettleFacts
  <2>4. pos[k].reward_debt <= accrued(pos[k].amount, AccOf(k))
    BY DEF IInv, Checkpointed
  <2>5. QED
    BY <2>2, <2>3, <2>4 DEF Pending, AccOf
<1>2. QED
  BY <1>1, InvHolds, PTL

-----------------------------------------------------------------------------
(***************************************************************************)
(* What a step may do to what a position is owed.                          *)
(***************************************************************************)
PaidTo(k) == ledger[k[1]][PoolOf(k[2])].paid

\* Nothing happens to it, or its pool pays it in full, or its pool is funded.
Owed(k) ==
  \/ Pending(k)' = Pending(k)
  \/ Pending(k)' = 0 /\ PaidTo(k)' - PaidTo(k) = Pending(k)
  \/ AccOf(k)' # AccOf(k) /\ Pending(k)' >= Pending(k)

\* What a freshly checkpointed position is owed: nothing.
LEMMA CheckpointSettles ==
  ASSUME NEW x \in Nat, NEW s \in Nat
  PROVE  settle_pending(x, reward_debt_for(x, s), s) = 0
<1>1. accrued(x, s) \in Nat /\ reward_debt_for(x, s) = accrued(x, s)
  BY AccruedFacts
<1>2. QED
  BY <1>1 DEF settle_pending, SaturatingSub

\* A position nobody rewrites, on accumulators nobody bumps, is owed what it was.
LEMMA OthersKeepPending ==
  ASSUME TypeOK, NEW k, NEW q, pos' = [pos EXCEPT ![k] = q], acc' = acc,
         NEW j \in Positions, j # k
  PROVE  Pending(j)' = Pending(j)
  BY DEF TypeOK, Pending

\* A pending reward is a natural.
LEMMA PendingIsNat ==
  ASSUME TypeOK, NEW k \in Positions
  PROVE  /\ Pending(k) \in Nat
         /\ Pending(k) = settle_pending(pos[k].amount, pos[k].reward_debt, AccOf(k))
         /\ AccOf(k) \in Nat
         /\ pos[k].amount \in Nat /\ pos[k].reward_debt \in Nat
<1>1. k[1] \in Apps /\ PoolOf(k[2]) \in RewardPool
  BY DEF Positions, PoolOf, RewardPool
<1>2. /\ AccOf(k) \in Nat
      /\ pos[k].amount \in Nat /\ pos[k].reward_debt \in Nat
  BY <1>1, WidthsPositive DEF TypeOK, AccOf
<1>3. Pending(k) = settle_pending(pos[k].amount, pos[k].reward_debt, AccOf(k))
  BY DEF Pending, AccOf
<1>4. QED
  BY <1>2, <1>3, SettleFacts

\* vote and stake_tag pay a position in full, an empty one nothing.
LEMMA DepositOwed ==
  ASSUME IInv, NEW a \in Apps, NEW s \in Slots, NEW u \in Users, NEW x \in Amounts,
         Deposit(a, s, u, x), NEW j \in Positions
  PROVE  Owed(j)
<1> DEFINE k == <<a, s, u>>
           pool == PoolOf(s)
           due == IF pos[k].amount > 0 THEN Pending(k) ELSE 0
           q == AfterDeposit(pos[k], x, acc[a][pool])
<1>1. TypeOK /\ x \in Nat
  BY BoundsNat DEF IInv, Amounts
<1>2. /\ k \in Positions /\ pool \in RewardPool
      /\ acc[a][pool] \in Nat
      /\ pos \in [Positions -> Position]
  BY <1>1, KeyFacts DEF TypeOK, Position
<1>3. pos' = [pos EXCEPT ![k] = q] /\ acc' = acc
  BY DEF Deposit
<1>4. CASE j # k
  BY <1>1, <1>3, <1>4, OthersKeepPending DEF Owed
<1>5. CASE j = k
  <2>1. pos'[k] = q /\ q.amount = pos[k].amount + x
                    /\ q.reward_debt = reward_debt_for(pos[k].amount + x, acc[a][pool])
    BY <1>2, <1>3 DEF AfterDeposit
  <2>2. /\ pos[k].amount \in Nat /\ Pending(k) \in Nat
        /\ Pending(k) = settle_pending(pos[k].amount, pos[k].reward_debt, AccOf(k))
        /\ pos[k].reward_debt \in Nat
    BY <1>1, <1>2, PendingIsNat
  <2>3. Pending(k)' = 0
    <3>1. pos[k].amount + x \in Nat
      BY <1>1, <2>2
    <3>2. Pending(k)' = settle_pending(q.amount, q.reward_debt, acc[a][pool])
      BY <1>3, <2>1 DEF Pending
    <3>3. QED
      BY <1>2, <2>1, <3>1, <3>2, CheckpointSettles
  <2>4. due = Pending(k)
    <3>1. CASE pos[k].amount > 0
      BY <3>1
    <3>2. CASE pos[k].amount = 0
      <4>1. AccOf(k) = acc[a][pool]
        BY DEF AccOf
      <4>2. Pending(k) = 0
        BY <1>2, <2>2, <3>2, <4>1, SettleFacts
      <4>3. QED
        BY <3>2, <4>2
    <3>3. QED
      BY <2>2, <3>1, <3>2
  <2>5. PaidTo(k)' - PaidTo(k) = due
    <3>1. ledger' = [ledger EXCEPT ![a][pool] = LedgerResize(ledger[a][pool], due)]
      BY <1>1, <1>2 DEF Deposit, TypeOK
    <3>2. ledger[a][pool].paid \in Nat /\ due \in Nat
      BY <1>1, <1>2, <2>2, <2>4 DEF TypeOK
    <3> HIDE DEF due
    <3>3. ledger'[a][pool].paid = ledger[a][pool].paid + due
      BY <1>1, <1>2, <3>1 DEF TypeOK, LedgerResize
    <3>4. QED
      BY <3>2, <3>3 DEF PaidTo
  <2>6. QED
    BY <1>5, <2>3, <2>4, <2>5 DEF Owed
<1>6. QED
  BY <1>4, <1>5

\* withdraw_vote and withdraw_tag_stake pay a position in full.
LEMMA WithdrawOwed ==
  ASSUME IInv, NEW a \in Apps, NEW s \in Slots, NEW u \in Users, NEW x \in Amounts,
         Withdraw(a, s, u, x), NEW j \in Positions
  PROVE  Owed(j)
<1> DEFINE k == <<a, s, u>>
           pool == PoolOf(s)
           due == Pending(k)
           q == AfterWithdraw(pos[k], x, acc[a][pool])
<1>1. TypeOK /\ x \in Nat
  BY BoundsNat DEF IInv, Amounts
<1>2. /\ k \in Positions /\ pool \in RewardPool
      /\ acc[a][pool] \in Nat
      /\ pos \in [Positions -> Position]
  BY <1>1, KeyFacts DEF TypeOK, Position
<1>3. pos' = [pos EXCEPT ![k] = q] /\ acc' = acc /\ pos[k].amount >= x
  BY DEF Withdraw, EnoughStake
<1>4. CASE j # k
  BY <1>1, <1>3, <1>4, OthersKeepPending DEF Owed
<1>5. CASE j = k
  <2>1. pos'[k] = q /\ q.amount = pos[k].amount - x
                    /\ q.reward_debt = reward_debt_for(pos[k].amount - x, acc[a][pool])
    BY <1>2, <1>3 DEF AfterWithdraw
  <2>2. Pending(k) \in Nat /\ pos[k].amount \in Nat
    BY <1>1, <1>2, PendingIsNat
  <2>3. Pending(k)' = 0
    <3>1. pos[k].amount - x \in Nat
      BY <1>1, <1>3, <2>2
    <3>2. Pending(k)' = settle_pending(q.amount, q.reward_debt, acc[a][pool])
      BY <1>3, <2>1 DEF Pending
    <3>3. QED
      BY <1>2, <2>1, <3>1, <3>2, CheckpointSettles
  <2>4. PaidTo(k)' - PaidTo(k) = due
    <3>1. ledger' = [ledger EXCEPT ![a][pool] = LedgerResize(ledger[a][pool], due)]
      BY <1>1, <1>2 DEF Withdraw, TypeOK
    <3>2. ledger[a][pool].paid \in Nat /\ due \in Nat
      BY <1>1, <1>2, <2>2 DEF TypeOK
    <3> HIDE DEF due
    <3>3. ledger'[a][pool].paid = ledger[a][pool].paid + due
      BY <1>1, <1>2, <3>1 DEF TypeOK, LedgerResize
    <3>4. QED
      BY <3>2, <3>3 DEF PaidTo
  <2>5. QED
    BY <1>5, <2>3, <2>4 DEF Owed
<1>6. QED
  BY <1>4, <1>5

\* claim_vote_reward and claim_tag_reward pay a position in full.
LEMMA ClaimOwed ==
  ASSUME IInv, NEW a \in Apps, NEW s \in Slots, NEW u \in Users, Claim(a, s, u),
         NEW j \in Positions
  PROVE  Owed(j)
<1> DEFINE k == <<a, s, u>>
           pool == PoolOf(s)
           due == Pending(k)
           q == AfterClaim(pos[k], acc[a][pool])
<1>1. TypeOK
  BY DEF IInv
<1>2. /\ k \in Positions /\ pool \in RewardPool
      /\ acc[a][pool] \in Nat
      /\ pos \in [Positions -> Position]
  BY <1>1, KeyFacts DEF TypeOK, Position
<1>3. pos' = [pos EXCEPT ![k] = q] /\ acc' = acc
  BY DEF Claim
<1>4. CASE j # k
  BY <1>1, <1>3, <1>4, OthersKeepPending DEF Owed
<1>5. CASE j = k
  <2>1. pos'[k] = q /\ q.amount = pos[k].amount
                    /\ q.reward_debt = reward_debt_for(pos[k].amount, acc[a][pool])
    BY <1>2, <1>3 DEF AfterClaim
  <2>2. Pending(k) \in Nat /\ pos[k].amount \in Nat
    BY <1>1, <1>2, PendingIsNat
  <2>3. Pending(k)' = 0
    <3>1. Pending(k)' = settle_pending(q.amount, q.reward_debt, acc[a][pool])
      BY <1>3, <2>1 DEF Pending
    <3>2. QED
      BY <1>2, <2>1, <2>2, <3>1, CheckpointSettles
  <2>4. PaidTo(k)' - PaidTo(k) = due
    <3>1. ledger' = [ledger EXCEPT ![a][pool] = LedgerClaim(ledger[a][pool], due)]
      BY <1>1, <1>2 DEF Claim, TypeOK
    <3>2. ledger[a][pool].paid \in Nat /\ due \in Nat
      BY <1>1, <1>2, <2>2 DEF TypeOK
    <3> HIDE DEF due
    <3>3. ledger'[a][pool].paid = ledger[a][pool].paid + due
      BY <1>1, <1>2, <3>1 DEF TypeOK, LedgerClaim
    <3>4. QED
      BY <3>2, <3>3 DEF PaidTo
  <2>5. QED
    BY <1>5, <2>3, <2>4 DEF Owed
<1>6. QED
  BY <1>4, <1>5

\* Closing an emptied position forfeits nothing: it was owed nothing.
LEMMA CloseOwed ==
  ASSUME IInv, NEW k \in Positions, Close(k), NEW j \in Positions
  PROVE  Owed(j)
<1>1. TypeOK
  BY DEF IInv
<1>2. pos' = [pos EXCEPT ![k] = NoPosition] /\ acc' = acc /\ pos[k].amount = 0
  BY DEF Close, Closable
<1>3. CASE j # k
  BY <1>1, <1>2, <1>3, OthersKeepPending DEF Owed
<1>4. CASE j = k
  <2>1. /\ AccOf(k) \in Nat /\ pos[k].reward_debt \in Nat
        /\ Pending(k) = settle_pending(pos[k].amount, pos[k].reward_debt, AccOf(k))
    BY <1>1, PendingIsNat
  <2>2. Pending(k) = 0
    BY <1>2, <2>1, SettleFacts
  <2>3. Pending(k)' = settle_pending(0, 0, AccOf(k))
    <3>1. pos'[k] = NoPosition
      BY <1>1, <1>2 DEF TypeOK
    <3>2. QED
      BY <1>2, <3>1 DEF Pending, AccOf, NoPosition
  <2>4. Pending(k)' = 0
    BY <2>1, <2>3, SettleFacts
  <2>5. QED
    BY <1>4, <2>2, <2>4 DEF Owed
<1>5. QED
  BY <1>3, <1>4

\* fund_app_rewards takes nothing from anyone.
LEMMA FundOwed ==
  ASSUME IInv, NEW a \in Apps, NEW p \in RewardPool, NEW x \in Amounts,
         FundAppRewards(a, p, x), NEW j \in Positions
  PROVE  Owed(j)
<1> DEFINE s2 == bump_accumulator(x, total[a][p], acc[a][p])
<1>1. TypeOK /\ x \in Nat
  BY BoundsNat DEF IInv, Amounts
<1>2. j[1] \in Apps /\ PoolOf(j[2]) \in RewardPool /\ pos' = pos
  BY DEF Positions, PoolOf, RewardPool, FundAppRewards
<1>3. /\ pos[j].amount \in Nat /\ pos[j].reward_debt \in Nat /\ AccOf(j) \in Nat
      /\ Pending(j) = settle_pending(pos[j].amount, pos[j].reward_debt, AccOf(j))
  BY <1>1, PendingIsNat
<1>4. Pending(j)' = settle_pending(pos[j].amount, pos[j].reward_debt, AccOf(j)')
  BY <1>2 DEF Pending, AccOf
<1>5. CASE AccOf(j)' = AccOf(j)
  BY <1>3, <1>4, <1>5 DEF Owed
<1>6. CASE AccOf(j)' # AccOf(j)
  <2>1. s2 \in Nat /\ acc[a][p] <= s2
    <3>1. total[a][p] \in Nat /\ acc[a][p] \in Nat
      BY <1>1 DEF TypeOK
    <3>2. BumpOk(x, total[a][p], acc[a][p])
      BY DEF FundAppRewards
    <3>3. s2 \in 0..U128Max /\ acc[a][p] <= s2
      BY <1>1, <3>1, <3>2, BumpFacts
    <3>4. QED
      BY <3>3, WidthsPositive
  <2> HIDE DEF s2
  <2>2. acc' = [acc EXCEPT ![a][p] = s2]
    BY <1>1 DEF FundAppRewards, TypeOK, s2
  <2>3. j[1] = a /\ PoolOf(j[2]) = p
    BY <1>1, <1>2, <1>6, <2>2 DEF TypeOK, AccOf
  <2>4. AccOf(j)' = s2
    BY <1>1, <1>2, <2>2, <2>3 DEF TypeOK, AccOf
  <2>5. accrued(pos[j].amount, AccOf(j)) <= accrued(pos[j].amount, AccOf(j)')
    BY <1>3, <2>1, <2>3, <2>4, AccruedFacts DEF AccOf
  <2>6. /\ accrued(pos[j].amount, AccOf(j)) \in Nat
        /\ accrued(pos[j].amount, AccOf(j)') \in Nat
    BY <1>3, <2>1, <2>4, AccruedFacts
  <2>7. Pending(j)' >= Pending(j)
    BY <1>3, <1>4, <2>5, <2>6 DEF settle_pending, SaturatingSub
  <2>8. QED
    BY <1>6, <2>7 DEF Owed
<1>7. QED
  BY <1>5, <1>6

\* Steps that rewrite neither positions nor accumulators.
LEMMA AccountsOwed ==
  ASSUME IInv, NEW j \in Positions,
         \/ Initialize
         \/ \E a \in Apps : InitApp(a)
         \/ \E a \in Apps, t \in Tags : SuggestTag(a, t)
         \/ Tick
         \/ UNCHANGED vars
  PROVE  Owed(j)
<1>1. CASE \E a \in Apps : InitApp(a)
  <2>1. PICK a \in Apps : InitApp(a)
    BY <1>1
  <2>2. acc' = acc
    <3>1. acc \in [Apps -> [RewardPool -> 0..U128Max]] /\ a \in Apps \ apps
      BY <2>1 DEF IInv, TypeOK, InitApp
    <3>2. acc[a] = [p \in RewardPool |-> 0]
      BY <3>1 DEF IInv
    <3>3. acc' = [acc EXCEPT ![a] = [p \in RewardPool |-> 0]]
      BY <2>1 DEF InitApp
    <3>4. QED
      BY <3>1, <3>2, <3>3
  <2>3. QED
    BY <2>1, <2>2 DEF InitApp, Owed, Pending
<1>2. CASE UNCHANGED <<pos, acc>>
  BY <1>2 DEF Owed, Pending
<1>3. QED
  BY <1>1, <1>2 DEF Initialize, SuggestTag, Tick, vars, accounts

\* Every step pays a position in full, funds its pool, or leaves it alone.
LEMMA StepOwed ==
  ASSUME IInv, [Next]_vars, NEW j \in Positions
  PROVE  Owed(j)
<1>1. VoteSlot \in Slots /\ Tags \subseteq Slots
  BY DEF Slots
<1>2. ASSUME NEW a \in Apps, NEW u \in Users, NEW x \in Amounts,
             Vote(a, u, x) \/ \E t \in Tags : StakeTag(a, t, u, x)
      PROVE  Owed(j)
  BY <1>1, <1>2, DepositOwed DEF Vote, StakeTag
<1>3. ASSUME NEW a \in Apps, NEW u \in Users, NEW x \in Amounts,
             WithdrawVote(a, u, x) \/ \E t \in Tags : WithdrawTagStake(a, t, u, x)
      PROVE  Owed(j)
  BY <1>1, <1>3, WithdrawOwed DEF WithdrawVote, WithdrawTagStake
<1>4. ASSUME NEW a \in Apps, NEW u \in Users,
             ClaimVoteReward(a, u) \/ \E t \in Tags : ClaimTagReward(a, t, u)
      PROVE  Owed(j)
  BY <1>1, <1>4, ClaimOwed DEF ClaimVoteReward, ClaimTagReward
<1>5. ASSUME NEW a \in Apps, NEW u \in Users,
             CloseVotePosition(a, u) \/ \E t \in Tags : CloseTagStakePosition(a, t, u)
      PROVE  Owed(j)
  <2>1. \A s \in Slots : <<a, s, u>> \in Positions
    BY DEF Positions
  <2>2. QED
    BY <1>1, <1>5, <2>1, CloseOwed DEF CloseVotePosition, CloseTagStakePosition
<1>6. ASSUME NEW a \in Apps, NEW p \in RewardPool, NEW x \in Amounts,
             FundAppRewards(a, p, x)
      PROVE  Owed(j)
  BY <1>6, FundOwed
<1>7. QED
  BY <1>2, <1>3, <1>4, <1>5, <1>6, AccountsOwed DEF Next

\* No deposit, withdrawal, claim, close, registration or passage of time, by anyone,
\* adds to what any position is owed: only funding its own pool does.
THEOREM OnlyFundingAccrues == Spec => RewardsAccrueOnlyByFunding
<1>1. IInv /\ [Next]_vars =>
        [\A k \in Positions :
           acc[k[1]][PoolOf(k[2])]' = acc[k[1]][PoolOf(k[2])] => Pending(k)' <= Pending(k)]_vars
  <2> SUFFICES ASSUME IInv, [Next]_vars, NEW k \in Positions,
                      acc[k[1]][PoolOf(k[2])]' = acc[k[1]][PoolOf(k[2])]
               PROVE  Pending(k)' <= Pending(k)
    OBVIOUS
  <2>1. Owed(k) /\ Pending(k) \in Nat
    BY StepOwed, PendingIsNat DEF IInv
  <2>2. QED
    BY <2>1 DEF Owed, AccOf
<1>2. QED
  BY <1>1, InvHolds, PTL DEF Spec, RewardsAccrueOnlyByFunding

\* Whatever a position was owed and no longer is was paid by its pool in the same
\* transaction, to the unit.
THEOREM NoRewardDisappears == Spec => PendingLeavesOnlyByPayment
<1> DEFINE PendingNat == \A k \in Positions : Pending(k) \in Nat
<1>1. IInv => PendingNat
  BY PendingIsNat DEF IInv
<1>2. IInv' => PendingNat'
  BY <1>1, PTL
<1>3. IInv /\ [Next]_vars =>
        [\A k \in Positions :
           Pending(k)' < Pending(k) =>
             ledger[k[1]][PoolOf(k[2])].paid' - ledger[k[1]][PoolOf(k[2])].paid
               = Pending(k) - Pending(k)']_vars
  <2> SUFFICES ASSUME IInv, [Next]_vars, NEW k \in Positions,
                      Pending(k)' < Pending(k)
               PROVE  PaidTo(k)' - PaidTo(k) = Pending(k) - Pending(k)'
    BY DEF PaidTo
  <2>1. Owed(k) /\ Pending(k) \in Nat
    BY StepOwed, PendingIsNat DEF IInv
  <2>2. Pending(k)' \in Nat
    BY <1>2, StepKeepsInv
  <2>3. QED
    BY <2>1, <2>2 DEF Owed
<1>4. QED
  BY <1>3, InvHolds, PTL DEF Spec, PendingLeavesOnlyByPayment

\* Every position is sound: its fields keep their widths, it is checkpointed within
\* what it accrued (reward_math.rs:22-29), and emptied it is settled.
THEOREM PositionsSound == Spec => []Inv
<1>1. TypeOK /\ DebtWithinAccrued /\ EmptyPositionOwedNothing => Inv
  BY DEF Inv
<1>2. QED
  BY <1>1, TypeCorrect, DebtNeverAhead, EmptyPositionIsSettled, PTL

\* Only funding adds to what a position is owed and only payment takes from it, in every
\* instruction of the program.
THEOREM RewardsAreConserved == Spec => RewardsConserved
  BY OnlyFundingAccrues, NoRewardDisappears DEF RewardsConserved

-----------------------------------------------------------------------------
(***************************************************************************)
(* The shapes of a step.  Eight instructions settle one position: pay what *)
(* it is owed and leave it freshly checkpointed with another amount.  One  *)
(* funds a pool.  The rest touch no money.                                 *)
(***************************************************************************)
\* The history of a pool that paid due.
Pays(l, m, due, r) ==
  /\ m.funded = l.funded /\ m.fundings = l.fundings
  /\ m.paid = l.paid + due /\ m.resizes = l.resizes + r

\* The amount of k becomes n and its pool pays it what it was owed; r is 1 for a
\* deposit or a withdrawal and 0 for a claim or a close.
Settles(k, n, r) ==
  /\ pos[k].amount + n \in Nat
  /\ \A j \in Positions \ {k} : pos'[j] = pos[j]
  /\ pos'[k].amount = pos[k].amount + n
  /\ pos'[k].reward_debt = accrued(pos[k].amount + n, AccOf(k))
  /\ acc' = acc /\ apps' = apps /\ suggested' = suggested
  /\ \A a \in Apps, p \in RewardPool :
       total'[a][p] = IF a = k[1] /\ p = PoolOf(k[2]) THEN total[a][p] + n ELSE total[a][p]
  /\ \A a \in Apps, t \in Tags :
       stake_amount'[<<a, t>>] = IF a = k[1] /\ t = k[2] THEN stake_amount[<<a, t>>] + n
                                                        ELSE stake_amount[<<a, t>>]
  /\ vault' = vault - Pending(k) + n
  /\ \A a \in Apps, p \in RewardPool :
       IF a = k[1] /\ p = PoolOf(k[2]) THEN Pays(ledger[a][p], ledger'[a][p], Pending(k), r)
                                       ELSE ledger'[a][p] = ledger[a][p]
  /\ n = 0 \/ (r = 1 /\ Loaded(k[1], k[2]))

NoMoneyMoves ==
  /\ UNCHANGED <<pos, acc, total, stake_amount, vault, ledger>>
  /\ apps \subseteq apps' /\ suggested \subseteq suggested'

\* The counters of accounts that do not exist yet are zero.
NothingUnregistered ==
  /\ \A a \in Apps \ apps, p \in RewardPool : total[a][p] = 0
  /\ \A at \in (Apps \X Tags) \ suggested : stake_amount[at] = 0

\* vote and stake_tag.
LEMMA DepositSettles ==
  ASSUME IInv, NEW a \in Apps, NEW s \in Slots, NEW u \in Users, NEW x \in Amounts,
         Deposit(a, s, u, x),
         \A b \in Apps, t \in Tags :
           stake_amount'[<<b, t>>] = IF b = a /\ t = s THEN stake_amount[<<b, t>>] + x
                                                      ELSE stake_amount[<<b, t>>]
  PROVE  Settles(<<a, s, u>>, x, 1)
<1> DEFINE k == <<a, s, u>>
           pool == PoolOf(s)
           due == IF pos[k].amount > 0 THEN Pending(k) ELSE 0
           q == AfterDeposit(pos[k], x, acc[a][pool])
<1>1. TypeOK /\ x \in Nat
  BY BoundsNat DEF IInv, Amounts
<1>2. /\ k \in Positions /\ pool \in RewardPool
      /\ pos[k].amount \in Nat /\ Pending(k) \in Nat
      /\ pos[k].amount = 0 => Pending(k) = 0
  <2>1. k \in Positions /\ pool \in RewardPool
    BY <1>1, KeyFacts
  <2>2. /\ Pending(k) \in Nat /\ pos[k].amount \in Nat /\ AccOf(k) \in Nat
        /\ Pending(k) = settle_pending(pos[k].amount, pos[k].reward_debt, AccOf(k))
        /\ pos[k].reward_debt \in Nat
    BY <1>1, <2>1, PendingIsNat
  <2>3. settle_pending(0, pos[k].reward_debt, AccOf(k)) = 0
    BY <2>2, SettleFacts
  <2>4. pos[k].amount = 0 => Pending(k) = 0
    BY <2>2, <2>3
  <2>5. QED
    BY <2>1, <2>2, <2>4
<1>3. due = Pending(k)
  BY <1>2
<1>4. pos[k].amount + x \in Nat
  BY <1>1, <1>2
<1>5. /\ \A j \in Positions \ {k} : pos'[j] = pos[j]
      /\ pos'[k].amount = pos[k].amount + x
      /\ pos'[k].reward_debt = accrued(pos[k].amount + x, AccOf(k))
  <2>1. pos' = [pos EXCEPT ![k] = q]
    BY DEF Deposit
  <2>2. pos'[k] = q /\ \A j \in Positions \ {k} : pos'[j] = pos[j]
    BY <1>1, <1>2, <2>1 DEF TypeOK
  <2>3. QED
    BY <2>2 DEF AfterDeposit, AccOf, reward_debt_for
<1>6. \A b \in Apps, p \in RewardPool :
        total'[b][p] = IF b = a /\ p = pool THEN total[b][p] + x ELSE total[b][p]
  BY <1>1, <1>2 DEF Deposit, TypeOK
<1>7. vault' = vault - Pending(k) + x
  BY <1>3 DEF Deposit
<1>8. ledger' = [ledger EXCEPT ![a][pool] = LedgerResize(ledger[a][pool], Pending(k))]
  BY <1>1, <1>2, <1>3 DEF Deposit, TypeOK
<1>9. \A b \in Apps, p \in RewardPool :
        ledger'[b][p] = IF b = a /\ p = pool THEN LedgerResize(ledger[b][p], Pending(k))
                                             ELSE ledger[b][p]
  BY <1>1, <1>2, <1>8 DEF TypeOK
<1>10. acc' = acc /\ apps' = apps /\ suggested' = suggested /\ Loaded(a, s)
  BY DEF Deposit, accounts
<1>11. k[1] = a /\ k[2] = s
  OBVIOUS
<1>12. \A b \in Apps, t \in Tags :
        stake_amount'[<<b, t>>] = IF b = k[1] /\ t = k[2] THEN stake_amount[<<b, t>>] + x
                                                      ELSE stake_amount[<<b, t>>]
  BY <1>11
<1>13. \A b \in Apps, p \in RewardPool :
         IF b = k[1] /\ p = PoolOf(k[2]) THEN Pays(ledger[b][p], ledger'[b][p], Pending(k), 1)
                                         ELSE ledger'[b][p] = ledger[b][p]
  <2>1. Pays(ledger[a][pool], LedgerResize(ledger[a][pool], Pending(k)), Pending(k), 1)
    BY DEF LedgerResize, Pays
  <2> HIDE DEF k, pool
  <2>2. QED
    BY <1>9, <1>11, <2>1 DEF pool
<1>14. \A b \in Apps, p \in RewardPool :
        total'[b][p] = IF b = k[1] /\ p = PoolOf(k[2]) THEN total[b][p] + x ELSE total[b][p]
  BY <1>6, <1>11
<1> HIDE DEF k, pool, due, q
<1>15. QED
  BY <1>4, <1>5, <1>7, <1>10, <1>11, <1>12, <1>13, <1>14 DEF Settles, k

\* withdraw_vote and withdraw_tag_stake.
LEMMA WithdrawSettles ==
  ASSUME IInv, NEW a \in Apps, NEW s \in Slots, NEW u \in Users, NEW x \in Amounts,
         Withdraw(a, s, u, x),
         \A b \in Apps, t \in Tags :
           stake_amount'[<<b, t>>] = IF b = a /\ t = s THEN stake_amount[<<b, t>>] - x
                                                      ELSE stake_amount[<<b, t>>]
  PROVE  Settles(<<a, s, u>>, -x, 1)
<1> DEFINE k == <<a, s, u>>
           pool == PoolOf(s)
           due == Pending(k)
           fee == unstake_fee(x, linear_decay_fee_bps(now - pos[k].staked_at))
           q == AfterWithdraw(pos[k], x, acc[a][pool])
<1>1. TypeOK /\ x \in Nat
  BY BoundsNat DEF IInv, Amounts
<1>2. /\ k \in Positions /\ pool \in RewardPool
      /\ pos[k].amount \in Nat /\ due \in Nat
      /\ \A b \in Apps, p \in RewardPool : total[b][p] \in Nat
      /\ \A b \in Apps, t \in Tags : stake_amount[<<b, t>>] \in Nat
      /\ vault \in Nat
  <2>1. k \in Positions /\ pool \in RewardPool
    BY <1>1, KeyFacts
  <2>2. pos[k].amount \in Nat /\ due \in Nat
    BY <1>1, <2>1, PendingIsNat
  <2>3. /\ \A b \in Apps, p \in RewardPool : total[b][p] \in Nat
        /\ \A b \in Apps, t \in Tags : stake_amount[<<b, t>>] \in Nat
        /\ vault \in Nat
    BY <1>1, WidthsPositive, BoundsNat DEF TypeOK
  <2>4. QED
    BY <2>1, <2>2, <2>3
<1>3. pos[k].amount >= x
  BY DEF Withdraw, EnoughStake
<1>4. pos[k].amount + (-x) \in Nat /\ pos[k].amount + (-x) = pos[k].amount - x
  BY <1>1, <1>2, <1>3
<1>5. /\ \A j \in Positions \ {k} : pos'[j] = pos[j]
      /\ pos'[k].amount = pos[k].amount + (-x)
      /\ pos'[k].reward_debt = accrued(pos[k].amount + (-x), AccOf(k))
  <2>1. pos' = [pos EXCEPT ![k] = q]
    BY DEF Withdraw
  <2>2. pos'[k] = q /\ \A j \in Positions \ {k} : pos'[j] = pos[j]
    BY <1>1, <1>2, <2>1 DEF TypeOK
  <2>3. QED
    BY <1>4, <2>2 DEF AfterWithdraw, AccOf, reward_debt_for
<1>6. \A b \in Apps, p \in RewardPool :
        total'[b][p] = IF b = a /\ p = pool THEN total[b][p] + (-x) ELSE total[b][p]
  <2>1. \A b \in Apps, p \in RewardPool :
        total'[b][p] = IF b = a /\ p = pool THEN total[b][p] - x ELSE total[b][p]
    BY <1>1, <1>2 DEF Withdraw, TypeOK
  <2>2. QED
    BY <1>1, <1>2, <2>1
<1>7. vault' = vault - due + (-x)
  <2>1. vault' = vault - due - fee - (x - fee)
    BY DEF Withdraw
  <2>2. fee \in Nat
    <3>1. now - pos[k].staked_at \in Int
      BY <1>1, <1>2, BoundsNat DEF TypeOK
    <3>2. QED
      BY <1>1, <3>1, RateIsNat, FeeIsNat
  <2> HIDE DEF fee, due
  <2>3. QED
    BY <1>1, <1>2, <2>1, <2>2
<1>8. ledger' = [ledger EXCEPT ![a][pool] = LedgerResize(ledger[a][pool], due)]
  BY <1>1, <1>2 DEF Withdraw, TypeOK
<1>9. \A b \in Apps, p \in RewardPool :
        ledger'[b][p] = IF b = a /\ p = pool THEN LedgerResize(ledger[b][p], due)
                                             ELSE ledger[b][p]
  BY <1>1, <1>2, <1>8 DEF TypeOK
<1>10. acc' = acc /\ apps' = apps /\ suggested' = suggested /\ Loaded(a, s)
  BY DEF Withdraw, accounts
<1>11. k[1] = a /\ k[2] = s
  OBVIOUS
<1>12. \A b \in Apps, t \in Tags :
        stake_amount'[<<b, t>>] = IF b = k[1] /\ t = k[2] THEN stake_amount[<<b, t>>] + (-x)
                                                      ELSE stake_amount[<<b, t>>]
  BY <1>1, <1>2, <1>11
<1>13. \A b \in Apps, p \in RewardPool :
         IF b = k[1] /\ p = PoolOf(k[2]) THEN Pays(ledger[b][p], ledger'[b][p], due, 1)
                                         ELSE ledger'[b][p] = ledger[b][p]
  <2>1. Pays(ledger[a][pool], LedgerResize(ledger[a][pool], due), due, 1)
    BY DEF LedgerResize, Pays
  <2> HIDE DEF k, pool, due
  <2>2. QED
    BY <1>9, <1>11, <2>1 DEF pool
<1>14. \A b \in Apps, p \in RewardPool :
        total'[b][p] = IF b = k[1] /\ p = PoolOf(k[2]) THEN total[b][p] + (-x) ELSE total[b][p]
  BY <1>6, <1>11
<1> HIDE DEF k, pool, q
<1>15. QED
  BY <1>4, <1>5, <1>7, <1>10, <1>11, <1>12, <1>13, <1>14 DEF Settles, k

\* claim_vote_reward and claim_tag_reward.
LEMMA ClaimSettles ==
  ASSUME IInv, NEW a \in Apps, NEW s \in Slots, NEW u \in Users, Claim(a, s, u)
  PROVE  Settles(<<a, s, u>>, 0, 0)
<1> DEFINE k == <<a, s, u>>
           pool == PoolOf(s)
           due == Pending(k)
           q == AfterClaim(pos[k], acc[a][pool])
<1>1. TypeOK
  BY DEF IInv
<1>2. /\ k \in Positions /\ pool \in RewardPool
      /\ pos[k].amount \in Nat /\ due \in Nat
      /\ \A b \in Apps, p \in RewardPool : total[b][p] \in Nat
      /\ \A b \in Apps, t \in Tags : stake_amount[<<b, t>>] \in Nat
      /\ vault \in Nat /\ ledger[a][pool] \in LedgerEntry
  <2>1. k \in Positions /\ pool \in RewardPool
    BY <1>1, KeyFacts
  <2>2. pos[k].amount \in Nat /\ due \in Nat
    BY <1>1, <2>1, PendingIsNat
  <2>3. /\ \A b \in Apps, p \in RewardPool : total[b][p] \in Nat
        /\ \A b \in Apps, t \in Tags : stake_amount[<<b, t>>] \in Nat
        /\ vault \in Nat
    BY <1>1, WidthsPositive, BoundsNat DEF TypeOK
  <2>4. ledger[a][pool] \in LedgerEntry
    BY <1>1, <2>1 DEF TypeOK, LedgerEntry
  <2>5. QED
    BY <2>1, <2>2, <2>3, <2>4
<1>3. /\ \A j \in Positions \ {k} : pos'[j] = pos[j]
      /\ pos'[k].amount = pos[k].amount
      /\ pos'[k].reward_debt = accrued(pos[k].amount, AccOf(k))
  <2>1. pos' = [pos EXCEPT ![k] = q]
    BY DEF Claim
  <2>2. pos'[k] = q /\ \A j \in Positions \ {k} : pos'[j] = pos[j]
    BY <1>1, <1>2, <2>1 DEF TypeOK
  <2>3. QED
    BY <2>2 DEF AfterClaim, AccOf, reward_debt_for
<1>4. pos[k].amount + 0 = pos[k].amount
  BY <1>2
<1>5. ledger' = [ledger EXCEPT ![a][pool] = LedgerClaim(ledger[a][pool], due)]
  BY <1>1, <1>2 DEF Claim, TypeOK
<1>6. \A b \in Apps, p \in RewardPool :
        ledger'[b][p] = IF b = a /\ p = pool THEN LedgerClaim(ledger[b][p], due)
                                             ELSE ledger[b][p]
  BY <1>1, <1>2, <1>5 DEF TypeOK
<1>7. /\ acc' = acc /\ apps' = apps /\ suggested' = suggested
      /\ total' = total /\ stake_amount' = stake_amount /\ vault' = vault - due
  BY DEF Claim, accounts
<1>8. k[1] = a /\ k[2] = s
  OBVIOUS
<1>9. \A b \in Apps, p \in RewardPool :
         IF b = k[1] /\ p = PoolOf(k[2]) THEN Pays(ledger[b][p], ledger'[b][p], due, 0)
                                         ELSE ledger'[b][p] = ledger[b][p]
  <2>1. Pays(ledger[a][pool], LedgerClaim(ledger[a][pool], due), due, 0)
    BY <1>2 DEF LedgerClaim, Pays, LedgerEntry
  <2> HIDE DEF k, pool, due
  <2>2. QED
    BY <1>6, <1>8, <2>1 DEF pool
<1>10. /\ vault' = vault - due + 0
       /\ \A b \in Apps, p \in RewardPool :
            total'[b][p] = IF b = k[1] /\ p = PoolOf(k[2]) THEN total[b][p] + 0 ELSE total[b][p]
       /\ \A b \in Apps, t \in Tags :
            stake_amount'[<<b, t>>] = IF b = k[1] /\ t = k[2] THEN stake_amount[<<b, t>>] + 0
                                                             ELSE stake_amount[<<b, t>>]
  <2> HIDE DEF k, pool, due
  <2>1. QED
    BY <1>2, <1>7
<1> HIDE DEF k, pool, q
<1>11. QED
  BY <1>2, <1>3, <1>4, <1>7, <1>9, <1>10 DEF Settles, k

\* close_vote_position and close_tag_stake_position, which pay nothing.
LEMMA CloseSettles ==
  ASSUME IInv, NEW k \in Positions, Close(k)
  PROVE  Settles(k, 0, 0)
<1>1. TypeOK
  BY DEF IInv
<1>2. k[1] \in Apps /\ PoolOf(k[2]) \in RewardPool
  BY DEF Positions, PoolOf, RewardPool
<1>3. /\ pos' = [pos EXCEPT ![k] = NoPosition] /\ pos[k].amount = 0
      /\ acc' = acc /\ apps' = apps /\ suggested' = suggested
      /\ total' = total /\ stake_amount' = stake_amount
      /\ vault' = vault /\ ledger' = ledger
  BY DEF Close, Closable, accounts
<1>4. Pending(k) = 0 /\ accrued(0, AccOf(k)) = 0
  <2>1. /\ AccOf(k) \in Nat /\ pos[k].reward_debt \in Nat
        /\ Pending(k) = settle_pending(pos[k].amount, pos[k].reward_debt, AccOf(k))
    BY <1>1, PendingIsNat
  <2>2. settle_pending(0, pos[k].reward_debt, AccOf(k)) = 0
    BY <2>1, SettleFacts
  <2>3. accrued(0, AccOf(k)) = 0
    BY <2>1, AccruedFacts
  <2>4. QED
    BY <1>3, <2>1, <2>2, <2>3
<1>5. pos'[k] = NoPosition /\ \A j \in Positions \ {k} : pos'[j] = pos[j]
  BY <1>1, <1>3 DEF TypeOK
<1>6. /\ pos'[k].amount = pos[k].amount + 0
      /\ pos'[k].reward_debt = accrued(pos[k].amount + 0, AccOf(k))
      /\ pos[k].amount + 0 \in Nat
  BY <1>3, <1>4, <1>5 DEF NoPosition
<1>7. /\ \A b \in Apps, p \in RewardPool : total[b][p] \in Nat
      /\ \A b \in Apps, t \in Tags : stake_amount[<<b, t>>] \in Nat
      /\ vault \in Nat /\ ledger[k[1]][PoolOf(k[2])] \in LedgerEntry
  BY <1>1, <1>2, WidthsPositive, BoundsNat DEF TypeOK, LedgerEntry
<1>8. Pays(ledger[k[1]][PoolOf(k[2])], ledger'[k[1]][PoolOf(k[2])], Pending(k), 0)
  BY <1>3, <1>4, <1>7 DEF Pays, LedgerEntry
<1>9. QED
  BY <1>3, <1>4, <1>5, <1>6, <1>7, <1>8 DEF Settles

\* Registering an app or a tag, initializing and the clock move nothing: the counters
\* that init_app and suggest_tag zero were zero.
LEMMA AccountsMoveNothing ==
  ASSUME IInv, NothingUnregistered,
         \/ Initialize
         \/ \E a \in Apps : InitApp(a)
         \/ \E a \in Apps, t \in Tags : SuggestTag(a, t)
         \/ Tick
         \/ UNCHANGED vars
  PROVE  NoMoneyMoves
<1>1. /\ acc \in [Apps -> [RewardPool -> 0..U128Max]]
      /\ total \in [Apps -> [RewardPool -> 0..U64Max]]
      /\ stake_amount \in [Apps \X Tags -> 0..U64Max]
  BY DEF IInv, TypeOK
<1>2. ASSUME NEW a \in Apps, InitApp(a)
      PROVE  NoMoneyMoves
  <2>1. a \in Apps \ apps
    BY <1>2 DEF InitApp
  <2>2. acc[a] = [p \in RewardPool |-> 0] /\ total[a] = [p \in RewardPool |-> 0]
    BY <1>1, <2>1 DEF IInv, NothingUnregistered
  <2>3. acc' = acc /\ total' = total
    BY <1>1, <1>2, <2>2 DEF InitApp
  <2>4. QED
    BY <1>2, <2>3 DEF InitApp, NoMoneyMoves
<1>3. ASSUME NEW a \in Apps, NEW t \in Tags, SuggestTag(a, t)
      PROVE  NoMoneyMoves
  <2>1. <<a, t>> \in (Apps \X Tags) \ suggested
    BY <1>3 DEF SuggestTag
  <2>2. stake_amount[<<a, t>>] = 0
    BY <2>1 DEF NothingUnregistered
  <2>3. stake_amount' = stake_amount
    BY <1>1, <1>3, <2>2 DEF SuggestTag
  <2>4. QED
    BY <1>3, <2>3 DEF SuggestTag, NoMoneyMoves
<1>4. CASE Initialize \/ Tick \/ UNCHANGED vars
  BY <1>4 DEF Initialize, Tick, vars, accounts, NoMoneyMoves
<1>5. QED
  BY <1>2, <1>3, <1>4

\* Every step has one of the three shapes.
LEMMA StepShapes ==
  ASSUME IInv, NothingUnregistered, [Next]_vars
  PROVE  \/ \E k \in Positions, n \in Int, r \in {0, 1} : Settles(k, n, r)
         \/ \E a \in Apps, p \in RewardPool, x \in Amounts : FundAppRewards(a, p, x)
         \/ NoMoneyMoves
<1> DEFINE Some == \E k \in Positions, n \in Int, r \in {0, 1} : Settles(k, n, r)
<1>1. /\ VoteSlot \in Slots /\ Tags \subseteq Slots
      /\ \A a \in Apps, s \in Slots, u \in Users : <<a, s, u>> \in Positions
      /\ \A t \in Tags : t # VoteSlot
      /\ \A x \in Amounts : x \in Nat /\ x \in Int /\ -x \in Int
  BY VoteSlotIsNoTag, BoundsNat DEF Slots, Positions, Amounts
<1>2. stake_amount \in [Apps \X Tags -> 0..U64Max]
  BY DEF IInv, TypeOK
<1>3. ASSUME NEW a \in Apps, NEW u \in Users, NEW x \in Amounts, Vote(a, u, x)
      PROVE  Some
  <2>1. Settles(<<a, VoteSlot, u>>, x, 1)
    BY <1>1, <1>3, DepositSettles DEF Vote
  <2>2. QED
    BY <1>1, <2>1
<1>4. ASSUME NEW a \in Apps, NEW t \in Tags, NEW u \in Users, NEW x \in Amounts,
             StakeTag(a, t, u, x)
      PROVE  Some
  <2>1. \A b \in Apps, t2 \in Tags :
          stake_amount'[<<b, t2>>] = IF b = a /\ t2 = t THEN stake_amount[<<b, t2>>] + x
                                                       ELSE stake_amount[<<b, t2>>]
    BY <1>2, <1>4 DEF StakeTag
  <2>2. Settles(<<a, t, u>>, x, 1)
    BY <1>1, <1>4, <2>1, DepositSettles DEF StakeTag
  <2>3. QED
    BY <1>1, <2>2
<1>5. ASSUME NEW a \in Apps, NEW u \in Users, NEW x \in Amounts, WithdrawVote(a, u, x)
      PROVE  Some
  <2>1. Settles(<<a, VoteSlot, u>>, -x, 1)
    BY <1>1, <1>5, WithdrawSettles DEF WithdrawVote
  <2>2. QED
    BY <1>1, <2>1
<1>6. ASSUME NEW a \in Apps, NEW t \in Tags, NEW u \in Users, NEW x \in Amounts,
             WithdrawTagStake(a, t, u, x)
      PROVE  Some
  <2>1. \A b \in Apps, t2 \in Tags :
          stake_amount'[<<b, t2>>] = IF b = a /\ t2 = t THEN stake_amount[<<b, t2>>] - x
                                                       ELSE stake_amount[<<b, t2>>]
    BY <1>2, <1>6 DEF WithdrawTagStake
  <2>2. Settles(<<a, t, u>>, -x, 1)
    BY <1>1, <1>6, <2>1, WithdrawSettles DEF WithdrawTagStake
  <2>3. QED
    BY <1>1, <2>2
<1>7. ASSUME NEW a \in Apps, NEW s \in Slots, NEW u \in Users, Claim(a, s, u)
      PROVE  Some
  <2>1. Settles(<<a, s, u>>, 0, 0)
    BY <1>7, ClaimSettles
  <2>2. QED
    BY <1>1, <2>1
<1>8. ASSUME NEW a \in Apps, NEW s \in Slots, NEW u \in Users, Close(<<a, s, u>>)
      PROVE  Some
  <2>1. Settles(<<a, s, u>>, 0, 0)
    BY <1>1, <1>8, CloseSettles
  <2>2. QED
    BY <1>1, <2>1
<1> HIDE DEF Some
<1>9. \A a \in Apps, u \in Users :
        ClaimVoteReward(a, u) \/ CloseVotePosition(a, u) => Some
  BY <1>1, <1>7, <1>8 DEF ClaimVoteReward, CloseVotePosition
<1>10. \A a \in Apps, t \in Tags, u \in Users :
         ClaimTagReward(a, t, u) \/ CloseTagStakePosition(a, t, u) => Some
  BY <1>1, <1>7, <1>8 DEF ClaimTagReward, CloseTagStakePosition
<1>11. \/ Some
       \/ \E a \in Apps, p \in RewardPool, x \in Amounts : FundAppRewards(a, p, x)
       \/ NoMoneyMoves
  BY <1>3, <1>4, <1>5, <1>6, <1>9, <1>10, AccountsMoveNothing DEF Next
<1>12. QED
  BY <1>11 DEF Some

-----------------------------------------------------------------------------
(***************************************************************************)
(* The counters and the vault.                                             *)
(***************************************************************************)
LEMMA UnregisteredStaysEmpty ==
  ASSUME IInv, NothingUnregistered, [Next]_vars
  PROVE  NothingUnregistered'
<1>1. /\ \A a \in Apps, p \in RewardPool : total[a][p] \in Nat
      /\ \A at \in Apps \X Tags : stake_amount[at] \in Nat
  BY WidthsPositive DEF IInv, TypeOK
<1>2. ASSUME NEW k \in Positions, NEW n \in Int, NEW r \in {0, 1}, Settles(k, n, r)
      PROVE  NothingUnregistered'
  <2>1. apps' = apps /\ suggested' = suggested
    BY <1>2 DEF Settles
  <2>2. ASSUME NEW a \in Apps \ apps, NEW p \in RewardPool
        PROVE  total'[a][p] = 0
    <3>1. total[a][p] = 0 /\ (n = 0 \/ a # k[1])
      BY <1>2 DEF Settles, Loaded, NothingUnregistered
    <3>2. total'[a][p] = IF a = k[1] /\ p = PoolOf(k[2]) THEN total[a][p] + n ELSE total[a][p]
      BY <1>2 DEF Settles
    <3>3. QED
      BY <3>1, <3>2
  <2>3. ASSUME NEW a \in Apps, NEW t \in Tags, <<a, t>> \notin suggested
        PROVE  stake_amount'[<<a, t>>] = 0
    <3>1. stake_amount[<<a, t>>] = 0 /\ (n = 0 \/ ~(a = k[1] /\ t = k[2]))
      BY <1>2, <2>3 DEF Settles, Loaded, NothingUnregistered
    <3>2. \/ stake_amount'[<<a, t>>] = stake_amount[<<a, t>>]
          \/ stake_amount'[<<a, t>>] = stake_amount[<<a, t>>] + n /\ a = k[1] /\ t = k[2]
      BY <1>2 DEF Settles
    <3>3. QED
      BY <3>1, <3>2
  <2>4. QED
    BY <2>1, <2>2, <2>3 DEF NothingUnregistered
<1>3. ASSUME NEW a \in Apps, NEW p \in RewardPool, NEW x \in Amounts,
             FundAppRewards(a, p, x)
      PROVE  NothingUnregistered'
  BY <1>3 DEF FundAppRewards, accounts, NothingUnregistered
<1>4. CASE NoMoneyMoves
  BY <1>4 DEF NoMoneyMoves, NothingUnregistered
<1>5. QED
  BY <1>2, <1>3, <1>4, StepShapes

\* The finite sets the sums range over.
LEMMA FiniteBooks ==
  /\ IsFiniteSet(Positions) /\ IsFiniteSet(Pools)
  /\ \A a, p : IsFiniteSet(PoolPositions(a, p)) /\ PoolPositions(a, p) \subseteq Positions
  /\ \A a, t : IsFiniteSet(TagPositions(a, t)) /\ TagPositions(a, t) \subseteq Positions
<1>1. IsFiniteSet(Slots)
  <2>1. IsFiniteSet({VoteSlot})
    BY FS_Singleton
  <2>2. QED
    BY <2>1, UsersFinite, FS_Union DEF Slots
<1>2. IsFiniteSet(Positions)
  BY <1>1, UsersFinite, TriplesFinite DEF Positions
<1>3. IsFiniteSet(Pools)
  <2>1. IsFiniteSet({"Vote"}) /\ IsFiniteSet({"Tags"})
    BY FS_Singleton
  <2>2. RewardPool = {"Vote"} \cup {"Tags"}
    BY DEF RewardPool
  <2>3. IsFiniteSet(RewardPool)
    BY <2>1, <2>2, FS_Union
  <2>4. QED
    BY <2>3, UsersFinite, FS_Product DEF Pools
<1>4. \A a, p : PoolPositions(a, p) \in SUBSET Positions
  BY DEF PoolPositions
<1>5. \A a, t : TagPositions(a, t) \in SUBSET Positions
  BY DEF TagPositions
<1>6. QED
  BY <1>2, <1>3, <1>4, <1>5, FS_Subset

\* Amounts are naturals.
LEMMA AmountsAreNat ==
  ASSUME TypeOK
  PROVE  \A k \in Positions : amountOf[k] = pos[k].amount /\ amountOf[k] \in Nat
  BY WidthsPositive DEF TypeOK, amountOf

\* Settling k moves the stake of the sets of positions k is in, by what it gains.
LEMMA AmountsMove ==
  ASSUME TypeOK, NEW k \in Positions, NEW n \in Int, NEW r, Settles(k, n, r),
         NEW K, K \subseteq Positions
  PROVE  SumFunctionOnSet(amountOf', K) =
           IF k \in K THEN SumFunctionOnSet(amountOf, K) + n ELSE SumFunctionOnSet(amountOf, K)
<1> DEFINE f == amountOf
           g == amountOf'
<1>1. /\ \A j \in Positions : f[j] = pos[j].amount /\ f[j] \in Nat
      /\ \A j \in Positions : g[j] = pos'[j].amount
  BY AmountsAreNat DEF amountOf
<1>2. /\ \A j \in Positions \ {k} : g[j] = f[j]
      /\ g[k] = f[k] + n
  BY <1>1 DEF Settles
<1>3. /\ \A j \in Positions : f[j] \in Int /\ g[j] \in Int
      /\ g[k] - f[k] = n
  BY <1>1, <1>2
<1> HIDE DEF f, g
<1>4. SumFunctionOnSet(g, K) = IF k \in K THEN SumFunctionOnSet(f, K) + (g[k] - f[k])
                                         ELSE SumFunctionOnSet(f, K)
  BY <1>2, <1>3, FiniteBooks, SumMoves
<1>5. QED
  BY <1>3, <1>4 DEF f, g

\* The stake counters move with the positions they count.
LEMMA StepKeepsTotals ==
  ASSUME IInv, NothingUnregistered, StakeTotals, [Next]_vars
  PROVE  StakeTotals'
<1>0. TypeOK
  BY DEF IInv
<1>1. ASSUME NEW k \in Positions, NEW n \in Int, NEW r \in {0, 1}, Settles(k, n, r)
      PROVE  StakeTotals'
  <2>1. ASSUME NEW a \in Apps, NEW p \in RewardPool
        PROVE  total'[a][p] = SumFunctionOnSet(amountOf', PoolPositions(a, p))
    <3>1. total'[a][p] = IF a = k[1] /\ p = PoolOf(k[2]) THEN total[a][p] + n ELSE total[a][p]
      BY <1>1 DEF Settles
    <3>2. k \in PoolPositions(a, p) <=> a = k[1] /\ p = PoolOf(k[2])
      BY DEF PoolPositions
    <3>3. PoolPositions(a, p) \subseteq Positions
      BY DEF PoolPositions
    <3>4. SumFunctionOnSet(amountOf', PoolPositions(a, p)) =
            IF k \in PoolPositions(a, p) THEN SumFunctionOnSet(amountOf, PoolPositions(a, p)) + n
                                         ELSE SumFunctionOnSet(amountOf, PoolPositions(a, p))
      BY <1>0, <1>1, <3>3, AmountsMove
    <3>5. total[a][p] = SumFunctionOnSet(amountOf, PoolPositions(a, p))
      BY DEF StakeTotals
    <3>6. QED
      BY <3>1, <3>2, <3>4, <3>5
  <2>2. ASSUME NEW a \in Apps, NEW t \in Tags
        PROVE  stake_amount'[<<a, t>>] = SumFunctionOnSet(amountOf', TagPositions(a, t))
    <3>1. stake_amount'[<<a, t>>] = IF a = k[1] /\ t = k[2] THEN stake_amount[<<a, t>>] + n
                                                           ELSE stake_amount[<<a, t>>]
      BY <1>1 DEF Settles
    <3>2. k \in TagPositions(a, t) <=> a = k[1] /\ t = k[2]
      BY DEF TagPositions
    <3>3. TagPositions(a, t) \subseteq Positions
      BY DEF TagPositions
    <3>4. SumFunctionOnSet(amountOf', TagPositions(a, t)) =
            IF k \in TagPositions(a, t) THEN SumFunctionOnSet(amountOf, TagPositions(a, t)) + n
                                        ELSE SumFunctionOnSet(amountOf, TagPositions(a, t))
      BY <1>0, <1>1, <3>3, AmountsMove
    <3>5. stake_amount[<<a, t>>] = SumFunctionOnSet(amountOf, TagPositions(a, t))
      BY DEF StakeTotals
    <3>6. QED
      BY <3>1, <3>2, <3>4, <3>5
  <2>3. QED
    BY <2>1, <2>2 DEF StakeTotals, PoolPositions, TagPositions
<1>2. ASSUME UNCHANGED <<pos, total, stake_amount>>
      PROVE  StakeTotals'
  BY <1>2 DEF StakeTotals, amountOf, PoolPositions, TagPositions
<1>3. ASSUME NEW a \in Apps, NEW p \in RewardPool, NEW x \in Amounts,
             FundAppRewards(a, p, x)
      PROVE  StakeTotals'
  BY <1>2, <1>3 DEF FundAppRewards
<1>4. CASE NoMoneyMoves
  BY <1>2, <1>4 DEF NoMoneyMoves
<1>5. QED
  BY <1>1, <1>3, <1>4, StepShapes

\* The histories a payment leaves alone.
LEMMA PaymentsMove ==
  ASSUME TypeOK, NEW k \in Positions, NEW n, NEW r, Settles(k, n, r)
  PROVE  /\ SumFunctionOnSet(paidTo', Pools) = SumFunctionOnSet(paidTo, Pools) + Pending(k)
         /\ SumFunctionOnSet(fundedTo', Pools) = SumFunctionOnSet(fundedTo, Pools)
<1> DEFINE kp == <<k[1], PoolOf(k[2])>>
           f == paidTo
           g == paidTo'
           ff == fundedTo
           gg == fundedTo'
<1>1. kp \in Pools /\ \A ap \in Pools : ap[1] \in Apps /\ ap[2] \in RewardPool
  BY DEF Positions, Pools, PoolOf, RewardPool
<1>2. Pending(k) \in Nat
  BY PendingIsNat
<1>3. \A ap \in Pools :
        /\ f[ap] = ledger[ap[1]][ap[2]].paid /\ f[ap] \in Nat
        /\ g[ap] = ledger'[ap[1]][ap[2]].paid
        /\ ff[ap] = ledger[ap[1]][ap[2]].funded
        /\ gg[ap] = ledger'[ap[1]][ap[2]].funded
  BY <1>1 DEF TypeOK, paidTo, fundedTo
<1>4. \A ap \in Pools : ap # kp => ap[1] # k[1] \/ ap[2] # PoolOf(k[2])
  BY DEF Pools
<1>5. \A ap \in Pools : ap # kp => ledger'[ap[1]][ap[2]] = ledger[ap[1]][ap[2]]
  BY <1>1, <1>4 DEF Settles
<1>6. Pays(ledger[k[1]][PoolOf(k[2])], ledger'[k[1]][PoolOf(k[2])], Pending(k), r)
  BY <1>1 DEF Settles, Pools
<1>7. g[kp] = f[kp] + Pending(k) /\ gg[kp] = ff[kp]
  BY <1>1, <1>3, <1>6 DEF Pays
<1>8. \A ap \in Pools \ {kp} : g[ap] = f[ap] /\ gg[ap] = ff[ap]
  BY <1>3, <1>5
<1> HIDE DEF f, g, ff, gg, kp
<1>9. \A ap \in Pools : f[ap] \in Int /\ g[ap] \in Int
  BY <1>2, <1>3, <1>7, <1>8
<1>10. SumFunctionOnSet(g, Pools) = SumFunctionOnSet(f, Pools) + (g[kp] - f[kp])
  BY <1>1, <1>8, <1>9, FiniteBooks, SumChanges
<1>11. g[kp] - f[kp] = Pending(k)
  BY <1>1, <1>2, <1>3, <1>7
<1>12. \A ap \in Pools : gg[ap] = ff[ap]
  BY <1>7, <1>8
<1>13. SumFunctionOnSet(gg, Pools) = SumFunctionOnSet(ff, Pools)
  BY <1>12, FiniteBooks, SumAgrees
<1>14. QED
  BY <1>10, <1>11, <1>13 DEF f, g, ff, gg

\* Funding a pool adds to what was funded, and to nothing else.
LEMMA FundingMoves ==
  ASSUME TypeOK, NEW a \in Apps, NEW p \in RewardPool, NEW x \in Amounts,
         FundAppRewards(a, p, x)
  PROVE  /\ \A b \in Apps, q \in RewardPool :
              ledger'[b][q] = IF b = a /\ q = p THEN LedgerFund(ledger[b][q], x) ELSE ledger[b][q]
         /\ SumFunctionOnSet(fundedTo', Pools) = SumFunctionOnSet(fundedTo, Pools) + x
         /\ SumFunctionOnSet(paidTo', Pools) = SumFunctionOnSet(paidTo, Pools)
<1> DEFINE ap0 == <<a, p>>
           f == paidTo
           g == paidTo'
           ff == fundedTo
           gg == fundedTo'
<1>1. ap0 \in Pools /\ \A ap \in Pools : ap[1] \in Apps /\ ap[2] \in RewardPool
  BY DEF Pools
<1>2. \A b \in Apps, q \in RewardPool :
        ledger'[b][q] = IF b = a /\ q = p THEN LedgerFund(ledger[b][q], x) ELSE ledger[b][q]
  BY DEF FundAppRewards, TypeOK
<1>3. \A ap \in Pools :
        /\ f[ap] = ledger[ap[1]][ap[2]].paid /\ ff[ap] = ledger[ap[1]][ap[2]].funded
        /\ ff[ap] \in Nat
        /\ g[ap] = ledger'[ap[1]][ap[2]].paid /\ gg[ap] = ledger'[ap[1]][ap[2]].funded
  BY <1>1 DEF TypeOK, paidTo, fundedTo
<1>4. \A ap \in Pools : ap # ap0 => ap[1] # a \/ ap[2] # p
  BY DEF Pools
<1>5. \A ap \in Pools \ {ap0} : g[ap] = f[ap] /\ gg[ap] = ff[ap]
  BY <1>1, <1>2, <1>3, <1>4
<1>6. g[ap0] = f[ap0] /\ gg[ap0] = ff[ap0] + x
  <2>1. ap0[1] = a /\ ap0[2] = p
    OBVIOUS
  <2>2. ledger'[a][p] = LedgerFund(ledger[a][p], x)
    BY <1>2
  <2> HIDE DEF ap0, f, g, ff, gg
  <2>3. QED
    BY <1>1, <1>3, <2>1, <2>2 DEF LedgerFund
<1>7. x \in Nat
  BY BoundsNat DEF Amounts
<1> HIDE DEF f, g, ff, gg, ap0
<1>8. \A ap \in Pools : ff[ap] \in Int /\ gg[ap] \in Int
  BY <1>3, <1>5, <1>6, <1>7
<1>9. SumFunctionOnSet(gg, Pools) = SumFunctionOnSet(ff, Pools) + (gg[ap0] - ff[ap0])
  BY <1>1, <1>5, <1>8, FiniteBooks, SumChanges
<1>10. gg[ap0] - ff[ap0] = x
  BY <1>1, <1>6, <1>7, <1>8
<1>11. \A ap \in Pools : g[ap] = f[ap]
  BY <1>5, <1>6
<1>12. SumFunctionOnSet(g, Pools) = SumFunctionOnSet(f, Pools)
  BY <1>11, FiniteBooks, SumAgrees
<1>13. QED
  BY <1>2, <1>9, <1>10, <1>12 DEF f, g, ff, gg

\* The sums of the books are integers.
LEMMA BooksAreInt ==
  ASSUME TypeOK
  PROVE  /\ SumFunctionOnSet(paidTo, Pools) \in Int
         /\ SumFunctionOnSet(fundedTo, Pools) \in Int
         /\ SumFunctionOnSet(amountOf, Positions) \in Int
         /\ vault \in Int
<1>1. \A ap \in Pools : paidTo[ap] \in Int /\ fundedTo[ap] \in Int
  BY DEF Pools, TypeOK, paidTo, fundedTo
<1>2. \A k \in Positions : amountOf[k] \in Int
  BY AmountsAreNat
<1>3. vault \in Int
  BY BoundsNat DEF TypeOK
<1>4. QED
  BY <1>1, <1>2, <1>3, FiniteBooks, SumIsInt

\* Whatever leaves the vault leaves the books, and the other way round.
LEMMA StepKeepsVault ==
  ASSUME IInv, NothingUnregistered, VaultBacksTheBooks, [Next]_vars
  PROVE  VaultBacksTheBooks'
<1>0. TypeOK
  BY DEF IInv
<1> DEFINE paid == SumFunctionOnSet(paidTo, Pools)
           funded == SumFunctionOnSet(fundedTo, Pools)
           held == SumFunctionOnSet(amountOf, Positions)
           Balance(v, q, h, f) == v + q = h + f
<1>1. paid \in Int /\ funded \in Int /\ held \in Int /\ vault \in Int
  BY <1>0, BooksAreInt
<1>2. Balance(vault, paid, held, funded)
  BY DEF VaultBacksTheBooks
<1>3. SUFFICES Balance(vault', SumFunctionOnSet(paidTo', Pools),
                       SumFunctionOnSet(amountOf', Positions), SumFunctionOnSet(fundedTo', Pools))
  BY DEF VaultBacksTheBooks, Pools, Positions
<1> HIDE DEF paid, funded, held
<1>4. ASSUME NEW k \in Positions, NEW n \in Int, NEW r \in {0, 1}, Settles(k, n, r)
      PROVE  Balance(vault', SumFunctionOnSet(paidTo', Pools),
                     SumFunctionOnSet(amountOf', Positions), SumFunctionOnSet(fundedTo', Pools))
  <2>1. vault' = vault - Pending(k) + n
    BY <1>4 DEF Settles
  <2>2. Pending(k) \in Nat
    BY <1>0, PendingIsNat
  <2>3. SumFunctionOnSet(amountOf', Positions) = held + n
    BY <1>0, <1>4, AmountsMove DEF held
  <2>4. /\ SumFunctionOnSet(paidTo', Pools) = paid + Pending(k)
        /\ SumFunctionOnSet(fundedTo', Pools) = funded
    BY <1>0, <1>4, PaymentsMove DEF paid, funded
  <2>5. vault' + (paid + Pending(k)) = (held + n) + funded
    BY <1>1, <1>2, <2>1, <2>2
  <2>6. QED
    BY <2>3, <2>4, <2>5
<1>5. ASSUME NEW a \in Apps, NEW p \in RewardPool, NEW x \in Amounts,
             FundAppRewards(a, p, x)
      PROVE  Balance(vault', SumFunctionOnSet(paidTo', Pools),
                     SumFunctionOnSet(amountOf', Positions), SumFunctionOnSet(fundedTo', Pools))
  <2>1. vault' = vault + x
    BY <1>5 DEF FundAppRewards
  <2>2. /\ SumFunctionOnSet(paidTo', Pools) = paid
        /\ SumFunctionOnSet(fundedTo', Pools) = funded + x
    BY <1>0, <1>5, FundingMoves DEF paid, funded
  <2>3. x \in Int
    BY BoundsNat DEF Amounts
  <2>4. SumFunctionOnSet(amountOf', Positions) = held
    <3>1. amountOf' = amountOf
      BY <1>5 DEF FundAppRewards, amountOf
    <3>2. QED
      BY <3>1 DEF held
  <2>5. vault' + paid = held + (funded + x)
    BY <1>1, <1>2, <2>1, <2>3
  <2>6. QED
    BY <2>2, <2>4, <2>5
<1>6. CASE NoMoneyMoves
  <2>1. vault' = vault /\ paidTo' = paidTo /\ fundedTo' = fundedTo /\ amountOf' = amountOf
    BY <1>6 DEF NoMoneyMoves, paidTo, fundedTo, amountOf
  <2>2. QED
    BY <1>2, <2>1 DEF paid, funded, held
<1>7. QED
  BY <1>4, <1>5, <1>6, StepShapes

-----------------------------------------------------------------------------
(***************************************************************************)
(* Rounding.  In units of 1 / REWARD_PRECISION a position has earned an    *)
(* exact amount since its checkpoint, of which settle_pending pays the     *)
(* whole units.  What is secured of it counts one residue, of less than a  *)
(* unit, as lost in advance.  Settling a position moves what was earned to *)
(* what was paid, but for a residue; funding adds to the earnings what it  *)
(* adds to the books, but for the remainder of the division by the stake.  *)
(***************************************************************************)
Earned(k) == pos[k].amount * AccOf(k) - REWARD_PRECISION * pos[k].reward_debt
Residue(x) == IF x > 0 THEN REWARD_PRECISION - 1 ELSE 0

earnedOf == [k \in Positions |-> Earned(k)]
securedOf == [k \in Positions |-> Earned(k) - Residue(pos[k].amount)]

RoundingInv ==
  \A a \in Apps, p \in RewardPool :
    LET l == ledger[a][p]
    IN /\ REWARD_PRECISION * l.paid + SumFunctionOnSet(earnedOf, PoolPositions(a, p))
            <= REWARD_PRECISION * l.funded + (REWARD_PRECISION - 1) * l.resizes
       /\ REWARD_PRECISION * l.funded
            <= REWARD_PRECISION * l.paid + SumFunctionOnSet(securedOf, PoolPositions(a, p))
                 + (REWARD_PRECISION - 1) * l.resizes + U64Max * l.fundings

\* A quotient and its remainder.
LEMMA DivBounds ==
  ASSUME NEW m \in Nat, NEW d \in Nat \ {0}
  PROVE  /\ m \div d \in Nat
         /\ d * (m \div d) <= m
         /\ m <= d * (m \div d) + (d - 1)
  OBVIOUS

\* Products of integers are integers, and distribute.
LEMMA TimesFacts ==
  ASSUME NEW c \in Int, NEW m \in Int, NEW n \in Int
  PROVE  /\ c * m \in Int
         /\ c * (m + n) = c * m + c * n
         /\ c * (m - n) = c * m - c * n
         /\ (m + n) * c = m * c + n * c
  OBVIOUS

\* What a position is owed is what it earned, rounded down to whole units.
LEMMA PendingOfEarned ==
  ASSUME IInv, NEW k \in Positions
  PROVE  /\ Earned(k) \in Int /\ Pending(k) \in Nat
         /\ REWARD_PRECISION * Pending(k) \in Int
         /\ REWARD_PRECISION * Pending(k) <= Earned(k)
         /\ Earned(k) <= REWARD_PRECISION * Pending(k) + (REWARD_PRECISION - 1)
         /\ pos[k].amount = 0 => Earned(k) = 0 /\ Pending(k) = 0
         /\ pos[k].amount \in Nat /\ AccOf(k) \in Nat /\ pos[k].reward_debt \in Nat
         /\ Pending(k) = accrued(pos[k].amount, AccOf(k)) - pos[k].reward_debt
<1> DEFINE m == pos[k].amount * AccOf(k)
           w == accrued(pos[k].amount, AccOf(k))
           d == pos[k].reward_debt
<1>1. TypeOK
  BY DEF IInv
<1>2. /\ Pending(k) \in Nat
      /\ Pending(k) = settle_pending(pos[k].amount, d, AccOf(k))
      /\ AccOf(k) \in Nat /\ pos[k].amount \in Nat /\ d \in Nat
  BY <1>1, PendingIsNat
<1>3. m \in Nat
  BY <1>2, TimesMonotone
<1>4. w = m \div REWARD_PRECISION
  BY DEF accrued
<1>5. d <= w
  BY DEF IInv, Checkpointed
<1> HIDE DEF m
<1>6. w \in Nat /\ REWARD_PRECISION * w <= m /\ m <= REWARD_PRECISION * w + (REWARD_PRECISION - 1)
  BY <1>3, <1>4, DivBounds, PrecisionPositive
<1>7. Pending(k) = w - d
  BY <1>2, <1>5, <1>6 DEF settle_pending, SaturatingSub
<1> HIDE DEF w, d
<1>8. /\ REWARD_PRECISION * Pending(k) = REWARD_PRECISION * w - REWARD_PRECISION * d
      /\ REWARD_PRECISION * w \in Int /\ REWARD_PRECISION * d \in Int
  BY <1>2, <1>6, <1>7, TimesFacts, PrecisionPositive
<1>9. Earned(k) = m - REWARD_PRECISION * d
  BY DEF Earned, m, d
<1>10. REWARD_PRECISION \in Int
  BY PrecisionPositive
<1>11. pos[k].amount = 0 => Earned(k) = 0 /\ Pending(k) = 0
  <2> SUFFICES ASSUME pos[k].amount = 0
               PROVE  Earned(k) = 0 /\ Pending(k) = 0
    OBVIOUS
  <2>1. w = 0 /\ m = 0
    BY <1>2, AccruedFacts DEF w, m
  <2>2. d = 0
    BY <1>2, <1>5, <2>1
  <2>3. QED
    BY <1>7, <1>9, <1>10, <2>1, <2>2
<1>12. QED
  BY <1>2, <1>3, <1>6, <1>7, <1>8, <1>9, <1>10, <1>11 DEF w, d

\* Settling a position turns what it had earned into what is paid and a fresh residue.
LEMMA SettledEarnings ==
  ASSUME IInv, NEW k \in Positions, NEW n \in Int, NEW r \in {0, 1}, Settles(k, n, r)
  PROVE  LET gain == REWARD_PRECISION * Pending(k) + (Earned(k)' - Earned(k))
             loss == Residue(pos'[k].amount) - Residue(pos[k].amount)
         IN /\ Earned(k)' \in Int /\ pos'[k].amount \in Nat
            /\ gain <= (REWARD_PRECISION - 1) * r
            /\ loss - gain <= (REWARD_PRECISION - 1) * r
            /\ \A j \in Positions \ {k} : pos'[j] = pos[j] /\ Earned(j)' = Earned(j)
<1> DEFINE m == (pos[k].amount + n) * AccOf(k)
           P == REWARD_PRECISION
<1>1. /\ Earned(k) \in Int /\ Pending(k) \in Nat /\ P * Pending(k) \in Int
      /\ P * Pending(k) <= Earned(k) /\ Earned(k) <= P * Pending(k) + (P - 1)
      /\ pos[k].amount = 0 => Earned(k) = 0 /\ Pending(k) = 0
      /\ pos[k].amount \in Nat /\ AccOf(k) \in Nat /\ pos[k].reward_debt \in Nat
      /\ Pending(k) = accrued(pos[k].amount, AccOf(k)) - pos[k].reward_debt
      /\ P \in Nat \ {0}
  BY PendingOfEarned, PrecisionPositive
<1>2. AccOf(k)' = AccOf(k)
  BY DEF Settles, AccOf
<1>3. m \in Nat
  BY <1>1, TimesMonotone DEF Settles
<1>4. Earned(k)' = m - P * (m \div P)
  BY <1>2 DEF Settles, Earned, accrued
<1> HIDE DEF m
<1>5. /\ m \div P \in Nat /\ P * (m \div P) \in Int
      /\ P * (m \div P) <= m /\ m <= P * (m \div P) + (P - 1)
  <2>1. m \div P \in Nat /\ P * (m \div P) <= m /\ m <= P * (m \div P) + (P - 1)
    BY <1>1, <1>3, DivBounds
  <2>2. P * (m \div P) \in Int
    BY <1>1, <2>1, TimesFacts
  <2>3. QED
    BY <2>1, <2>2
<1> HIDE DEF P
<1>6. Earned(k)' \in 0..(P - 1)
  BY <1>1, <1>3, <1>4, <1>5
<1>7. pos'[k].amount = pos[k].amount + n /\ pos'[k].amount \in Nat
  BY DEF Settles
<1>8. ASSUME r = 0
      PROVE  /\ P * Pending(k) + (Earned(k)' - Earned(k)) = 0
             /\ Residue(pos'[k].amount) = Residue(pos[k].amount)
  <2>1. n = 0
    BY <1>8 DEF Settles
  <2>2. m = pos[k].amount * AccOf(k) /\ m \div P = accrued(pos[k].amount, AccOf(k))
    BY <1>1, <2>1 DEF m, accrued, P
  <2>3. Earned(k) = m - P * pos[k].reward_debt
    BY <2>2 DEF Earned, P
  <2>4. P * Pending(k) = P * (m \div P) - P * pos[k].reward_debt /\ P * pos[k].reward_debt \in Int
    BY <1>1, <1>5, <2>2, TimesFacts
  <2>5. P * Pending(k) + (Earned(k)' - Earned(k)) = 0
    BY <1>3, <1>4, <1>5, <2>3, <2>4
  <2>6. QED
    BY <1>1, <1>7, <2>1, <2>5
<1>9. ASSUME r = 1
      PROVE  /\ P * Pending(k) + (Earned(k)' - Earned(k)) <= P - 1
             /\ Residue(pos'[k].amount) - Residue(pos[k].amount)
                  - (P * Pending(k) + (Earned(k)' - Earned(k))) <= P - 1
  <2>1. P * Pending(k) + (Earned(k)' - Earned(k)) <= P - 1
    BY <1>1, <1>6
  <2>2. Residue(pos'[k].amount) \in 0..(P - 1)
    BY <1>1 DEF Residue, P
  <2>3. CASE pos[k].amount = 0
    <3>1. Earned(k) = 0 /\ Pending(k) = 0 /\ Residue(pos[k].amount) = 0 /\ P * 0 = 0
      BY <1>1, <2>3 DEF Residue
    <3>2. QED
      BY <1>1, <1>6, <2>1, <2>2, <3>1
  <2>4. CASE pos[k].amount # 0
    <3>1. Residue(pos[k].amount) = P - 1
      BY <1>1, <2>4 DEF Residue, P
    <3>2. QED
      BY <1>1, <1>6, <2>1, <2>2, <3>1
  <2>5. QED
    BY <2>3, <2>4
<1>10. Residue(pos[k].amount) \in Int /\ P * Pending(k) \in Int /\ Earned(k) \in Int
  BY <1>1 DEF Residue, P
<1>11. ASSUME NEW j \in Positions \ {k}
       PROVE  pos'[j] = pos[j] /\ Earned(j)' = Earned(j)
  BY DEF Settles, Earned, AccOf
<1>12. CASE r = 0
  <2>1. (P - 1) * r = 0
    BY <1>1, <1>12
  <2>2. QED
    BY <1>6, <1>7, <1>8, <1>10, <1>11, <1>12, <2>1 DEF P
<1>13. CASE r = 1
  <2>1. (P - 1) * r = P - 1
    BY <1>1, <1>13
  <2>2. QED
    BY <1>6, <1>7, <1>9, <1>11, <1>13, <2>1 DEF P
<1>14. QED
  BY <1>12, <1>13

\* Earnings are integers.
LEMMA EarningsAreInt ==
  ASSUME IInv
  PROVE  \A k \in Positions :
           /\ earnedOf[k] = Earned(k) /\ earnedOf[k] \in Int
           /\ securedOf[k] = Earned(k) - Residue(pos[k].amount) /\ securedOf[k] \in Int
           /\ Residue(pos[k].amount) \in 0..(REWARD_PRECISION - 1)
<1> SUFFICES ASSUME NEW k \in Positions
             PROVE  /\ earnedOf[k] = Earned(k) /\ earnedOf[k] \in Int
                    /\ securedOf[k] = Earned(k) - Residue(pos[k].amount)
                    /\ securedOf[k] \in Int
                    /\ Residue(pos[k].amount) \in 0..(REWARD_PRECISION - 1)
  OBVIOUS
<1>1. Earned(k) \in Int
  BY PendingOfEarned
<1>2. Residue(pos[k].amount) \in 0..(REWARD_PRECISION - 1)
  BY PrecisionPositive DEF Residue
<1>3. earnedOf[k] = Earned(k) /\ securedOf[k] = Earned(k) - Residue(pos[k].amount)
  BY DEF earnedOf, securedOf
<1>4. QED
  BY <1>1, <1>2, <1>3, PrecisionPositive

\* A deposit, withdrawal, claim or close keeps the rounding within its bounds.
LEMMA RoundingWhenSettled ==
  ASSUME IInv, RoundingInv, NEW k \in Positions, NEW n \in Int, NEW r \in {0, 1},
         Settles(k, n, r)
  PROVE  RoundingInv'
<1> SUFFICES ASSUME NEW a \in Apps, NEW p \in RewardPool
             PROVE  LET l == ledger'[a][p]
                    IN /\ REWARD_PRECISION * l.paid
                            + SumFunctionOnSet(earnedOf', PoolPositions(a, p))
                              <= REWARD_PRECISION * l.funded + (REWARD_PRECISION - 1) * l.resizes
                       /\ REWARD_PRECISION * l.funded
                            <= REWARD_PRECISION * l.paid
                                 + SumFunctionOnSet(securedOf', PoolPositions(a, p))
                                 + (REWARD_PRECISION - 1) * l.resizes + U64Max * l.fundings
  BY DEF RoundingInv, PoolPositions, Positions
<1> DEFINE l == ledger[a][p]
           l2 == ledger'[a][p]
           P == REWARD_PRECISION
           K == PoolPositions(a, p)
           e == earnedOf
           e2 == earnedOf'
           c == securedOf
           c2 == securedOf'
           gain == P * Pending(k) + (Earned(k)' - Earned(k))
           loss == Residue(pos'[k].amount) - Residue(pos[k].amount)
<1>1. /\ P * l.paid + SumFunctionOnSet(e, K) <= P * l.funded + (P - 1) * l.resizes
      /\ P * l.funded
           <= P * l.paid + SumFunctionOnSet(c, K) + (P - 1) * l.resizes + U64Max * l.fundings
  BY DEF RoundingInv
<1>2. /\ Earned(k)' \in Int /\ Earned(k) \in Int /\ P * Pending(k) \in Int /\ Pending(k) \in Nat
      /\ gain <= (P - 1) * r /\ loss - gain <= (P - 1) * r
      /\ \A j \in Positions \ {k} : pos'[j] = pos[j] /\ Earned(j)' = Earned(j)
  BY SettledEarnings, PendingOfEarned
<1>3. \A j \in Positions :
        /\ e[j] = Earned(j) /\ e[j] \in Int
        /\ c[j] = Earned(j) - Residue(pos[j].amount) /\ c[j] \in Int
        /\ Residue(pos[j].amount) \in Int
  BY EarningsAreInt, PrecisionPositive
<1>4. \A j \in Positions :
        e2[j] = Earned(j)' /\ c2[j] = Earned(j)' - Residue(pos'[j].amount)
  BY DEF earnedOf, securedOf
<1>5. Residue(pos'[k].amount) \in Int
  BY PrecisionPositive DEF Residue
<1> HIDE DEF e, e2, c, c2
<1>6. /\ \A j \in Positions : e2[j] \in Int /\ c2[j] \in Int
      /\ \A j \in Positions \ {k} : e2[j] = e[j] /\ c2[j] = c[j]
      /\ e2[k] - e[k] = Earned(k)' - Earned(k)
      /\ c2[k] - c[k] = (Earned(k)' - Earned(k)) - loss
  BY <1>2, <1>3, <1>4, <1>5
<1>7. K \subseteq Positions /\ (k \in K <=> a = k[1] /\ p = PoolOf(k[2]))
  BY DEF PoolPositions
<1> HIDE DEF K
<1>8. /\ SumFunctionOnSet(e, K) \in Int
      /\ SumFunctionOnSet(e2, K) = IF k \in K THEN SumFunctionOnSet(e, K) + (e2[k] - e[k])
                                              ELSE SumFunctionOnSet(e, K)
  <2>1. \A j \in Positions : e[j] \in Int /\ e2[j] \in Int
    BY <1>3, <1>6
  <2>2. \A j \in Positions \ {k} : e2[j] = e[j]
    BY <1>6
  <2>3. K \subseteq Positions /\ IsFiniteSet(Positions)
    BY <1>7, FiniteBooks
  <2>4. QED
    BY <2>1, <2>2, <2>3, SumMoves
<1>9. /\ SumFunctionOnSet(c, K) \in Int
      /\ SumFunctionOnSet(c2, K) = IF k \in K THEN SumFunctionOnSet(c, K) + (c2[k] - c[k])
                                              ELSE SumFunctionOnSet(c, K)
  <2>1. \A j \in Positions : c[j] \in Int /\ c2[j] \in Int
    BY <1>3, <1>6
  <2>2. \A j \in Positions \ {k} : c2[j] = c[j]
    BY <1>6
  <2>3. K \subseteq Positions /\ IsFiniteSet(Positions)
    BY <1>7, FiniteBooks
  <2>4. QED
    BY <2>1, <2>2, <2>3, SumMoves
<1>10. IF k \in K THEN Pays(l, l2, Pending(k), r) ELSE l2 = l
  BY <1>7 DEF Settles
<1>11. /\ l.paid \in Nat /\ l.funded \in Nat /\ l.fundings \in Nat /\ l.resizes \in Nat
       /\ P \in Nat \ {0} /\ U64Max \in Nat
  BY PrecisionPositive, WidthsPositive DEF IInv, TypeOK
<1> HIDE DEF l, l2, P
<1>12. CASE k \notin K
  <2>1. l2 = l /\ SumFunctionOnSet(e2, K) = SumFunctionOnSet(e, K)
               /\ SumFunctionOnSet(c2, K) = SumFunctionOnSet(c, K)
    BY <1>8, <1>9, <1>10, <1>12
  <2>2. QED
    BY <1>1, <2>1 DEF l, l2, P, K, e2, c2
<1>13. CASE k \in K
  <2>1. /\ l2.paid = l.paid + Pending(k) /\ l2.resizes = l.resizes + r
        /\ l2.funded = l.funded /\ l2.fundings = l.fundings
    BY <1>10, <1>13 DEF Pays
  <2>2. /\ P * l2.paid = P * l.paid + P * Pending(k)
        /\ (P - 1) * l2.resizes = (P - 1) * l.resizes + (P - 1) * r
        /\ P * l.paid \in Int /\ P * l.funded \in Int /\ (P - 1) * l.resizes \in Int
        /\ (P - 1) * r \in Int /\ U64Max * l.fundings \in Int
    BY <1>2, <1>11, <2>1, TimesFacts
  <2>3. /\ SumFunctionOnSet(e2, K) = SumFunctionOnSet(e, K) + (Earned(k)' - Earned(k))
        /\ SumFunctionOnSet(c2, K) = SumFunctionOnSet(c, K) + ((Earned(k)' - Earned(k)) - loss)
    BY <1>6, <1>8, <1>9, <1>13
  <2>4. loss \in Int
    BY <1>3, <1>5
  <2> HIDE DEF loss
  <2>5. P * l2.paid + SumFunctionOnSet(e2, K) <= P * l2.funded + (P - 1) * l2.resizes
    BY <1>1, <1>2, <1>8, <2>1, <2>2, <2>3
  <2>6. P * l2.funded
          <= P * l2.paid + SumFunctionOnSet(c2, K) + (P - 1) * l2.resizes + U64Max * l2.fundings
    BY <1>1, <1>2, <1>9, <2>1, <2>2, <2>3, <2>4
  <2>7. QED
    BY <2>5, <2>6 DEF l2, P, K, e2, c2
<1>14. QED
  BY <1>12, <1>13

\* Funding a pool adds to what its positions earned all of x, but for a remainder below
\* the total stake.
LEMMA FundedEarnings ==
  ASSUME IInv, StakeTotals, NEW a \in Apps, NEW p \in RewardPool, NEW x \in Amounts,
         FundAppRewards(a, p, x)
  PROVE  LET b == (x * REWARD_PRECISION) \div total[a][p]
         IN /\ b \in Nat /\ b * total[a][p] \in Nat
            /\ b * total[a][p] <= REWARD_PRECISION * x
            /\ REWARD_PRECISION * x <= b * total[a][p] + U64Max
            /\ \A k \in PoolPositions(a, p) :
                 Earned(k)' = Earned(k) + b * pos[k].amount
            /\ \A k \in Positions \ PoolPositions(a, p) : Earned(k)' = Earned(k)
<1> DEFINE P == REWARD_PRECISION
           t == total[a][p]
           b == (x * P) \div t
<1>1. TypeOK /\ x \in Nat /\ P \in Nat /\ U64Max \in Nat
  BY BoundsNat, PrecisionPositive, WidthsPositive DEF IInv, Amounts
<1>2. t \in 0..U64Max /\ t > 0 /\ t \in Nat \ {0}
  <2>1. t \in 0..U64Max
    BY <1>1 DEF TypeOK
  <2>2. t > 0
    BY DEF FundAppRewards, BumpOk
  <2>3. QED
    BY <1>1, <2>1, <2>2
<1>3. x * P \in Nat /\ x * P = P * x
  BY <1>1, TimesMonotone
<1>4. /\ b \in Nat /\ t * b <= x * P /\ x * P <= t * b + (t - 1)
  <2> HIDE DEF t, P
  <2>1. QED
    BY <1>2, <1>3, DivBounds
<1>5. acc' = [acc EXCEPT ![a][p] = acc[a][p] + b] /\ pos' = pos
  BY <1>1 DEF FundAppRewards, bump_accumulator, TypeOK
<1> HIDE DEF b, t, P
<1>6. t * b = b * t /\ b * t \in Nat
  BY <1>2, <1>4, TimesMonotone
<1>7. ASSUME NEW k \in PoolPositions(a, p)
      PROVE  Earned(k)' = Earned(k) + b * pos[k].amount
  <2>1. k \in Positions /\ k[1] = a /\ PoolOf(k[2]) = p
    BY DEF PoolPositions
  <2>2. AccOf(k) = acc[a][p] /\ AccOf(k)' = acc[a][p] + b
    BY <1>1, <1>5, <2>1 DEF AccOf, TypeOK
  <2>3. pos[k].amount \in Nat /\ pos[k].reward_debt \in Nat /\ AccOf(k) \in Nat
    BY <1>1, <2>1, PendingIsNat
  <2>4. /\ pos[k].amount * (AccOf(k) + b) = pos[k].amount * AccOf(k) + pos[k].amount * b
        /\ pos[k].amount * b = b * pos[k].amount /\ b * pos[k].amount \in Int
        /\ pos[k].amount * AccOf(k) \in Int /\ P * pos[k].reward_debt \in Int
    BY <1>1, <1>4, <2>3, TimesFacts
  <2>5. Earned(k)' = pos[k].amount * (AccOf(k) + b) - P * pos[k].reward_debt
    BY <1>5, <2>2 DEF Earned, P
  <2>6. Earned(k) = pos[k].amount * AccOf(k) - P * pos[k].reward_debt
    BY DEF Earned, P
  <2> HIDE DEF P
  <2>7. QED
    BY <2>4, <2>5, <2>6
<1>8. ASSUME NEW k \in Positions, k \notin PoolPositions(a, p)
      PROVE  Earned(k)' = Earned(k)
  <2>1. /\ k[1] \in Apps /\ PoolOf(k[2]) \in RewardPool
        /\ k[1] # a \/ PoolOf(k[2]) # p
    BY <1>8 DEF PoolPositions, Positions, PoolOf, RewardPool
  <2>2. AccOf(k)' = AccOf(k)
    BY <1>1, <1>5, <2>1 DEF AccOf, TypeOK
  <2>3. QED
    BY <1>5, <2>2 DEF Earned
<1>9. b * t <= P * x /\ P * x <= b * t + U64Max
  <2>1. P * x \in Nat
    BY <1>3
  <2>2. QED
    BY <1>1, <1>2, <1>3, <1>4, <1>6, <2>1
<1>10. QED
  BY <1>4, <1>6, <1>7, <1>8, <1>9 DEF b, t, P

\* Funding keeps the rounding within its bounds.
LEMMA RoundingWhenFunded ==
  ASSUME IInv, StakeTotals, RoundingInv, NEW a0 \in Apps, NEW p0 \in RewardPool,
         NEW x \in Amounts, FundAppRewards(a0, p0, x)
  PROVE  RoundingInv'
<1> SUFFICES ASSUME NEW a \in Apps, NEW p \in RewardPool
             PROVE  LET l == ledger'[a][p]
                    IN /\ REWARD_PRECISION * l.paid
                            + SumFunctionOnSet(earnedOf', PoolPositions(a, p))
                              <= REWARD_PRECISION * l.funded + (REWARD_PRECISION - 1) * l.resizes
                       /\ REWARD_PRECISION * l.funded
                            <= REWARD_PRECISION * l.paid
                                 + SumFunctionOnSet(securedOf', PoolPositions(a, p))
                                 + (REWARD_PRECISION - 1) * l.resizes + U64Max * l.fundings
  BY DEF RoundingInv, PoolPositions, Positions
<1> DEFINE l == ledger[a][p]
           l2 == ledger'[a][p]
           P == REWARD_PRECISION
           K == PoolPositions(a, p)
           e == earnedOf
           e2 == earnedOf'
           c == securedOf
           c2 == securedOf'
           b == (x * REWARD_PRECISION) \div total[a0][p0]
           t == total[a0][p0]
           g == [k \in K |-> b * amountOf[k]]
<1>1. /\ P * l.paid + SumFunctionOnSet(e, K) <= P * l.funded + (P - 1) * l.resizes
      /\ P * l.funded
           <= P * l.paid + SumFunctionOnSet(c, K) + (P - 1) * l.resizes + U64Max * l.fundings
  BY DEF RoundingInv
<1>2. /\ b \in Nat /\ b * t \in Nat /\ b * t <= P * x /\ P * x <= b * t + U64Max
      /\ \A k \in PoolPositions(a0, p0) : Earned(k)' = Earned(k) + b * pos[k].amount
      /\ \A k \in Positions \ PoolPositions(a0, p0) : Earned(k)' = Earned(k)
  BY FundedEarnings
<1>3. \A k \in Positions :
        /\ e[k] = Earned(k) /\ e[k] \in Int
        /\ c[k] = Earned(k) - Residue(pos[k].amount) /\ c[k] \in Int
        /\ Residue(pos[k].amount) \in Int
  BY EarningsAreInt, PrecisionPositive
<1>4. \A k \in Positions :
        e2[k] = Earned(k)' /\ c2[k] = Earned(k)' - Residue(pos[k].amount)
  <2>1. pos' = pos
    BY DEF FundAppRewards
  <2>2. QED
    BY <2>1 DEF earnedOf, securedOf
<1>5. K \subseteq Positions /\ IsFiniteSet(K)
  BY FiniteBooks
<1>6. /\ TypeOK /\ x \in Nat /\ P \in Nat \ {0} /\ U64Max \in Nat
      /\ l.paid \in Nat /\ l.funded \in Nat /\ l.fundings \in Nat /\ l.resizes \in Nat
  BY BoundsNat, PrecisionPositive, WidthsPositive DEF IInv, TypeOK, Amounts
<1>7. l2 = IF a = a0 /\ p = p0 THEN LedgerFund(l, x) ELSE l
  BY <1>6, FundingMoves
<1> HIDE DEF e, e2, c, c2, b
<1>8. CASE ~(a = a0 /\ p = p0)
  <2>1. \A k \in K : k \in Positions /\ k \notin PoolPositions(a0, p0)
    BY <1>8 DEF PoolPositions
  <2> HIDE DEF K
  <2>2. \A k \in K : e2[k] = e[k] /\ c2[k] = c[k]
    BY <1>2, <1>3, <1>4, <2>1
  <2>3. SumFunctionOnSet(e2, K) = SumFunctionOnSet(e, K)
    BY <1>5, <2>2, SumAgrees
  <2>4. SumFunctionOnSet(c2, K) = SumFunctionOnSet(c, K)
    BY <1>5, <2>2, SumAgrees
  <2>5. l2 = l
    BY <1>7, <1>8
  <2> HIDE DEF l, l2, P
  <2>6. QED
    BY <1>1, <2>3, <2>4, <2>5 DEF l, l2, P, K, e2, c2
<1>9. CASE a = a0 /\ p = p0
  <2>1. /\ l2.funded = l.funded + x /\ l2.paid = l.paid
        /\ l2.resizes = l.resizes /\ l2.fundings = l.fundings + 1
    BY <1>7, <1>9 DEF LedgerFund
  <2>2. t = SumFunctionOnSet(amountOf, K)
    BY <1>9 DEF StakeTotals
  <2>3. \A k \in K : amountOf[k] = pos[k].amount /\ amountOf[k] \in Int
    BY <1>5, <1>6, AmountsAreNat
  <2>4. \A k \in K : e2[k] = Earned(k) + b * pos[k].amount
                      /\ c2[k] = (Earned(k) + b * pos[k].amount) - Residue(pos[k].amount)
    BY <1>2, <1>4, <1>5, <1>9
  <2> HIDE DEF K, P, l, l2, t
  <2>5. \A k \in K : g[k] = b * amountOf[k] /\ g[k] \in Int
    BY <1>2, <2>3, TimesFacts
  <2>6. \A k \in K : e2[k] = e[k] + g[k] /\ c2[k] = c[k] + g[k]
    BY <1>3, <1>5, <2>3, <2>4, <2>5
  <2> HIDE DEF g
  <2>7. SumFunctionOnSet(g, K) = b * t
    BY <1>2, <1>5, <2>2, <2>3, <2>5, SumOfMultiples
  <2>8. \A k \in K : e[k] \in Int /\ c[k] \in Int
    BY <1>3, <1>5
  <2>9. /\ SumFunctionOnSet(e2, K) = SumFunctionOnSet(e, K) + b * t
        /\ SumFunctionOnSet(e, K) \in Int
    <3>1. SumFunctionOnSet(e2, K) = SumFunctionOnSet(e, K) + SumFunctionOnSet(g, K)
      BY <1>5, <2>5, <2>6, <2>8, SumOfSums
    <3>2. QED
      BY <1>5, <2>7, <2>8, <3>1, SumIsInt
  <2>10. /\ SumFunctionOnSet(c2, K) = SumFunctionOnSet(c, K) + b * t
         /\ SumFunctionOnSet(c, K) \in Int
    <3>1. SumFunctionOnSet(c2, K) = SumFunctionOnSet(c, K) + SumFunctionOnSet(g, K)
      BY <1>5, <2>5, <2>6, <2>8, SumOfSums
    <3>2. QED
      BY <1>5, <2>7, <2>8, <3>1, SumIsInt
  <2>11. /\ P * l2.funded = P * l.funded + P * x /\ P * l.funded \in Int /\ P * x \in Int
         /\ U64Max * l2.fundings = U64Max * l.fundings + U64Max
         /\ U64Max * l.fundings \in Int /\ P * l.paid \in Int /\ (P - 1) * l.resizes \in Int
    <3>1. U64Max * 1 = U64Max
      BY <1>6
    <3>2. QED
      BY <1>6, <2>1, <3>1, TimesFacts
  <2>12. P * l2.paid + SumFunctionOnSet(e2, K) <= P * l2.funded + (P - 1) * l2.resizes
    BY <1>1, <1>2, <2>1, <2>9, <2>11 DEF t
  <2>13. P * l2.funded
           <= P * l2.paid + SumFunctionOnSet(c2, K) + (P - 1) * l2.resizes + U64Max * l2.fundings
    BY <1>1, <1>2, <1>6, <2>1, <2>10, <2>11 DEF t
  <2>14. QED
    BY <2>12, <2>13 DEF l2, P, K, e2, c2
<1>10. QED
  BY <1>8, <1>9

\* A positive factor cancels.
LEMMA FactorCancels ==
  ASSUME NEW c \in Nat \ {0}, NEW m \in Int, NEW n \in Int, c * m <= c * n
  PROVE  m <= n
<1> SUFFICES ASSUME n + 1 <= m
             PROVE  FALSE
  OBVIOUS
<1>1. c * (n + 1) = c * n + c /\ c * n \in Int /\ c * m \in Int
  OBVIOUS
<1>2. m - (n + 1) \in Nat
  OBVIOUS
<1>3. c * (m - (n + 1)) \in Nat
  BY <1>2, TimesMonotone
<1>4. c * (m - (n + 1)) = c * m - c * (n + 1)
  BY TimesFacts
<1>5. QED
  BY <1>1, <1>3, <1>4

\* The exact bounds give the bounds in whole units.
LEMMA RoundingInvBounds == IInv /\ RoundingInv => RoundingBounded
<1> SUFFICES ASSUME IInv, RoundingInv, NEW a \in Apps, NEW p \in RewardPool
             PROVE  LET l    == ledger[a][p]
                        owed == l.paid + SumFunctionOnSet(pendingOf, PoolPositions(a, p))
                    IN /\ owed <= l.funded + l.resizes
                       /\ l.funded <= owed + l.resizes
                                        + l.fundings * (U64Max \div REWARD_PRECISION + 1)
  BY DEF RoundingBounded
<1> DEFINE l == ledger[a][p]
           P == REWARD_PRECISION
           K == PoolPositions(a, p)
           S == SumFunctionOnSet(pendingOf, K)
           h == [k \in K |-> P * pendingOf[k]]
           q == U64Max \div P + 1
<1>1. /\ P * l.paid + SumFunctionOnSet(earnedOf, K) <= P * l.funded + (P - 1) * l.resizes
      /\ P * l.funded <= P * l.paid + SumFunctionOnSet(securedOf, K)
                           + (P - 1) * l.resizes + U64Max * l.fundings
  BY DEF RoundingInv
<1>2. K \subseteq Positions /\ IsFiniteSet(K)
  BY FiniteBooks
<1>3. \A k \in K : /\ pendingOf[k] = Pending(k) /\ pendingOf[k] \in Int
                   /\ earnedOf[k] \in Int /\ securedOf[k] \in Int
  BY <1>2, PendingOfEarned, EarningsAreInt DEF pendingOf
<1>4. \A k \in K : h[k] = P * pendingOf[k] /\ h[k] \in Int
                   /\ securedOf[k] <= h[k] /\ h[k] <= earnedOf[k]
  <2> SUFFICES ASSUME NEW k \in K
               PROVE  h[k] = P * pendingOf[k] /\ h[k] \in Int
                      /\ securedOf[k] <= h[k] /\ h[k] <= earnedOf[k]
    OBVIOUS
  <2>1. k \in Positions /\ h[k] = P * Pending(k) /\ h[k] = P * pendingOf[k]
    BY <1>2, <1>3
  <2>2. /\ Earned(k) \in Int /\ P * Pending(k) \in Int
        /\ P * Pending(k) <= Earned(k) /\ Earned(k) <= P * Pending(k) + (P - 1)
        /\ pos[k].amount = 0 => Earned(k) = 0 /\ Pending(k) = 0
        /\ pos[k].amount \in Nat /\ P \in Nat \ {0}
    BY <2>1, PendingOfEarned, PrecisionPositive
  <2>3. earnedOf[k] = Earned(k) /\ securedOf[k] = Earned(k) - Residue(pos[k].amount)
    BY <2>1, EarningsAreInt
  <2> HIDE DEF P, h
  <2>4. CASE pos[k].amount = 0
    <3>1. Residue(pos[k].amount) = 0 /\ P * 0 = 0
      BY <2>2, <2>4 DEF Residue
    <3>2. QED
      BY <2>1, <2>2, <2>3, <2>4, <3>1
  <2>5. CASE pos[k].amount # 0
    <3>1. Residue(pos[k].amount) = P - 1
      BY <2>2, <2>5 DEF Residue, P
    <3>2. QED
      BY <2>1, <2>2, <2>3, <3>1
  <2>6. QED
    BY <2>4, <2>5
<1>5. /\ P \in Nat \ {0} /\ U64Max \in Nat /\ P \in Int
      /\ l.paid \in Nat /\ l.funded \in Nat /\ l.fundings \in Nat /\ l.resizes \in Nat
  BY PrecisionPositive, WidthsPositive DEF IInv, TypeOK
<1> HIDE DEF l, K, h, P
<1>6. /\ SumFunctionOnSet(h, K) = P * S /\ S \in Int /\ P * S \in Int
      /\ SumFunctionOnSet(securedOf, K) <= P * S /\ P * S <= SumFunctionOnSet(earnedOf, K)
      /\ SumFunctionOnSet(securedOf, K) \in Int /\ SumFunctionOnSet(earnedOf, K) \in Int
  <2>1. SumFunctionOnSet(h, K) = P * S
    BY <1>2, <1>3, <1>4, <1>5, SumOfMultiples
  <2>2. SumFunctionOnSet(securedOf, K) <= SumFunctionOnSet(h, K)
    BY <1>2, <1>3, <1>4, SumIsMonotone
  <2>3. SumFunctionOnSet(h, K) <= SumFunctionOnSet(earnedOf, K)
    BY <1>2, <1>3, <1>4, SumIsMonotone
  <2>4. /\ S \in Int /\ SumFunctionOnSet(securedOf, K) \in Int
        /\ SumFunctionOnSet(earnedOf, K) \in Int
    BY <1>2, <1>3, SumIsInt
  <2>5. P * S \in Int
    BY <1>5, <2>4, TimesFacts
  <2>6. QED
    BY <2>1, <2>2, <2>3, <2>4, <2>5
<1> HIDE DEF S
<1>7. /\ q \in Nat /\ U64Max <= P * q
  <2>1. /\ U64Max \div P \in Nat
        /\ U64Max <= P * (U64Max \div P) + (P - 1)
    BY <1>5, DivBounds
  <2>2. P * (U64Max \div P + 1) = P * (U64Max \div P) + P * 1 /\ P * 1 = P
        /\ P * (U64Max \div P) \in Int
    BY <1>5, <2>1, TimesFacts
  <2>3. QED
    BY <1>5, <2>1, <2>2
<1>8. /\ P * l.paid \in Int /\ P * l.funded \in Int /\ P * l.resizes \in Int
      /\ (P - 1) * l.resizes \in Int /\ (P - 1) * l.resizes <= P * l.resizes
  BY <1>5, TimesFacts, TimesMonotone
<1>9. l.paid + S <= l.funded + l.resizes
  <2>1. /\ P * (l.paid + S) = P * l.paid + P * S
        /\ P * (l.funded + l.resizes) = P * l.funded + P * l.resizes
    BY <1>5, <1>6, TimesFacts
  <2>2. P * (l.paid + S) <= P * (l.funded + l.resizes)
    BY <1>1, <1>6, <1>8, <2>1
  <2>3. QED
    BY <1>5, <1>6, <2>2, FactorCancels
<1>10. l.funded <= (l.paid + S) + l.resizes + l.fundings * q
  <2> HIDE DEF q
  <2>1. /\ l.fundings * q \in Nat
        /\ U64Max * l.fundings <= (P * q) * l.fundings
        /\ (P * q) * l.fundings = P * (l.fundings * q)
        /\ U64Max * l.fundings \in Int /\ P * (l.fundings * q) \in Int
    <3>1. l.fundings * q \in Nat /\ P * q \in Nat
      BY <1>5, <1>7, TimesMonotone
    <3>2. U64Max * l.fundings <= (P * q) * l.fundings
      BY <1>5, <1>7, <3>1, TimesMonotone
    <3>3. (P * q) * l.fundings = P * (l.fundings * q)
      BY <1>5, <1>7
    <3>4. QED
      BY <1>5, <3>1, <3>2, <3>3, TimesFacts
  <2>2. P * (((l.paid + S) + l.resizes) + l.fundings * q)
          = P * l.paid + P * S + P * l.resizes + P * (l.fundings * q)
    BY <1>5, <1>6, <2>1, TimesFacts
  <2>3. P * l.funded <= P * (((l.paid + S) + l.resizes) + l.fundings * q)
    BY <1>1, <1>6, <1>8, <2>1, <2>2
  <2>4. QED
    BY <1>5, <1>6, <2>1, <2>3, FactorCancels
<1>11. QED
  BY <1>9, <1>10 DEF l, S, K, P

-----------------------------------------------------------------------------
(***************************************************************************)
(* The inductive invariant of the books.  The totals are needed to keep    *)
(* the rounding bound: they are what funding divides by.                   *)
(***************************************************************************)
BooksInv ==
  IInv /\ NothingUnregistered /\ StakeTotals /\ VaultBacksTheBooks /\ RoundingInv

\* All the sums are empty at first.
LEMMA InitEstablishesBooks == Init => BooksInv
<1> SUFFICES ASSUME Init
             PROVE  BooksInv
  OBVIOUS
<1>1. IInv
  BY InitEstablishesInv
<1>2. /\ \A a \in Apps, p \in RewardPool : total[a][p] = 0 /\ acc[a][p] = 0
      /\ \A a \in Apps, p \in RewardPool : ledger[a][p] = NewLedger
      /\ \A a \in Apps, t \in Tags : stake_amount[<<a, t>>] = 0
      /\ \A k \in Positions : pos[k] = NoPosition
      /\ vault = 0
  BY DEF Init
<1>3. NothingUnregistered
  BY <1>2 DEF Init, NothingUnregistered
<1>4. \A K : K \subseteq Positions =>
        SumFunctionOnSet(amountOf, K) = 0 /\ SumFunctionOnSet(earnedOf, K) = 0
          /\ SumFunctionOnSet(securedOf, K) = 0
  <2> SUFFICES ASSUME NEW K, K \subseteq Positions
               PROVE  SumFunctionOnSet(amountOf, K) = 0 /\ SumFunctionOnSet(earnedOf, K) = 0
                        /\ SumFunctionOnSet(securedOf, K) = 0
    OBVIOUS
  <2>1. IsFiniteSet(K)
    BY FiniteBooks, FS_Subset
  <2>2. ASSUME NEW k \in Positions
        PROVE  amountOf[k] = 0 /\ earnedOf[k] = 0 /\ securedOf[k] = 0
    <3>1. k[1] \in Apps /\ PoolOf(k[2]) \in RewardPool
      BY DEF Positions, PoolOf, RewardPool
    <3>2. pos[k].amount = 0 /\ AccOf(k) = 0 /\ pos[k].reward_debt = 0
      BY <1>2, <3>1 DEF NoPosition, AccOf
    <3>3. REWARD_PRECISION * 0 = 0 /\ 0 * 0 = 0
      BY PrecisionPositive
    <3>4. Earned(k) = 0 /\ Residue(pos[k].amount) = 0
      BY <3>2, <3>3 DEF Earned, Residue
    <3>5. QED
      BY <3>2, <3>4 DEF amountOf, earnedOf, securedOf
  <2>3. \A k \in K : amountOf[k] = 0 /\ earnedOf[k] = 0 /\ securedOf[k] = 0
    BY <2>2
  <2>4. QED
    BY <2>1, <2>3, SumOfZeros
<1>5. \A a, p : PoolPositions(a, p) \subseteq Positions /\ TagPositions(a, p) \subseteq Positions
  BY FiniteBooks
<1>6. StakeTotals
  BY <1>2, <1>4, <1>5 DEF StakeTotals
<1>7. VaultBacksTheBooks
  <2>1. \A ap \in Pools : paidTo[ap] = 0 /\ fundedTo[ap] = 0
    BY <1>2 DEF Pools, paidTo, fundedTo, NewLedger
  <2>2. SumFunctionOnSet(paidTo, Pools) = 0 /\ SumFunctionOnSet(fundedTo, Pools) = 0
    BY <2>1, FiniteBooks, SumOfZeros
  <2>3. SumFunctionOnSet(amountOf, Positions) = 0
    BY <1>4
  <2>4. QED
    BY <1>2, <2>2, <2>3 DEF VaultBacksTheBooks
<1>8. RoundingInv
  <2> SUFFICES ASSUME NEW a \in Apps, NEW p \in RewardPool
               PROVE  LET l == ledger[a][p]
                      IN /\ REWARD_PRECISION * l.paid
                              + SumFunctionOnSet(earnedOf, PoolPositions(a, p))
                                <= REWARD_PRECISION * l.funded + (REWARD_PRECISION - 1) * l.resizes
                         /\ REWARD_PRECISION * l.funded
                              <= REWARD_PRECISION * l.paid
                                   + SumFunctionOnSet(securedOf, PoolPositions(a, p))
                                   + (REWARD_PRECISION - 1) * l.resizes + U64Max * l.fundings
    BY DEF RoundingInv
  <2>1. /\ SumFunctionOnSet(earnedOf, PoolPositions(a, p)) = 0
        /\ SumFunctionOnSet(securedOf, PoolPositions(a, p)) = 0
    BY <1>4, <1>5
  <2>2. /\ ledger[a][p].paid = 0 /\ ledger[a][p].funded = 0
        /\ ledger[a][p].fundings = 0 /\ ledger[a][p].resizes = 0
    BY <1>2 DEF NewLedger
  <2>3. REWARD_PRECISION * 0 = 0 /\ (REWARD_PRECISION - 1) * 0 = 0 /\ U64Max * 0 = 0
    BY PrecisionPositive, WidthsPositive
  <2>4. QED
    BY <2>1, <2>2, <2>3
<1>9. QED
  BY <1>1, <1>3, <1>6, <1>7, <1>8 DEF BooksInv

\* Every instruction keeps the books.
LEMMA StepKeepsBooks == BooksInv /\ [Next]_vars => BooksInv'
<1> SUFFICES ASSUME IInv, NothingUnregistered, StakeTotals, VaultBacksTheBooks, RoundingInv,
                    [Next]_vars
             PROVE  BooksInv'
  BY DEF BooksInv
<1>1. IInv'
  BY StepKeepsInv
<1>2. NothingUnregistered'
  BY UnregisteredStaysEmpty
<1>3. StakeTotals'
  BY StepKeepsTotals
<1>4. VaultBacksTheBooks'
  BY StepKeepsVault
<1>5. RoundingInv'
  <2>1. ASSUME NEW k \in Positions, NEW n \in Int, NEW r \in {0, 1}, Settles(k, n, r)
        PROVE  RoundingInv'
    BY <2>1, RoundingWhenSettled
  <2>2. ASSUME NEW a \in Apps, NEW p \in RewardPool, NEW x \in Amounts,
               FundAppRewards(a, p, x)
        PROVE  RoundingInv'
    BY <2>2, RoundingWhenFunded
  <2>3. CASE NoMoneyMoves
    BY <2>3 DEF NoMoneyMoves, RoundingInv, earnedOf, securedOf, Earned, AccOf,
                PoolPositions, Positions
  <2>4. QED
    BY <2>1, <2>2, <2>3, StepShapes
<1>6. QED
  BY <1>1, <1>2, <1>3, <1>4, <1>5 DEF BooksInv

-----------------------------------------------------------------------------
\* The books' invariant holds in every reachable state.
THEOREM BooksHold == Spec => []BooksInv
<1>1. QED
  BY InitEstablishesBooks, StepKeepsBooks, PTL DEF Spec

\* The three stake counters stay in lockstep (stake_tag.rs:85-90) whatever is deposited,
\* withdrawn, closed and reopened, by however many users on however many tags.
THEOREM CountersInLockstep == Spec => []StakeTotals
<1>1. BooksInv => StakeTotals
  BY DEF BooksInv
<1>2. QED
  BY <1>1, BooksHold, PTL

\* The one vault always holds the principal of every position of every app, plus what was
\* funded and not yet paid out: the apps' books never leak into one another.
THEOREM VaultIsBacked == Spec => []VaultBacksTheBooks
<1>1. BooksInv => VaultBacksTheBooks
  BY DEF BooksInv
<1>2. QED
  BY <1>1, BooksHold, PTL

\* A pool pays, over any number of calls, what was funded to it, up to the rounding that
\* each deposit, withdrawal and funding can add.
THEOREM RoundingIsBounded == Spec => []RoundingBounded
<1>1. BooksInv => RoundingBounded
  BY RoundingInvBounds DEF BooksInv
<1>2. QED
  BY <1>1, BooksHold, PTL

-----------------------------------------------------------------------------
(***************************************************************************)
(* The exit fee: arithmetic.                                               *)
(***************************************************************************)
\* Inside the window the rate is START * (DECAY - e) / DECAY rounded down; it never
\* exceeds the starting rate and never rises with age.
LEMMA RateFacts ==
  LET B == UNSTAKE_FEE_START_BPS
      D == UNSTAKE_FEE_DECAY_SECONDS
  IN /\ \A e \in Int : linear_decay_fee_bps(e) \in Nat /\ linear_decay_fee_bps(e) <= B
     /\ \A e \in 0..D : /\ D * linear_decay_fee_bps(e) <= B * (D - e)
                        /\ B * (D - e) <= D * linear_decay_fee_bps(e) + (D - 1)
     /\ \A e, f \in Int : e <= f => linear_decay_fee_bps(f) <= linear_decay_fee_bps(e)
<1> DEFINE B == UNSTAKE_FEE_START_BPS
           D == UNSTAKE_FEE_DECAY_SECONDS
           rate(e) == linear_decay_fee_bps(e)
<1>1. B \in Nat /\ D \in Nat \ {0}
  BY FeeParameters
<1>2. /\ \A e \in Int : e <= 0 => rate(e) = B
      /\ \A e \in Int : e >= D => rate(e) = 0
      /\ \A e \in Int : 0 < e /\ e < D => rate(e) = (B * (D - e)) \div D
  BY <1>1 DEF linear_decay_fee_bps
<1>3. \A e \in Int : rate(e) \in Nat
  BY RateIsNat
<1> HIDE DEF B, D, rate
<1>4. ASSUME NEW e \in 0..D
      PROVE  D * rate(e) <= B * (D - e) /\ B * (D - e) <= D * rate(e) + (D - 1)
  <2>1. CASE e = 0
    <3>1. rate(e) = B /\ B * (D - e) = D * B /\ D * B \in Int
      BY <1>1, <1>2, <2>1
    <3>2. QED
      BY <1>1, <3>1
  <2>2. CASE e = D
    <3>1. rate(e) = 0 /\ B * (D - e) = 0 /\ D * 0 = 0
      BY <1>1, <1>2, <2>2
    <3>2. QED
      BY <1>1, <3>1
  <2>3. CASE 0 < e /\ e < D
    <3>1. D - e \in Nat /\ rate(e) = (B * (D - e)) \div D
      BY <1>1, <1>2, <2>3
    <3>2. B * (D - e) \in Nat
      BY <1>1, <3>1, TimesMonotone
    <3>3. QED
      BY <1>1, <3>1, <3>2, DivBounds
  <2>4. QED
    BY <1>1, <2>1, <2>2, <2>3
<1>5. ASSUME NEW e \in 0..D
      PROVE  rate(e) <= B
  <2>1. B * (D - e) <= D * B
    <3>1. D - e \in Nat /\ D - e <= D
      BY <1>1
    <3>2. B * (D - e) <= B * D /\ B * D = D * B
      BY <1>1, <3>1, TimesMonotone
    <3>3. QED
      BY <3>2
  <2>2. D * rate(e) <= D * B
    <3>1. D * rate(e) \in Int /\ B * (D - e) \in Int /\ D * B \in Int
      BY <1>1, <1>3, TimesFacts
    <3>2. QED
      BY <1>4, <2>1, <3>1
  <2>3. QED
    BY <1>1, <1>3, <2>2, FactorCancels
<1>6. ASSUME NEW e \in Int
      PROVE  rate(e) \in Nat /\ rate(e) <= B
  BY <1>1, <1>2, <1>3, <1>5
<1>7. ASSUME NEW e \in Int, NEW f \in Int, e <= f
      PROVE  rate(f) <= rate(e)
  <2>1. CASE e <= 0
    BY <1>2, <1>6, <2>1
  <2>2. CASE f >= D
    BY <1>2, <1>6, <2>2
  <2>3. CASE 0 < e /\ f < D
    <3>1. /\ rate(e) = (B * (D - e)) \div D /\ rate(f) = (B * (D - f)) \div D
          /\ D - e \in Nat /\ D - f \in Nat /\ D - f <= D - e
      BY <1>1, <1>2, <1>7, <2>3
    <3>2. B * (D - f) \in Nat /\ B * (D - e) \in Nat /\ B * (D - f) <= B * (D - e)
      BY <1>1, <3>1, TimesMonotone
    <3>3. QED
      BY <1>1, <3>1, <3>2, DivMonotone
  <2>4. QED
    BY <1>1, <1>7, <2>1, <2>2, <2>3
<1>8. QED
  BY <1>4, <1>6, <1>7 DEF B, D, rate

\* The fee rounds up: it grows with the amount and the rate, splitting what is charged
\* never makes it cheaper, and never costs more than one unit.
LEMMA FeeFacts ==
  ASSUME NEW x \in Nat, NEW y \in Nat, NEW r \in Nat, NEW q \in Nat
  PROVE  /\ unstake_fee(x, r) \in Nat
         /\ x <= y /\ r <= q => unstake_fee(x, r) <= unstake_fee(y, q)
         /\ unstake_fee(x + y, r) <= unstake_fee(x, r) + unstake_fee(y, r)
         /\ unstake_fee(0, r) = 0
<1>1. unstake_fee(x, r) \in Nat
  BY FeeIsNat
<1>2. ASSUME x <= y, r <= q
      PROVE  unstake_fee(x, r) <= unstake_fee(y, q)
  <2>1. x * r \in Nat /\ y * r \in Nat /\ y * q \in Nat /\ x * r <= y * r /\ y * r <= y * q
    BY <1>2, TimesMonotone
  <2>2. QED
    BY <2>1 DEF unstake_fee
<1>3. unstake_fee(x + y, r) <= unstake_fee(x, r) + unstake_fee(y, r)
  <2>1. x * r \in Nat /\ y * r \in Nat /\ (x + y) * r = x * r + y * r
    BY TimesMonotone, TimesFacts
  <2>2. QED
    BY <2>1 DEF unstake_fee
<1>4. unstake_fee(0, r) = 0
  <2>1. 0 * r = 0
    OBVIOUS
  <2>2. QED
    BY <2>1 DEF unstake_fee
<1>5. QED
  BY <1>1, <1>2, <1>3, <1>4

\* The stake-weighted average lies between the old stamp and the clock, and rounding
\* moves it back by less than a second.
LEMMA AverageFacts ==
  ASSUME NEW s \in Nat, NEW a \in Nat, NEW t \in Nat, NEW x \in Nat \ {0}
  PROVE  LET w == weighted_avg_timestamp(s, a, t, x)
         IN /\ w \in Nat
            /\ s <= t => s <= w /\ w <= t
            /\ t <= s => t <= w
            /\ a = 0 => w = t
            /\ s * a + t * x <= (a + x) * w + ((a + x) - 1)
<1> DEFINE N == a + x
           m == s * a + t * x
           w == weighted_avg_timestamp(s, a, t, x)
<1>1. N \in Nat \ {0} /\ m \in Nat /\ s * a \in Nat /\ t * x \in Nat
  BY TimesMonotone
<1>2. w = m \div N
  BY <1>1 DEF weighted_avg_timestamp
<1>3. s * N = s * a + s * x /\ t * N = t * a + t * x
      /\ s * x \in Nat /\ t * a \in Nat /\ N * s = s * N /\ N * t = t * N
  BY TimesMonotone, TimesFacts
<1>4. (s <= t => s * x <= t * x /\ s * a <= t * a) /\ (t <= s => t * a <= s * a)
  BY TimesMonotone
<1> HIDE DEF N, m, w
<1>5. w \in Nat /\ N * w <= m /\ m <= N * w + (N - 1)
  BY <1>1, <1>2, DivBounds
<1>6. /\ m = s * a + t * x
      /\ N * w \in Int /\ N * (w + 1) = N * w + N /\ N * s \in Int /\ N * t \in Int
  BY <1>1, <1>5, TimesFacts DEF m
<1>7. ASSUME NEW v \in Nat, N * v <= m
      PROVE  v <= w
  <2>1. N * v <= N * w + (N - 1) /\ N * v \in Int
    BY <1>1, <1>5, <1>7, TimesFacts
  <2>2. ~(w + 1 <= v)
    <3> SUFFICES ASSUME w + 1 <= v
                 PROVE  FALSE
      OBVIOUS
    <3>1. N * (w + 1) <= N * v
      BY <1>1, <1>5, TimesMonotone
    <3>2. QED
      BY <1>1, <1>6, <2>1, <3>1
  <2>3. QED
    BY <1>5, <2>2
<1>8. s <= t => s <= w
  BY <1>1, <1>3, <1>4, <1>6, <1>7
<1>9. t <= s => t <= w
  BY <1>1, <1>3, <1>4, <1>6, <1>7
<1>10. s <= t => w <= t
  <2> SUFFICES ASSUME s <= t
               PROVE  w <= t
    OBVIOUS
  <2>1. N * w <= N * t
    BY <1>1, <1>3, <1>4, <1>5, <1>6
  <2>2. QED
    BY <1>1, <1>5, <2>1, FactorCancels
<1>11. a = 0 => w = t
  <2> SUFFICES ASSUME a = 0
               PROVE  w = t
    OBVIOUS
  <2>1. s * a = 0 /\ t * a = 0
    OBVIOUS
  <2>2. m = N * t
    BY <1>1, <1>3, <1>6, <2>1
  <2>3. t <= w
    BY <1>6, <1>7, <2>2
  <2>4. w <= t
    BY <1>1, <1>5, <2>2, FactorCancels
  <2>5. QED
    BY <1>5, <2>3, <2>4
<1>12. s * a + t * x <= N * w + (N - 1)
  BY <1>5, <1>6
<1>13. QED
  BY <1>5, <1>8, <1>9, <1>10, <1>11, <1>12 DEF w, N

-----------------------------------------------------------------------------
(***************************************************************************)
(* The exit fee: what a step does to the cost of leaving.                  *)
(***************************************************************************)
Rate(k) == linear_decay_fee_bps(now - pos[k].staked_at)

\* The parts of the cost of leaving are naturals.
LEMMA FeeDueFacts ==
  ASSUME TypeOK, NEW k \in Positions
  PROVE  /\ pos[k].amount \in Nat /\ pos[k].staked_at \in Nat /\ now \in Nat
         /\ treasury \in Nat /\ now - pos[k].staked_at \in Int
         /\ Rate(k) \in Nat /\ Rate(k) <= UNSTAKE_FEE_START_BPS
         /\ FeeDue(k) = unstake_fee(pos[k].amount, Rate(k)) /\ FeeDue(k) \in Nat
<1>1. /\ pos[k].amount \in Nat /\ pos[k].staked_at \in Nat /\ now \in Nat
      /\ treasury \in Nat
  BY WidthsPositive, BoundsNat DEF TypeOK
<1>2. now - pos[k].staked_at \in Int
  BY <1>1
<1>3. Rate(k) \in Nat /\ Rate(k) <= UNSTAKE_FEE_START_BPS
  BY <1>2, RateFacts DEF Rate
<1>4. FeeDue(k) = unstake_fee(pos[k].amount, Rate(k))
  BY DEF FeeDue, Rate
<1>5. QED
  BY <1>1, <1>2, <1>3, <1>4, FeeIsNat

\* A step that neither rewrites a position nor touches the fees collected.
LEMMA SameFee ==
  ASSUME TypeOK, NEW k \in Positions, pos'[k].amount = pos[k].amount,
         pos'[k].staked_at = pos[k].staked_at, now' = now, treasury' = treasury
  PROVE  treasury + FeeDue(k) <= treasury' + FeeDue(k)'
<1>1. FeeDue(k)' = FeeDue(k)
  BY DEF FeeDue
<1>2. FeeDue(k) \in Nat /\ treasury \in Nat
  BY FeeDueFacts
<1>3. QED
  BY <1>1, <1>2

\* What a deposit leaves in its position, and in the others.
LEMMA DepositedPosition ==
  ASSUME TypeOK, NEW a \in Apps, NEW s \in Slots, NEW u \in Users, NEW x \in Amounts,
         Deposit(a, s, u, x)
  PROVE  LET k == <<a, s, u>>
             p == pos[k]
         IN /\ k \in Positions /\ x \in Nat \ {0} /\ now' = now /\ treasury' = treasury
            /\ \A j \in Positions \ {k} : pos'[j] = pos[j]
            /\ pos'[k].amount = p.amount + x
            /\ pos'[k].staked_at = weighted_avg_timestamp(p.staked_at, p.amount, now, x)
<1> DEFINE k == <<a, s, u>>
<1>1. k \in Positions
  BY KeyFacts
<1>2. pos' = [pos EXCEPT ![k] = AfterDeposit(pos[k], x, acc[a][PoolOf(s)])]
  BY DEF Deposit
<1>3. /\ pos'[k] = AfterDeposit(pos[k], x, acc[a][PoolOf(s)])
      /\ \A j \in Positions \ {k} : pos'[j] = pos[j]
  BY <1>1, <1>2 DEF TypeOK
<1>4. x \in Nat \ {0} /\ now' = now /\ treasury' = treasury
  BY BoundsNat DEF Deposit, Amounts
<1>5. QED
  BY <1>1, <1>3, <1>4 DEF AfterDeposit

\* A top-up never makes the position older, so it cannot make it cheaper to leave.
LEMMA DepositFee ==
  ASSUME TypeOK, NEW a \in Apps, NEW s \in Slots, NEW u \in Users, NEW x \in Amounts,
         Deposit(a, s, u, x), NEW j \in Positions
  PROVE  treasury + FeeDue(j) <= treasury' + FeeDue(j)'
<1> DEFINE k == <<a, s, u>>
           w == weighted_avg_timestamp(pos[k].staked_at, pos[k].amount, now, x)
           r2 == linear_decay_fee_bps(now - w)
<1>1. /\ k \in Positions /\ x \in Nat \ {0} /\ now' = now /\ treasury' = treasury
      /\ \A i \in Positions \ {k} : pos'[i] = pos[i]
      /\ pos'[k].amount = pos[k].amount + x /\ pos'[k].staked_at = w
  BY DepositedPosition
<1> HIDE DEF k
<1>2. CASE j # k
  BY <1>1, <1>2, SameFee
<1>3. CASE j = k
  <2>1. /\ pos[k].amount \in Nat /\ pos[k].staked_at \in Nat /\ now \in Nat
        /\ treasury \in Nat /\ Rate(k) \in Nat /\ now - pos[k].staked_at \in Int
        /\ FeeDue(k) = unstake_fee(pos[k].amount, Rate(k)) /\ FeeDue(k) \in Nat
    BY <1>1, FeeDueFacts
  <2>2. /\ w \in Nat
        /\ pos[k].staked_at <= now => pos[k].staked_at <= w /\ w <= now
        /\ now <= pos[k].staked_at => now <= w
    BY <1>1, <2>1, AverageFacts
  <2> HIDE DEF w
  <2>3. now - w \in Int /\ r2 \in Nat
    BY <2>1, <2>2, RateFacts
  <2>4. Rate(k) <= r2
    <3>1. CASE pos[k].staked_at <= now
      <4>1. now - w <= now - pos[k].staked_at
        BY <2>1, <2>2, <3>1
      <4>2. QED
        BY <2>1, <2>3, <4>1, RateFacts DEF Rate
    <3>2. CASE now <= pos[k].staked_at
      <4>1. now - w <= 0
        BY <2>1, <2>2, <3>2
      <4>2. r2 = UNSTAKE_FEE_START_BPS
        BY <2>3, <4>1 DEF linear_decay_fee_bps
      <4>3. QED
        BY <1>1, <4>2, FeeDueFacts
    <3>3. QED
      BY <2>1, <3>1, <3>2
  <2>5. FeeDue(k)' = unstake_fee(pos[k].amount + x, r2)
    BY <1>1 DEF FeeDue
  <2> HIDE DEF r2
  <2>6. pos[k].amount + x \in Nat /\ pos[k].amount <= pos[k].amount + x
    BY <1>1, <2>1
  <2>7. /\ unstake_fee(pos[k].amount, Rate(k)) <= unstake_fee(pos[k].amount + x, r2)
        /\ unstake_fee(pos[k].amount + x, r2) \in Nat
    BY <2>1, <2>3, <2>4, <2>6, FeeFacts
  <2>8. QED
    BY <1>1, <1>3, <2>1, <2>5, <2>7
<1>4. QED
  BY <1>2, <1>3

\* Withdrawing in pieces costs no less than at once: each fee is rounded up.
LEMMA WithdrawFee ==
  ASSUME TypeOK, NEW a \in Apps, NEW s \in Slots, NEW u \in Users, NEW x \in Amounts,
         Withdraw(a, s, u, x), NEW j \in Positions
  PROVE  treasury + FeeDue(j) <= treasury' + FeeDue(j)'
<1> DEFINE k == <<a, s, u>>
<1>1. k \in Positions
  BY KeyFacts
<1>2. pos' = [pos EXCEPT ![k] = AfterWithdraw(pos[k], x, acc[a][PoolOf(s)])]
  BY DEF Withdraw
<1>3. /\ pos'[k].amount = pos[k].amount - x /\ pos'[k].staked_at = pos[k].staked_at
      /\ \A i \in Positions \ {k} : pos'[i] = pos[i]
  BY <1>1, <1>2 DEF TypeOK, AfterWithdraw
<1>4. /\ now' = now /\ treasury' = treasury + unstake_fee(x, Rate(k))
      /\ pos[k].amount >= x /\ x \in Nat
  BY BoundsNat DEF Withdraw, EnoughStake, Amounts, Rate
<1> HIDE DEF k
<1>5. /\ pos[k].amount \in Nat /\ treasury \in Nat /\ Rate(k) \in Nat
      /\ FeeDue(k) = unstake_fee(pos[k].amount, Rate(k)) /\ FeeDue(k) \in Nat
  BY <1>1, FeeDueFacts
<1>6. unstake_fee(x, Rate(k)) \in Nat
  BY <1>4, <1>5, FeeFacts
<1>7. CASE j # k
  <2>1. FeeDue(j)' = FeeDue(j)
    BY <1>3, <1>4, <1>7 DEF FeeDue
  <2>2. FeeDue(j) \in Nat
    BY FeeDueFacts
  <2>3. QED
    BY <1>4, <1>5, <1>6, <2>1, <2>2
<1>8. CASE j = k
  <2>1. FeeDue(k)' = unstake_fee(pos[k].amount - x, Rate(k))
    BY <1>3, <1>4 DEF FeeDue, Rate
  <2>2. pos[k].amount - x \in Nat /\ x + (pos[k].amount - x) = pos[k].amount
    BY <1>4, <1>5
  <2>3. /\ unstake_fee(x + (pos[k].amount - x), Rate(k))
             <= unstake_fee(x, Rate(k)) + unstake_fee(pos[k].amount - x, Rate(k))
        /\ unstake_fee(pos[k].amount - x, Rate(k)) \in Nat
    BY <1>4, <1>5, <2>2, FeeFacts
  <2>4. QED
    BY <1>4, <1>5, <1>6, <1>8, <2>1, <2>2, <2>3
<1>9. QED
  BY <1>7, <1>8

\* A claim changes neither stake nor stamp; a closed position had nothing to withdraw.
LEMMA ClaimOrCloseFee ==
  ASSUME TypeOK, NEW k \in Positions, NEW j \in Positions, now' = now, treasury' = treasury,
         \A i \in Positions \ {k} : pos'[i] = pos[i],
         \/ pos'[k].amount = pos[k].amount /\ pos'[k].staked_at = pos[k].staked_at
         \/ pos[k].amount = 0 /\ pos'[k] = NoPosition
  PROVE  treasury + FeeDue(j) <= treasury' + FeeDue(j)'
<1>1. CASE j # k \/ (pos'[k].amount = pos[k].amount /\ pos'[k].staked_at = pos[k].staked_at)
  BY <1>1, SameFee
<1>2. CASE j = k /\ pos[k].amount = 0 /\ pos'[k] = NoPosition
  <2>1. /\ treasury \in Nat /\ Rate(k) \in Nat /\ now \in Nat
        /\ FeeDue(k) = unstake_fee(0, Rate(k))
    BY <1>2, FeeDueFacts
  <2>2. FeeDue(k) = 0
    BY <2>1, FeeFacts
  <2>3. FeeDue(k)' = unstake_fee(0, linear_decay_fee_bps(now - 0))
    BY <1>2 DEF FeeDue, NoPosition
  <2>4. FeeDue(k)' = 0
    <3>1. linear_decay_fee_bps(now - 0) \in Nat
      BY <2>1, RateFacts
    <3>2. QED
      BY <2>3, <3>1, FeeFacts
  <2>5. QED
    BY <1>2, <2>1, <2>2, <2>4
<1>3. QED
  BY <1>1, <1>2

LEMMA StepFee ==
  ASSUME TypeOK, [Next]_vars, now' = now, NEW j \in Positions
  PROVE  treasury + FeeDue(j) <= treasury' + FeeDue(j)'
<1>1. /\ VoteSlot \in Slots /\ Tags \subseteq Slots
      /\ \A a \in Apps, s \in Slots, u \in Users : <<a, s, u>> \in Positions
  BY DEF Slots, Positions
<1>2. ASSUME NEW a \in Apps, NEW u \in Users, NEW x \in Amounts,
             Vote(a, u, x) \/ \E t \in Tags : StakeTag(a, t, u, x)
      PROVE  treasury + FeeDue(j) <= treasury' + FeeDue(j)'
  BY <1>1, <1>2, DepositFee DEF Vote, StakeTag
<1>3. ASSUME NEW a \in Apps, NEW u \in Users, NEW x \in Amounts,
             WithdrawVote(a, u, x) \/ \E t \in Tags : WithdrawTagStake(a, t, u, x)
      PROVE  treasury + FeeDue(j) <= treasury' + FeeDue(j)'
  BY <1>1, <1>3, WithdrawFee DEF WithdrawVote, WithdrawTagStake
<1>4. ASSUME NEW a \in Apps, NEW s \in Slots, NEW u \in Users, Claim(a, s, u)
      PROVE  treasury + FeeDue(j) <= treasury' + FeeDue(j)'
  <2> DEFINE k == <<a, s, u>>
  <2>1. k \in Positions
    BY <1>1
  <2>2. pos' = [pos EXCEPT ![k] = AfterClaim(pos[k], acc[a][PoolOf(s)])]
    BY <1>4 DEF Claim
  <2>3. /\ pos'[k].amount = pos[k].amount /\ pos'[k].staked_at = pos[k].staked_at
        /\ \A i \in Positions \ {k} : pos'[i] = pos[i]
    BY <2>1, <2>2 DEF TypeOK, AfterClaim
  <2>4. treasury' = treasury
    BY <1>4 DEF Claim
  <2>5. QED
    BY <2>1, <2>3, <2>4, ClaimOrCloseFee
<1>5. ASSUME NEW k \in Positions, Close(k)
      PROVE  treasury + FeeDue(j) <= treasury' + FeeDue(j)'
  <2>1. /\ pos' = [pos EXCEPT ![k] = NoPosition] /\ pos[k].amount = 0 /\ treasury' = treasury
    BY <1>5 DEF Close, Closable
  <2>2. pos'[k] = NoPosition /\ \A i \in Positions \ {k} : pos'[i] = pos[i]
    BY <2>1 DEF TypeOK
  <2>3. QED
    BY <2>1, <2>2, ClaimOrCloseFee
<1>6. CASE UNCHANGED <<pos, treasury>>
  BY <1>6, SameFee
<1>7. \A a \in Apps, u \in Users :
        \/ ClaimVoteReward(a, u) \/ CloseVotePosition(a, u)
        \/ \E t \in Tags : ClaimTagReward(a, t, u) \/ CloseTagStakePosition(a, t, u)
        => treasury + FeeDue(j) <= treasury' + FeeDue(j)'
  BY <1>1, <1>4, <1>5
  DEF ClaimVoteReward, ClaimTagReward, CloseVotePosition, CloseTagStakePosition
<1>8. \/ \E a \in Apps, u \in Users, x \in Amounts :
           Vote(a, u, x) \/ \E t \in Tags : StakeTag(a, t, u, x)
      \/ \E a \in Apps, u \in Users, x \in Amounts :
           WithdrawVote(a, u, x) \/ \E t \in Tags : WithdrawTagStake(a, t, u, x)
      \/ \E a \in Apps, u \in Users :
           \/ ClaimVoteReward(a, u) \/ CloseVotePosition(a, u)
           \/ \E t \in Tags : ClaimTagReward(a, t, u) \/ CloseTagStakePosition(a, t, u)
      \/ UNCHANGED <<pos, treasury>>
  <2>1. CASE UNCHANGED vars
    BY <2>1 DEF vars
  <2>2. CASE Next
    BY <2>2 DEF Next, Initialize, InitApp, SuggestTag, FundAppRewards, Tick
  <2>3. QED
    BY <2>1, <2>2
<1>9. QED
  BY <1>2, <1>3, <1>6, <1>7, <1>8

\* With the clock still, no instruction makes leaving cheaper: not a top-up, not a
\* withdrawal in pieces, not a claim, not closing and reopening the account.
THEOREM OnlyTimeLowersTheFee == Spec => OnlyTimeLowersExitFee
<1>1. TypeOK /\ [Next]_vars =>
        [\A k \in Positions :
           now' = now => treasury + FeeDue(k) <= treasury' + FeeDue(k)']_vars
  BY StepFee
<1>2. QED
  BY <1>1, TypeCorrect, PTL DEF Spec, OnlyTimeLowersExitFee

\* The rates of a top-up of x on a inside the window, weighed by the amounts: what the
\* averaged stamp loses is covered by one second of decay and one basis point.
LEMMA TopUpRates ==
  LET B == UNSTAKE_FEE_START_BPS
      D == UNSTAKE_FEE_DECAY_SECONDS
  IN \A s, a, t \in Nat, x \in Nat \ {0} : t - s \in 0..D =>
       LET w == weighted_avg_timestamp(s, a, t, x)
       IN a * linear_decay_fee_bps(t - s) + x * B
            <= (a + x) * (linear_decay_fee_bps(t - w) + (B \div D + 2))
<1> DEFINE B == UNSTAKE_FEE_START_BPS
           D == UNSTAKE_FEE_DECAY_SECONDS
           c == B \div D + 2
<1> SUFFICES ASSUME NEW s \in Nat, NEW a \in Nat, NEW t \in Nat, NEW x \in Nat \ {0},
                    t - s \in 0..D
             PROVE  a * linear_decay_fee_bps(t - s) + x * B
                      <= (a + x) * (linear_decay_fee_bps(t - weighted_avg_timestamp(s, a, t, x)) + c)
  OBVIOUS
<1> DEFINE w == weighted_avg_timestamp(s, a, t, x)
           e == t - s
           f == t - w
           r == linear_decay_fee_bps(t - s)
           q == linear_decay_fee_bps(t - w)
           N == a + x
<1>1. B \in Nat /\ D \in Nat \ {0}
  BY FeeParameters
<1>2. /\ w \in Nat /\ s <= w /\ w <= t
      /\ s * a + t * x <= N * w + (N - 1)
  <2>1. s <= t
    BY <1>1
  <2>2. QED
    BY <2>1, AverageFacts
<1> HIDE DEF w
<1>3. e \in 0..D /\ f \in 0..D /\ e \in Nat /\ f \in Nat
  BY <1>1, <1>2
<1>4. /\ r \in Nat /\ q \in Nat
      /\ D * r <= B * (D - e) /\ B * (D - f) <= D * q + (D - 1)
  BY <1>1, <1>3, RateFacts
<1>5. c \in Nat /\ B + D <= D * c
  <2>1. B \div D \in Nat /\ B <= D * (B \div D) + (D - 1)
    BY <1>1, DivBounds
  <2>2. D * (B \div D + 2) = D * (B \div D) + D * 2 /\ D * 2 = D + D /\ D * (B \div D) \in Int
    BY <1>1, <2>1, TimesFacts
  <2>3. QED
    BY <1>1, <2>1, <2>2
<1>6. N \in Nat \ {0} /\ N = a + x
  OBVIOUS
<1>7. N * f <= a * e + N
  <2>1. /\ N * f = N * t - N * w /\ N * t = a * t + x * t /\ t * x = x * t
        /\ a * e = a * t - a * s /\ s * a = a * s
        /\ N * w \in Int /\ a * t \in Int /\ x * t \in Int /\ a * s \in Int
    BY <1>2, <1>6, TimesFacts
  <2> HIDE DEF e, f, N
  <2>2. QED
    BY <1>2, <1>6, <2>1
<1> HIDE DEF B, D, e, f, r, q, N, c
\* The four estimates, each multiplied out.
<1>8. a * (D * r) <= a * (B * (D - e)) /\ a * (B * (D - e)) = a * B * D - a * B * e
  <2>1. D - e \in Nat /\ D * r \in Nat /\ B * (D - e) \in Nat
    BY <1>1, <1>3, <1>4, TimesMonotone
  <2>2. a * (D * r) <= a * (B * (D - e))
    BY <1>4, <2>1, TimesMonotone
  <2>3. a * (B * (D - e)) = a * B * D - a * B * e
    BY <1>1, <1>3
  <2>4. QED
    BY <2>2, <2>3
<1>9. N * B * D - N * B * f <= N * (D * q) + N * D
  <2>1. D - f \in Nat /\ D * q + D \in Nat /\ B * (D - f) \in Nat /\ D * q \in Nat
    BY <1>1, <1>3, <1>4, TimesMonotone
  <2>2. B * (D - f) <= D * q + D
    BY <1>1, <1>4, <2>1
  <2>3. N * (B * (D - f)) <= N * (D * q + D)
    BY <1>6, <2>1, <2>2, TimesMonotone
  <2>4. N * (B * (D - f)) = N * B * D - N * B * f
    BY <1>1, <1>3, <1>6
  <2>5. N * (D * q + D) = N * (D * q) + N * D
    BY <1>1, <1>6, <2>1, TimesFacts
  <2>6. QED
    BY <2>3, <2>4, <2>5
<1>10. N * B * f <= a * B * e + N * B
  <2>1. N * f \in Nat /\ a * e + N \in Nat
    BY <1>3, <1>6, TimesMonotone
  <2>2. B * (N * f) <= B * (a * e + N)
    BY <1>1, <1>7, <2>1, TimesMonotone
  <2>3. B * (N * f) = N * B * f /\ B * (a * e + N) = a * B * e + N * B
    BY <1>1, <1>3, <1>6
  <2>4. QED
    BY <2>2, <2>3
<1>11. N * B + N * D <= N * (D * c)
  <2>1. B + D \in Nat /\ D * c \in Nat
    BY <1>1, <1>5, TimesMonotone
  <2>2. N * (B + D) <= N * (D * c)
    BY <1>5, <1>6, <2>1, TimesMonotone
  <2>3. QED
    BY <1>1, <1>6, <2>2, TimesFacts
<1>12. /\ D * (a * r + x * B) = a * (D * r) + x * B * D
       /\ D * (N * (q + c)) = N * (D * q) + N * (D * c)
       /\ N * B * D = a * B * D + x * B * D
  BY <1>1, <1>4, <1>5, <1>6
<1>13. /\ a * (D * r) \in Int /\ x * B * D \in Int /\ N * (D * q) \in Int
       /\ N * (D * c) \in Int /\ a * B * D \in Int /\ a * B * e \in Int
       /\ N * B * f \in Int /\ N * D \in Int /\ N * B \in Int /\ N * B * D \in Int
  BY <1>1, <1>3, <1>4, <1>5, <1>6, TimesFacts
<1>14. D * (a * r + x * B) <= D * (N * (q + c))
  BY <1>8, <1>9, <1>10, <1>11, <1>12, <1>13
<1>15. a * r + x * B \in Int /\ N * (q + c) \in Int
  BY <1>1, <1>4, <1>5, <1>6, TimesFacts
<1>16. a * r + x * B <= N * (q + c)
  BY <1>1, <1>14, <1>15, FactorCancels
<1>17. QED
  BY <1>16 DEF r, q, N, w

LEMMA SlackIsNat ==
  /\ UNSTAKE_FEE_START_BPS \in Nat
  /\ UNSTAKE_FEE_START_BPS \div UNSTAKE_FEE_DECAY_SECONDS + 2 \in Nat
<1>1. UNSTAKE_FEE_START_BPS \in Nat /\ UNSTAKE_FEE_DECAY_SECONDS \in Nat \ {0}
  BY FeeParameters
<1>2. UNSTAKE_FEE_START_BPS \div UNSTAKE_FEE_DECAY_SECONDS \in Nat
  BY <1>1, DivIsNat
<1>3. QED
  BY <1>1, <1>2

\* So the fee of the whole position grows by the starting fee of what was added.
LEMMA TopUpFee ==
  ASSUME TypeOK, NEW a \in Apps, NEW s \in Slots, NEW u \in Users, NEW x \in Amounts,
         Deposit(a, s, u, x),
         now - pos[<<a, s, u>>].staked_at \in 0..UNSTAKE_FEE_DECAY_SECONDS
  PROVE  LET k     == <<a, s, u>>
             slack == UNSTAKE_FEE_START_BPS \div UNSTAKE_FEE_DECAY_SECONDS + 2
         IN FeeDue(k) + unstake_fee(x, UNSTAKE_FEE_START_BPS)
              <= FeeDue(k)' + unstake_fee(pos'[k].amount, slack) + 1
<1> DEFINE k == <<a, s, u>>
           c == UNSTAKE_FEE_START_BPS \div UNSTAKE_FEE_DECAY_SECONDS + 2
           w == weighted_avg_timestamp(pos[k].staked_at, pos[k].amount, now, x)
           q == linear_decay_fee_bps(now - w)
           N == pos[k].amount + x
           B == UNSTAKE_FEE_START_BPS
<1>1. /\ k \in Positions /\ x \in Nat \ {0} /\ now' = now
      /\ pos'[k].amount = N /\ pos'[k].staked_at = w
  BY DepositedPosition
<1>2. /\ pos[k].amount \in Nat /\ pos[k].staked_at \in Nat /\ now \in Nat
      /\ Rate(k) \in Nat /\ FeeDue(k) = unstake_fee(pos[k].amount, Rate(k))
  BY <1>1, FeeDueFacts
<1>3. FeeDue(k)' = unstake_fee(N, q)
  BY <1>1 DEF FeeDue
<1>4. pos[k].amount * Rate(k) + x * B <= N * (q + c)
  BY <1>1, <1>2, TopUpRates DEF Rate
<1>5. B \in Nat /\ c \in Nat
    BY SlackIsNat
<1>6. q \in Nat
  <2>1. w \in Nat
    BY <1>1, <1>2, AverageFacts
  <2> HIDE DEF w
  <2>2. QED
    BY <1>2, <2>1, RateFacts
<1> HIDE DEF k, c, w, q, N, B
<1>7. N \in Nat
  BY <1>1, <1>2 DEF N
<1>8. /\ pos[k].amount * Rate(k) \in Nat /\ x * B \in Nat /\ N * q \in Nat /\ N * c \in Nat
      /\ N * (q + c) = N * q + N * c
  BY <1>1, <1>2, <1>5, <1>6, <1>7, TimesMonotone, TimesFacts
<1>9. \A m1, m2, n1, n2 \in Nat : m1 + m2 <= n1 + n2 =>
        (m1 + 9999) \div 10000 + (m2 + 9999) \div 10000
          <= (n1 + 9999) \div 10000 + (n2 + 9999) \div 10000 + 1
  OBVIOUS
<1>10. unstake_fee(pos[k].amount, Rate(k)) + unstake_fee(x, B)
         <= unstake_fee(N, q) + unstake_fee(N, c) + 1
  BY <1>4, <1>8, <1>9 DEF unstake_fee
<1>11. QED
  BY <1>1, <1>2, <1>3, <1>10 DEF k, c, B

\* Only a deposit on it raises a position's stake.
LEMMA OnlyDepositsRaise ==
  ASSUME TypeOK, [Next]_vars, NEW j \in Positions, pos'[j].amount - pos[j].amount > 0
  PROVE  \E a \in Apps, s \in Slots, u \in Users, x \in Amounts :
           /\ j = <<a, s, u>> /\ Deposit(a, s, u, x)
           /\ pos'[j].amount - pos[j].amount = x
<1>1. /\ VoteSlot \in Slots /\ Tags \subseteq Slots
      /\ \A a \in Apps, s \in Slots, u \in Users : <<a, s, u>> \in Positions
      /\ pos[j].amount \in Nat
  BY WidthsPositive DEF Slots, Positions, TypeOK
<1>2. ASSUME NEW a \in Apps, NEW s \in Slots, NEW u \in Users, NEW x \in Amounts,
             Deposit(a, s, u, x)
      PROVE  j = <<a, s, u>> /\ pos'[j].amount - pos[j].amount = x
  <2>1. /\ x \in Nat \ {0}
        /\ \A i \in Positions \ {<<a, s, u>>} : pos'[i] = pos[i]
        /\ pos'[<<a, s, u>>].amount = pos[<<a, s, u>>].amount + x
    BY <1>2, DepositedPosition
  <2>2. j = <<a, s, u>>
    <3> SUFFICES ASSUME j # <<a, s, u>>
                 PROVE  FALSE
      OBVIOUS
    <3>1. pos'[j] = pos[j]
      BY <2>1
    <3>2. pos'[j].amount - pos[j].amount = 0
      BY <1>1, <3>1
    <3>3. QED
      BY <3>2
  <2>3. QED
    BY <1>1, <2>1, <2>2
<1>3. ASSUME NEW k \in Positions, NEW q, pos' = [pos EXCEPT ![k] = q],
             q.amount \in Nat, q.amount <= pos[k].amount
      PROVE  FALSE
  <2>1. pos'[k] = q /\ \A i \in Positions \ {k} : pos'[i] = pos[i]
    BY <1>3 DEF TypeOK
  <2>2. CASE j = k
    BY <1>1, <1>3, <2>1, <2>2
  <2>3. CASE j # k
    <3>1. pos'[j].amount - pos[j].amount = 0
      BY <1>1, <2>1, <2>3
    <3>2. QED
      BY <3>1
  <2>4. QED
    BY <2>2, <2>3
<1>4. ASSUME NEW a \in Apps, NEW s \in Slots, NEW u \in Users, NEW x \in Amounts,
             Withdraw(a, s, u, x)
      PROVE  FALSE
  <2>1. pos[<<a, s, u>>].amount \in Nat /\ x \in Nat /\ pos[<<a, s, u>>].amount >= x
    BY <1>1, <1>4, WidthsPositive, BoundsNat DEF TypeOK, Withdraw, EnoughStake, Amounts
  <2>2. pos' = [pos EXCEPT ![<<a, s, u>>] = AfterWithdraw(pos[<<a, s, u>>], x, acc[a][PoolOf(s)])]
    BY <1>4 DEF Withdraw
  <2>3. AfterWithdraw(pos[<<a, s, u>>], x, acc[a][PoolOf(s)]).amount = pos[<<a, s, u>>].amount - x
    BY DEF AfterWithdraw
  <2>4. QED
    BY <1>1, <1>3, <2>1, <2>2, <2>3
<1>5. ASSUME NEW a \in Apps, NEW s \in Slots, NEW u \in Users, Claim(a, s, u)
      PROVE  FALSE
  <2>1. pos[<<a, s, u>>].amount \in Nat
    BY <1>1, WidthsPositive DEF TypeOK
  <2>2. pos' = [pos EXCEPT ![<<a, s, u>>] = AfterClaim(pos[<<a, s, u>>], acc[a][PoolOf(s)])]
    BY <1>5 DEF Claim
  <2>3. AfterClaim(pos[<<a, s, u>>], acc[a][PoolOf(s)]).amount = pos[<<a, s, u>>].amount
    BY DEF AfterClaim
  <2>4. QED
    BY <1>1, <1>3, <2>1, <2>2, <2>3
<1>6. ASSUME NEW k \in Positions, Close(k)
      PROVE  FALSE
  <2> DEFINE none == NoPosition
  <2>1. pos' = [pos EXCEPT ![k] = none] /\ pos[k].amount = 0
    BY <1>6 DEF Close, Closable
  <2>2. none.amount = 0
    BY DEF NoPosition
  <2> HIDE DEF none
  <2>3. none.amount \in Nat /\ none.amount <= pos[k].amount
    BY <2>1, <2>2
  <2>4. QED
    BY <1>3, <2>1, <2>3
<1>7. CASE UNCHANGED pos
  BY <1>1, <1>7
<1>8. \/ \E a \in Apps, u \in Users, x \in Amounts :
           Vote(a, u, x) \/ \E t \in Tags : StakeTag(a, t, u, x)
      \/ \E a \in Apps, u \in Users, x \in Amounts :
           WithdrawVote(a, u, x) \/ \E t \in Tags : WithdrawTagStake(a, t, u, x)
      \/ \E a \in Apps, u \in Users :
           \/ ClaimVoteReward(a, u) \/ CloseVotePosition(a, u)
           \/ \E t \in Tags : ClaimTagReward(a, t, u) \/ CloseTagStakePosition(a, t, u)
      \/ UNCHANGED pos
  <2>1. CASE UNCHANGED vars
    BY <2>1 DEF vars
  <2>2. CASE Next
    BY <2>2 DEF Next, Initialize, InitApp, SuggestTag, FundAppRewards, Tick
  <2>3. QED
    BY <2>1, <2>2
<1>9. CASE \E a \in Apps, u \in Users, x \in Amounts :
             Vote(a, u, x) \/ \E t \in Tags : StakeTag(a, t, u, x)
  BY <1>1, <1>2, <1>9 DEF Vote, StakeTag
<1>10. CASE \E a \in Apps, u \in Users, x \in Amounts :
              WithdrawVote(a, u, x) \/ \E t \in Tags : WithdrawTagStake(a, t, u, x)
  BY <1>1, <1>4, <1>10 DEF WithdrawVote, WithdrawTagStake
<1>11. CASE \E a \in Apps, u \in Users :
              \/ ClaimVoteReward(a, u) \/ CloseVotePosition(a, u)
              \/ \E t \in Tags : ClaimTagReward(a, t, u) \/ CloseTagStakePosition(a, t, u)
  BY <1>1, <1>5, <1>6, <1>11
  DEF ClaimVoteReward, ClaimTagReward, CloseVotePosition, CloseTagStakePosition
<1>12. QED
  BY <1>7, <1>8, <1>9, <1>10, <1>11

\* The gap the stake-weighted stamp closes (unstake_fee.rs:66-71) is closed for every fee
\* schedule: a top-up inside the decay window pays its own full starting fee on leaving, up
\* to one second of decay and one basis point of the new stake.
THEOREM TopUpPaysItsFee == Spec => TopUpInWindowPaysItsFee
<1>1. TypeOK /\ [Next]_vars =>
        [\A k \in Positions :
           LET added == pos[k]'.amount - pos[k].amount
               age   == now - pos[k].staked_at
               slack == UNSTAKE_FEE_START_BPS \div UNSTAKE_FEE_DECAY_SECONDS + 2
           IN (added > 0 /\ age \in 0..UNSTAKE_FEE_DECAY_SECONDS) =>
                FeeDue(k) + unstake_fee(added, UNSTAKE_FEE_START_BPS)
                  <= FeeDue(k)' + unstake_fee(pos[k]'.amount, slack) + 1]_vars
  <2> DEFINE slack == UNSTAKE_FEE_START_BPS \div UNSTAKE_FEE_DECAY_SECONDS + 2
  <2> SUFFICES ASSUME TypeOK, [Next]_vars, NEW k \in Positions,
                      pos'[k].amount - pos[k].amount > 0,
                      now - pos[k].staked_at \in 0..UNSTAKE_FEE_DECAY_SECONDS
               PROVE  FeeDue(k) + unstake_fee(pos'[k].amount - pos[k].amount, UNSTAKE_FEE_START_BPS)
                        <= FeeDue(k)' + unstake_fee(pos'[k].amount, slack) + 1
    OBVIOUS
  <2>1. PICK a \in Apps, s \in Slots, u \in Users, x \in Amounts :
          /\ k = <<a, s, u>> /\ Deposit(a, s, u, x)
          /\ pos'[k].amount - pos[k].amount = x
    BY OnlyDepositsRaise
  <2>2. QED
    BY <2>1, TopUpFee
<1>2. QED
  BY <1>1, TypeCorrect, PTL DEF Spec, TopUpInWindowPaysItsFee

\* Both: no sequence of instructions makes leaving cheaper than the time that passed does
\* (unstake_fee.rs), for any fee schedule.
THEOREM ExitFeeIsKept == Spec => ExitFeeHolds
  BY OnlyTimeLowersTheFee, TopUpPaysItsFee DEF ExitFeeHolds
-----------------------------------------------------------------------------
(***************************************************************************)
(* The program implements SharedRewards.                                   *)
(***************************************************************************)
\* A gain of whole tokens on s staked out of w, of a funding of x that bumps the
\* accumulator by b.
LEMMA GainIsProRata ==
  ASSUME NEW P \in Nat \ {0}, NEW w \in Nat \ {0}, NEW s \in Nat, NEW x \in Nat,
         NEW b \in Nat, NEW g \in Int,
         P * g <= b * s + (P - 1), b * s <= P * g + (P - 1),
         w * b <= x * P, x * P <= w * b + (w - 1)
  PROVE  /\ g * w < s * x + w
         /\ s * (P * x - w) < (g + 1) * w * P
<1> DEFINE bsw == s * (w * b)
           gw == g * w
           sx == s * x
<1>1. /\ bsw \in Int /\ gw \in Int /\ sx \in Int /\ P * gw \in Int /\ P * sx \in Int
      /\ P * w \in Nat /\ b * s \in Nat /\ w * s \in Nat /\ w * b \in Nat /\ x * P \in Nat
      /\ P * g \in Int
  BY TimesFacts, TimesMonotone
<1>2. w * (b * s) = bsw /\ w * (P * g) = P * gw /\ s * (x * P) = P * sx
  OBVIOUS
<1>3. w * (P * g) <= w * (b * s + (P - 1)) /\ w * (b * s) <= w * (P * g + (P - 1))
  BY <1>1
<1>4. /\ w * (b * s + (P - 1)) = w * (b * s) + w * P - w
      /\ w * (P * g + (P - 1)) = w * (P * g) + w * P - w
      /\ w * P = P * w
  BY <1>1
<1>5. s * (w * b) <= s * (x * P) /\ s * (x * P) <= s * (w * b + (w - 1))
  BY <1>1
<1>6. s * (w * b + (w - 1)) = bsw + w * s - s
  BY <1>1
<1> HIDE DEF bsw, gw, sx
<1>7. P * gw < P * (sx + w)
  <2>1. P * (sx + w) = P * sx + P * w
    BY <1>1
  <2>2. P * gw <= bsw + P * w - w /\ bsw <= P * sx
    BY <1>2, <1>3, <1>4, <1>5 DEF bsw
  <2>3. QED
    BY <1>1, <2>1, <2>2
<1>8. gw < sx + w
  BY <1>1, <1>7
<1>9. s * (P * x - w) = P * sx - w * s
  <2>1. P * x = x * P /\ s * (x * P - w) = s * (x * P) - w * s
    BY <1>1
  <2>2. QED
    BY <1>2, <2>1
<1>10. (g + 1) * w * P = P * gw + P * w
  BY DEF gw
<1>11. P * sx - w * s <= bsw
  BY <1>1, <1>2, <1>5, <1>6 DEF bsw
<1>12. bsw <= P * gw + P * w - w
  BY <1>1, <1>2, <1>3, <1>4
<1>13. QED
  BY <1>1, <1>8, <1>9, <1>10, <1>11, <1>12 DEF gw, sx

\* What is owed is what was earned, rounded down to whole tokens.
LEMMA WholeTokens ==
  ASSUME NEW n \in Nat, NEW d \in Nat, NEW s \in Nat, d <= accrued(n, s)
  PROVE  LET due == settle_pending(n, d, s)
             earned == n * s - REWARD_PRECISION * d
         IN /\ earned \in Int /\ due \in Nat /\ REWARD_PRECISION * due \in Int
            /\ REWARD_PRECISION * due <= earned
            /\ earned <= REWARD_PRECISION * due + (REWARD_PRECISION - 1)
<1> DEFINE P == REWARD_PRECISION
           w == accrued(n, s)
           m == n * s
           due == settle_pending(n, d, s)
<1>1. m \in Nat /\ w = m \div P /\ P \in Nat \ {0}
  BY TimesMonotone, PrecisionPositive DEF accrued
<1> HIDE DEF m, P
<1>2. w \in Nat /\ P * w <= m /\ m <= P * w + (P - 1)
  BY <1>1, DivBounds
<1>3. due = w - d
  BY <1>2 DEF settle_pending, SaturatingSub
<1> HIDE DEF w, due
<1>4. P * due = P * w - P * d /\ P * w \in Int /\ P * d \in Int /\ due \in Nat
  BY <1>1, <1>2, <1>3, TimesFacts DEF w
<1>5. QED
  BY <1>1, <1>2, <1>4 DEF m, P, due

LEMMA InitImplementsShared == Init => Shared!Init
<1> SUFFICES ASSUME Init
             PROVE  Shared!Init
  OBVIOUS
<1>1. /\ \A k \in Positions : pos[k].amount = 0 /\ k[1] \in Apps /\ PoolOf(k[2]) \in RewardPool
      /\ \A a \in Apps, p \in RewardPool : total[a][p] = 0 /\ acc[a][p] = 0
  BY DEF Init, NoPosition, Positions, PoolOf, RewardPool
<1>2. \A k \in Positions : pos[k].reward_debt = 0
  BY DEF Init, NoPosition
<1>3. ASSUME NEW k \in Positions
      PROVE  Pending(k) = 0
  <2>1. Pending(k) = settle_pending(0, 0, 0)
    BY <1>1, <1>2 DEF Pending
  <2>2. QED
    BY <2>1, SettleFacts
<1>4. QED
  BY <1>1, <1>3 DEF Shared!Init, amountOf, totalOf, pendingOf, Pools, Init

\* A position paid in full and left with another stake.
LEMMA SettlesIsSettle ==
  ASSUME IInv, IInv', NEW k \in Positions, NEW n \in Int, NEW r \in {0, 1}, Settles(k, n, r)
  PROVE  \E s \in 0..U64Max : Shared!Settle(k, s)
<1> DEFINE s == pos'[k].amount
<1>1. /\ k[1] \in Apps /\ PoolOf(k[2]) \in RewardPool
      /\ <<k[1], PoolOf(k[2])>> \in Pools
  BY DEF Positions, PoolOf, RewardPool, Pools
<1>2. TypeOK /\ TypeOK'
  BY DEF IInv
<1>3. /\ s \in 0..U64Max /\ s = pos[k].amount + n
      /\ pos[k].amount \in Nat /\ Pending(k) \in Nat
  <2>1. pos' \in [Positions -> [open : BOOLEAN, amount : 0..U64Max,
                                reward_debt : Nat, staked_at : Nat]]
    BY <1>2 DEF TypeOK, Positions, Slots
  <2>2. QED
    BY <1>2, <2>1, PendingIsNat DEF Settles
<1>4. amountOf' = [amountOf EXCEPT ![k] = s]
  <2>1. \A j \in Positions \ {k} : pos'[j] = pos[j]
    BY DEF Settles
  <2>2. QED
    BY <2>1 DEF amountOf, Positions, Slots
<1>5. totalOf' = [totalOf EXCEPT ![<<k[1], PoolOf(k[2])>>] = @ + s - amountOf[k]]
  <2>1. \A a \in Apps, p \in RewardPool :
          total'[a][p] = IF a = k[1] /\ p = PoolOf(k[2]) THEN total[a][p] + n ELSE total[a][p]
    BY DEF Settles
  <2>2. \A q \in Pools : q[1] \in Apps /\ q[2] \in RewardPool /\ q = <<q[1], q[2]>>
    BY DEF Pools
  <2>3. amountOf[k] = pos[k].amount
    BY DEF amountOf
  <2>4. \A q \in Pools :
          totalOf'[q] = IF q = <<k[1], PoolOf(k[2])>> THEN totalOf[q] + s - amountOf[k]
                                                      ELSE totalOf[q]
    <3> SUFFICES ASSUME NEW q \in Pools
                 PROVE  totalOf'[q] = IF q = <<k[1], PoolOf(k[2])>> THEN totalOf[q] + s - amountOf[k]
                                                                    ELSE totalOf[q]
      OBVIOUS
    <3>1. totalOf'[q] = total'[q[1]][q[2]] /\ totalOf[q] = total[q[1]][q[2]]
      BY DEF totalOf, Pools
    <3>2. q = <<k[1], PoolOf(k[2])>> <=> (q[1] = k[1] /\ q[2] = PoolOf(k[2]))
      BY <2>2
    <3>3. total[q[1]][q[2]] \in Nat
      BY <1>2, <2>2, WidthsPositive DEF TypeOK
    <3>4. n = s - amountOf[k] /\ s \in Int /\ amountOf[k] \in Int
      BY <1>3, <2>3, WidthsPositive
    <3> HIDE DEF s
    <3>5. total[q[1]][q[2]] + n = total[q[1]][q[2]] + s - amountOf[k]
      BY <3>3, <3>4
    <3>6. QED
      BY <2>1, <2>2, <3>1, <3>2, <3>5
  <2> HIDE DEF s
  <2>5. DOMAIN totalOf = Pools /\ totalOf = [q \in Pools |-> totalOf[q]]
        /\ totalOf' = [q \in Pools |-> totalOf'[q]]
    BY DEF totalOf, Pools
  <2>6. QED
    BY <1>1, <2>4, <2>5
<1>6. pendingOf' = [pendingOf EXCEPT ![k] = 0]
  <2>1. \A j \in Positions \ {k} : Pending(j)' = Pending(j)
    BY DEF Settles, Pending
  <2>2. Pending(k)' = 0
    <3>1. /\ pos'[k].reward_debt = accrued(s, AccOf(k)) /\ AccOf(k)' = AccOf(k)
          /\ AccOf(k) \in Nat /\ s \in Nat
      BY <1>2, <1>3, PendingIsNat, WidthsPositive DEF Settles, AccOf
    <3>2. settle_pending(s, reward_debt_for(s, AccOf(k)), AccOf(k)) = 0
      BY <3>1, CheckpointSettles
    <3>3. QED
      BY <3>1, <3>2 DEF Pending, AccOf, reward_debt_for
  <2>3. QED
    BY <2>1, <2>2 DEF pendingOf, Positions, Slots
<1>7. vault' = vault - pendingOf[k] + s - amountOf[k] /\ vault' >= 0
  <2>1. vault' = vault - Pending(k) + n /\ vault \in Nat /\ vault' \in Nat
    BY <1>2, BoundsNat DEF Settles, TypeOK
  <2>2. pendingOf[k] = Pending(k) /\ amountOf[k] = pos[k].amount
    BY DEF pendingOf, amountOf
  <2>3. s \in Nat
    BY <1>3, WidthsPositive
  <2> HIDE DEF s
  <2>4. QED
    BY <1>3, <2>1, <2>2, <2>3
<1>8. QED
  BY <1>3, <1>4, <1>5, <1>6, <1>7 DEF Shared!Settle

\* fund_app_rewards reaches each position of the pool by its share.
LEMMA FundIsFund ==
  ASSUME IInv, StakeTotals, NEW a \in Apps, NEW p \in RewardPool, NEW x \in Amounts,
         FundAppRewards(a, p, x)
  PROVE  \E q \in Pools, y \in 1..U64Max : Shared!Fund(q, y)
<1> DEFINE q == <<a, p>>
           w == total[a][p]
           P == REWARD_PRECISION
           b == (x * P) \div w
           At == [k \in Positions |-> <<k[1], PoolOf(k[2])>>]
<1>1. TypeOK /\ x \in 1..U64Max /\ x \in Nat /\ q \in Pools /\ totalOf[q] = w
  BY BoundsNat, SupplyIsU64, WidthsPositive DEF IInv, Amounts, Pools, totalOf
<1>2. w \in Nat \ {0} /\ P \in Nat \ {0} /\ vault' = vault + x
  <2>1. w \in Nat /\ w > 0
    BY <1>1, WidthsPositive DEF TypeOK, FundAppRewards, BumpOk
  <2>2. QED
    BY <2>1, PrecisionPositive DEF FundAppRewards
<1>3. /\ b \in Nat
      /\ \A k \in PoolPositions(a, p) : Earned(k)' = Earned(k) + b * pos[k].amount
      /\ \A k \in Positions \ PoolPositions(a, p) : Earned(k)' = Earned(k)
  BY FundedEarnings
<1>4. w * b <= x * P /\ x * P <= w * b + (w - 1)
  <2>1. x * P \in Nat
    BY <1>1, <1>2, TimesMonotone
  <2> HIDE DEF w, P
  <2>2. QED
    BY <1>2, <2>1, DivBounds
<1>5. amountOf' = amountOf /\ totalOf' = totalOf
  BY DEF FundAppRewards, amountOf, totalOf
<1>6. IInv'
  BY FundKeepsInv
<1> HIDE DEF b
<1>7. ASSUME NEW k \in Positions, At[k] = q
      PROVE  Shared!ProRata(pendingOf'[k] - pendingOf[k], amountOf[k], totalOf[q], x)
  <2> DEFINE s == pos[k].amount
             g == pendingOf'[k] - pendingOf[k]
  <2>1. /\ Earned(k) \in Int /\ Pending(k) \in Nat /\ P * Pending(k) \in Int /\ s \in Nat
        /\ P * Pending(k) <= Earned(k) /\ Earned(k) <= P * Pending(k) + (P - 1)
    BY PendingOfEarned
  <2>2. /\ Earned(k)' \in Int /\ Pending(k)' \in Nat /\ P * Pending(k)' \in Int
        /\ P * Pending(k)' <= Earned(k)' /\ Earned(k)' <= P * Pending(k)' + (P - 1)
    <3> DEFINE d == pos[k].reward_debt
               acc2 == AccOf(k)'
    <3>1. pos' = pos
      BY DEF FundAppRewards
    <3>2. s \in Nat /\ d \in Nat /\ acc2 \in Nat /\ d <= accrued(s, acc2)
      <4>1. TypeOK' /\ Checkpointed(pos'[k], acc2)
        BY <1>6 DEF IInv, Positions, Slots
      <4>2. k[1] \in Apps /\ PoolOf(k[2]) \in RewardPool
        BY DEF Positions, PoolOf, RewardPool
      <4>3. acc2 \in Nat
        BY <4>1, <4>2, WidthsPositive DEF TypeOK, AccOf
      <4>4. s \in Nat /\ d \in Nat
        BY PendingOfEarned
      <4>5. QED
        BY <3>1, <4>1, <4>3, <4>4 DEF Checkpointed
    <3>3. Earned(k)' = s * acc2 - P * d /\ Pending(k)' = settle_pending(s, d, acc2)
      BY <3>1 DEF Earned, Pending, AccOf
    <3> HIDE DEF s, d, acc2
    <3>4. QED
      BY <3>2, <3>3, WholeTokens
  <2>3. k \in PoolPositions(a, p)
    BY <1>7 DEF PoolPositions
  <2>4. Earned(k)' = Earned(k) + b * s /\ b * s \in Nat
    BY <1>2, <1>3, <2>1, <2>3, TimesMonotone
  <2>5. g = Pending(k)' - Pending(k) /\ amountOf[k] = s
    BY DEF pendingOf, amountOf
  <2> HIDE DEF s, g, P, w
  <2>6. P * g = P * Pending(k)' - P * Pending(k) /\ g \in Int
    BY <1>2, <2>1, <2>2, <2>5
  <2>7. P * g <= b * s + (P - 1) /\ b * s <= P * g + (P - 1)
    BY <1>2, <2>1, <2>2, <2>4, <2>6
  <2>8. g * w < s * x + w /\ s * (P * x - w) < (g + 1) * w * P
    BY <1>1, <1>2, <1>3, <1>4, <2>1, <2>6, <2>7, GainIsProRata
  <2>9. QED
    BY <1>1, <2>5, <2>8 DEF Shared!ProRata, P, g
<1>8. ASSUME NEW k \in Positions, At[k] # q
      PROVE  pendingOf'[k] = pendingOf[k]
  <2>1. k[1] \in Apps /\ PoolOf(k[2]) \in RewardPool /\ (k[1] # a \/ PoolOf(k[2]) # p)
    BY <1>8 DEF Positions, PoolOf, RewardPool
  <2>2. acc' = [acc EXCEPT ![a][p] = bump_accumulator(x, total[a][p], @)] /\ pos' = pos
    BY DEF FundAppRewards
  <2>3. acc'[k[1]][PoolOf(k[2])] = acc[k[1]][PoolOf(k[2])]
    BY <1>1, <2>1, <2>2 DEF TypeOK
  <2>4. Pending(k)' = Pending(k)
    BY <2>2, <2>3 DEF Pending
  <2>5. QED
    BY <2>4 DEF pendingOf
<1>9. Shared!Fund(q, x)
  BY <1>1, <1>2, <1>5, <1>7, <1>8 DEF Shared!Fund
<1>10. QED
  BY <1>1, <1>9

LEMMA StepImplementsShared == BooksInv /\ [Next]_vars => [Shared!Next]_(Shared!vars)
<1> SUFFICES ASSUME BooksInv, [Next]_vars
             PROVE  Shared!Next \/ UNCHANGED <<amountOf, totalOf, pendingOf, vault>>
  BY DEF Shared!vars
<1>1. IInv /\ NothingUnregistered /\ StakeTotals /\ IInv'
  BY StepKeepsInv DEF BooksInv
<1>2. ASSUME NEW k \in Positions, NEW n \in Int, NEW r \in {0, 1}, Settles(k, n, r)
      PROVE  Shared!Next
  BY <1>1, <1>2, SettlesIsSettle DEF Shared!Next
<1>3. ASSUME NEW a \in Apps, NEW p \in RewardPool, NEW x \in Amounts, FundAppRewards(a, p, x)
      PROVE  Shared!Next
  BY <1>1, <1>3, FundIsFund DEF Shared!Next
<1>4. CASE NoMoneyMoves
  BY <1>4 DEF NoMoneyMoves, amountOf, totalOf, pendingOf, Pending
<1>5. QED
  BY <1>1, <1>2, <1>3, <1>4, StepShapes

\* The accumulators, the debts and the saturating subtraction add up to what SharedRewards
\* says outright: every funding shared by stake within a token, every reward paid once.
THEOREM ImplementsSharedRewards == Spec => RewardsAreShared
<1>1. QED
  BY InitImplementsShared, StepImplementsShared, BooksHold, PTL DEF Spec, RewardsAreShared, Shared!Spec

=============================================================================
