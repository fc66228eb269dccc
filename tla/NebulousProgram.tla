--------------------------- MODULE NebulousProgram ---------------------------
(***************************************************************************)
(* The on-chain program programs/nebulous_world.  Apps are registered      *)
(* permissionlessly, tags are suggested for them, users lock vote tokens   *)
(* on an app (a VotePosition) or on a tag of an app (a StakePosition), and *)
(* the platform's authority funds one of the app's two reward pools.  All  *)
(* principal and all rewards sit in ONE vault; who owns what is pure       *)
(* accounting, done with a reward-per-share accumulator.                   *)
(*                                                                         *)
(* A Solana transaction is atomic: a handler that returns an error leaves  *)
(* no trace, so every require!, checked operation and failing token        *)
(* transfer of a handler is a conjunct of its action's guard, and a        *)
(* handler is one action.                                                  *)
(***************************************************************************)
EXTENDS Integers, FiniteSets, Functions

CONSTANTS
  Users,                      \* wallets that vote and stake
  Apps,                       \* app ids that may be registered
  Tags,                       \* tag ids that may be suggested
  VoteSlot,                   \* marks the VotePosition among a user's positions on an app
  U64Max,                     \* u64::MAX
  U128Max,                    \* u128::MAX
  REWARD_PRECISION,           \* fixed-point scale of the accumulators
  UNSTAKE_FEE_START_BPS,      \* exit fee right after a deposit, out of 10_000
  UNSTAKE_FEE_DECAY_SECONDS,  \* age at which the exit fee reaches 0
  Supply,                     \* tokens of vote_mint in existence
  MaxTime,                    \* bound: last instant of the clock
  MaxFundings,                \* bound: fund_app_rewards calls per pool
  MaxResizes                  \* bound: deposits and withdrawals per pool

ASSUME UsersFinite == IsFiniteSet(Users) /\ IsFiniteSet(Apps) /\ IsFiniteSet(Tags)
ASSUME VoteSlotIsNoTag == VoteSlot \notin Tags
ASSUME WidthsPositive == U64Max \in Nat /\ U128Max \in Nat
ASSUME PrecisionPositive == REWARD_PRECISION \in Nat \ {0}
ASSUME FeeParameters ==
  UNSTAKE_FEE_START_BPS \in 0..10000 /\ UNSTAKE_FEE_DECAY_SECONDS \in Nat \ {0}
ASSUME BoundsNat ==
  Supply \in Nat /\ MaxTime \in Nat /\ MaxFundings \in Nat /\ MaxResizes \in Nat
ASSUME SupplyIsU64 == Supply <= U64Max

VARIABLES
  initialized,   \* Config and the vault exist
  apps,          \* app ids whose AppAccount exists
  tags,          \* tag ids whose global Tag account exists
  suggested,     \* <<app, tag>> pairs whose AppTagStake exists
  total,         \* total[a]["Vote"] is total_vote_stake, total[a]["Tags"] is total_tag_stake
  acc,           \* the two *_acc_reward_per_share of each app
  stake_amount,  \* stake_amount of each AppTagStake
  pos,           \* VotePositions (slot VoteSlot) and StakePositions (slot = the tag)
  vault,         \* balance of the single global vault
  treasury,      \* exit fees received by the authority's token account so far
  now,           \* Clock::unix_timestamp
  ledger         \* history, per app and pool: what was funded and paid, and how often

accounts == <<initialized, apps, tags, suggested>>
vars == <<initialized, apps, tags, suggested, total, acc, stake_amount, pos,
          vault, treasury, now, ledger>>

RewardPool == {"Vote", "Tags"}
Slots == {VoteSlot} \cup Tags
Positions == Apps \X Slots \X Users
Pools == Apps \X RewardPool

\* The pool whose accumulator a position is checkpointed against: all the tags
\* of an app share one.
PoolOf(s) == IF s = VoteSlot THEN "Vote" ELSE "Tags"

NoPosition == [open |-> FALSE, amount |-> 0, reward_debt |-> 0, staked_at |-> 0]
NewLedger == [funded |-> 0, paid |-> 0, fundings |-> 0, resizes |-> 0]

-----------------------------------------------------------------------------
(***************************************************************************)
(* reward_math.rs                                                          *)
(***************************************************************************)
SaturatingSub(m, n) == IF m > n THEN m - n ELSE 0

accrued(amount, accPerShare) == (amount * accPerShare) \div REWARD_PRECISION

settle_pending(amount, debt, accPerShare) ==
  SaturatingSub(accrued(amount, accPerShare), debt)

\* settle_pending returns Ok: neither the product nor the narrowing overflows.
SettleOk(amount, debt, accPerShare) ==
  /\ amount * accPerShare <= U128Max
  /\ settle_pending(amount, debt, accPerShare) <= U64Max

reward_debt_for(amount, accPerShare) == accrued(amount, accPerShare)

DebtOk(amount, accPerShare) == amount * accPerShare <= U128Max

\* Mutant: divided before it is scaled.
BumpUnscaled(amount, totalStake, current) ==
  current + (amount \div totalStake) * REWARD_PRECISION

bump_accumulator(amount, totalStake, current) ==
  current + ((amount * REWARD_PRECISION) \div totalStake)

BumpOk(amount, totalStake, current) ==
  /\ totalStake > 0
  /\ amount * REWARD_PRECISION <= U128Max
  /\ bump_accumulator(amount, totalStake, current) <= U128Max

-----------------------------------------------------------------------------
(***************************************************************************)
(* unstake_fee.rs                                                          *)
(***************************************************************************)
linear_decay_fee_bps(elapsed) ==
  IF elapsed <= 0 THEN UNSTAKE_FEE_START_BPS
  ELSE IF elapsed >= UNSTAKE_FEE_DECAY_SECONDS THEN 0
  ELSE (UNSTAKE_FEE_START_BPS * (UNSTAKE_FEE_DECAY_SECONDS - elapsed))
         \div UNSTAKE_FEE_DECAY_SECONDS

\* div_ceil(10_000)
unstake_fee(amount, bps) == (amount * bps + 9999) \div 10000

\* Mutant: checkpoint the first deposit and never touch it again.
FirstDepositTimestamp(oldAt, oldAmount, t, added) ==
  IF oldAmount = 0 THEN t ELSE oldAt

weighted_avg_timestamp(oldAt, oldAmount, t, added) ==
  IF oldAmount + added = 0 THEN t
  ELSE (oldAt * oldAmount + t * added) \div (oldAmount + added)

-----------------------------------------------------------------------------
(***************************************************************************)
(* What a handler leaves in a position.                                    *)
(***************************************************************************)
\* Mutants: a deposit, a withdrawal or a claim that forgets the checkpoint; a
\* withdrawal that forgets the amount; a withdrawal checked against any stake.
DepositKeepsDebt(p, x, accPerShare) ==
  [open |-> TRUE, amount |-> p.amount + x, reward_debt |-> p.reward_debt,
   staked_at |-> weighted_avg_timestamp(p.staked_at, p.amount, now, x)]
WithdrawKeepsDebt(p, x, accPerShare) == [p EXCEPT !.amount = p.amount - x]
WithdrawKeepsAmount(p, x, accPerShare) ==
  [p EXCEPT !.reward_debt = reward_debt_for(p.amount, accPerShare)]
ClaimKeepsDebt(p, accPerShare) == p
SomeStake(p, x) == p.amount > 0

\* The owner may take out x: InsufficientStake otherwise.
EnoughStake(p, x) == p.amount >= x

AfterDeposit(p, x, accPerShare) ==
  [open        |-> TRUE,
   amount      |-> p.amount + x,
   reward_debt |-> reward_debt_for(p.amount + x, accPerShare),
   staked_at   |-> weighted_avg_timestamp(p.staked_at, p.amount, now, x)]

AfterWithdraw(p, x, accPerShare) ==
  [open        |-> p.open,
   amount      |-> p.amount - x,
   reward_debt |-> reward_debt_for(p.amount - x, accPerShare),
   staked_at   |-> p.staked_at]

AfterClaim(p, accPerShare) ==
  [open        |-> p.open,
   amount      |-> p.amount,
   reward_debt |-> reward_debt_for(p.amount, accPerShare),
   staked_at   |-> p.staked_at]

\* History: a deposit or withdrawal that paid due, a claim, a funding of x.
LedgerResize(l, due) ==
  [funded |-> l.funded, paid |-> l.paid + due,
   fundings |-> l.fundings, resizes |-> l.resizes + 1]
LedgerClaim(l, due) ==
  [funded |-> l.funded, paid |-> l.paid + due,
   fundings |-> l.fundings, resizes |-> l.resizes]
LedgerFund(l, x) ==
  [funded |-> l.funded + x, paid |-> l.paid,
   fundings |-> l.fundings + 1, resizes |-> l.resizes]

\* Pending reward of the position at key k = <<app, slot, user>>.
Pending(k) ==
  settle_pending(pos[k].amount, pos[k].reward_debt, acc[k[1]][PoolOf(k[2])])

\* The exit fee the whole position would be charged if it were withdrawn now.
FeeDue(k) ==
  unstake_fee(pos[k].amount, linear_decay_fee_bps(now - pos[k].staked_at))

-----------------------------------------------------------------------------
Init ==
  /\ initialized = FALSE
  /\ apps = {} /\ tags = {} /\ suggested = {}
  /\ total = [a \in Apps |-> [p \in RewardPool |-> 0]]
  /\ acc = [a \in Apps |-> [p \in RewardPool |-> 0]]
  /\ stake_amount = [at \in Apps \X Tags |-> 0]
  /\ pos = [k \in Positions |-> NoPosition]
  /\ vault = 0 /\ treasury = 0
  /\ now = 0
  /\ ledger = [a \in Apps |-> [p \in RewardPool |-> NewLedger]]

\* initialize: creates Config and the vault; the account is `init`, so once.
Initialize ==
  /\ ~initialized
  /\ initialized' = TRUE
  /\ UNCHANGED <<apps, tags, suggested, total, acc, stake_amount, pos, vault,
                 treasury, now, ledger>>

\* init_app: permissionless, once per app id; needs no Config.
InitApp(a) ==
  /\ a \notin apps
  /\ apps' = apps \cup {a}
  /\ total' = [total EXCEPT ![a] = [p \in RewardPool |-> 0]]
  /\ acc' = [acc EXCEPT ![a] = [p \in RewardPool |-> 0]]
  /\ UNCHANGED <<initialized, tags, suggested, stake_amount, pos, vault,
                 treasury, now, ledger>>

\* suggest_tag: the global Tag is created if needed, the AppTagStake exactly once.
SuggestTag(a, t) ==
  /\ a \in apps
  /\ <<a, t>> \notin suggested
  /\ tags' = tags \cup {t}
  /\ suggested' = suggested \cup {<<a, t>>}
  /\ stake_amount' = [stake_amount EXCEPT ![<<a, t>>] = 0]
  /\ UNCHANGED <<initialized, apps, total, acc, pos, vault, treasury, now, ledger>>

\* The accounts a position's instructions load: Config, the app and, for a tag
\* position, the AppTagStake that belongs to it.
Loaded(a, s) ==
  /\ initialized
  /\ a \in apps
  /\ s \in Tags => <<a, s>> \in suggested

(***************************************************************************)
(* The body vote and stake_tag share.  The reward is paid before the       *)
(* deposit is taken, and is skipped on an empty position; every counter    *)
(* is a checked_add.                                                       *)
(***************************************************************************)
Deposit(a, s, u, x) ==
  LET k    == <<a, s, u>>
      pool == PoolOf(s)
      due  == IF pos[k].amount > 0 THEN Pending(k) ELSE 0
  IN /\ Loaded(a, s)
     /\ ledger[a][pool].resizes < MaxResizes
     /\ x > 0
     /\ pos[k].amount > 0 =>
          SettleOk(pos[k].amount, pos[k].reward_debt, acc[a][pool])
     /\ due <= vault
     /\ vault - due + x <= Supply
     /\ pos[k].amount + x <= U64Max
     /\ total[a][pool] + x <= U64Max
     /\ DebtOk(pos[k].amount + x, acc[a][pool])
     /\ pos' = [pos EXCEPT ![k] = AfterDeposit(pos[k], x, acc[a][pool])]
     /\ total' = [total EXCEPT ![a][pool] = @ + x]
     /\ vault' = vault - due + x
     /\ ledger' = [ledger EXCEPT ![a][pool] = LedgerResize(@, due)]
     /\ UNCHANGED <<accounts, acc, treasury, now>>

Vote(a, u, x) ==
  /\ Deposit(a, VoteSlot, u, x)
  /\ UNCHANGED stake_amount

StakeTag(a, t, u, x) ==
  /\ stake_amount[<<a, t>>] + x <= U64Max
  /\ Deposit(a, t, u, x)
  /\ stake_amount' = [stake_amount EXCEPT ![<<a, t>>] = @ + x]

(***************************************************************************)
(* The body withdraw_vote and withdraw_tag_stake share.  Three transfers   *)
(* leave the vault: the pending reward, the fee to the authority and the   *)
(* rest of the principal to the user.  staked_at is not touched.           *)
(***************************************************************************)
Withdraw(a, s, u, x) ==
  LET k    == <<a, s, u>>
      pool == PoolOf(s)
      due  == Pending(k)
      fee  == unstake_fee(x, linear_decay_fee_bps(now - pos[k].staked_at))
  IN /\ Loaded(a, s)
     /\ pos[k].open
     /\ ledger[a][pool].resizes < MaxResizes
     /\ x > 0
     /\ EnoughStake(pos[k], x)
     /\ SettleOk(pos[k].amount, pos[k].reward_debt, acc[a][pool])
     /\ total[a][pool] >= x
     /\ DebtOk(pos[k].amount - x, acc[a][pool])
     /\ due + x <= vault
     /\ pos' = [pos EXCEPT ![k] = AfterWithdraw(pos[k], x, acc[a][pool])]
     /\ total' = [total EXCEPT ![a][pool] = @ - x]
     /\ vault' = vault - due - fee - (x - fee)
     /\ treasury' = treasury + fee
     /\ ledger' = [ledger EXCEPT ![a][pool] = LedgerResize(@, due)]
     /\ UNCHANGED <<accounts, acc, now>>

WithdrawVote(a, u, x) ==
  /\ Withdraw(a, VoteSlot, u, x)
  /\ UNCHANGED stake_amount

WithdrawTagStake(a, t, u, x) ==
  /\ stake_amount[<<a, t>>] >= x
  /\ Withdraw(a, t, u, x)
  /\ stake_amount' = [stake_amount EXCEPT ![<<a, t>>] = @ - x]

\* The body of claim_vote_reward and claim_tag_reward: a zero claim succeeds.
Claim(a, s, u) ==
  LET k    == <<a, s, u>>
      pool == PoolOf(s)
  IN /\ Loaded(a, s)
     /\ pos[k].open
     /\ SettleOk(pos[k].amount, pos[k].reward_debt, acc[a][pool])
     /\ Pending(k) <= vault
     /\ pos' = [pos EXCEPT ![k] = AfterClaim(pos[k], acc[a][pool])]
     /\ vault' = vault - Pending(k)
     /\ ledger' = [ledger EXCEPT ![a][pool] = LedgerClaim(@, Pending(k))]
     /\ UNCHANGED <<accounts, total, acc, stake_amount, treasury, now>>

ClaimVoteReward(a, u) == Claim(a, VoteSlot, u)
ClaimTagReward(a, t, u) == Claim(a, t, u)

\* fund_app_rewards, signed by Config.authority: either pool, the same vault.
FundAppRewards(a, pool, x) ==
  /\ initialized
  /\ a \in apps
  /\ ledger[a][pool].fundings < MaxFundings
  /\ x > 0
  /\ BumpOk(x, total[a][pool], acc[a][pool])
  /\ vault + x <= Supply
  /\ acc' = [acc EXCEPT ![a][pool] = bump_accumulator(x, total[a][pool], @)]
  /\ vault' = vault + x
  /\ ledger' = [ledger EXCEPT ![a][pool] = LedgerFund(@, x)]
  /\ UNCHANGED <<accounts, total, stake_amount, pos, treasury, now>>

\* Mutant: the NonZeroStake check dropped.
ClosableWithStake(p) == p.open

\* close_vote_position and close_tag_stake_position: an emptied account goes away
\* with whatever its fields hold; only its owner may ask.
Closable(p) == p.open /\ p.amount = 0

Close(k) ==
  /\ Closable(pos[k])
  /\ pos' = [pos EXCEPT ![k] = NoPosition]
  /\ UNCHANGED <<accounts, total, acc, stake_amount, vault, treasury, now, ledger>>

CloseVotePosition(a, u) == Close(<<a, VoteSlot, u>>)
CloseTagStakePosition(a, t, u) == Close(<<a, t, u>>)

\* The cluster's clock.  It is not monotonic: unstake_fee.rs names a cluster
\* restart as a case where it steps back.
Tick ==
  /\ now' \in {now - 1, now + 1} \cap (0..MaxTime)
  /\ UNCHANGED <<accounts, total, acc, stake_amount, pos, vault, treasury, ledger>>

Amounts == 1..Supply

Next ==
  \/ Initialize
  \/ \E a \in Apps : InitApp(a)
  \/ \E a \in Apps, t \in Tags : SuggestTag(a, t)
  \/ \E a \in Apps, u \in Users, x \in Amounts : Vote(a, u, x)
  \/ \E a \in Apps, t \in Tags, u \in Users, x \in Amounts : StakeTag(a, t, u, x)
  \/ \E a \in Apps, u \in Users, x \in Amounts : WithdrawVote(a, u, x)
  \/ \E a \in Apps, t \in Tags, u \in Users, x \in Amounts : WithdrawTagStake(a, t, u, x)
  \/ \E a \in Apps, u \in Users : ClaimVoteReward(a, u)
  \/ \E a \in Apps, t \in Tags, u \in Users : ClaimTagReward(a, t, u)
  \/ \E a \in Apps, p \in RewardPool, x \in Amounts : FundAppRewards(a, p, x)
  \/ \E a \in Apps, u \in Users : CloseVotePosition(a, u)
  \/ \E a \in Apps, t \in Tags, u \in Users : CloseTagStakePosition(a, t, u)
  \/ Tick

Spec == Init /\ [][Next]_vars

-----------------------------------------------------------------------------
(***************************************************************************)
(* Properties.                                                             *)
(***************************************************************************)
amountOf == [k \in Positions |-> pos[k].amount]
pendingOf == [k \in Positions |-> Pending(k)]
totalOf == [ap \in Pools |-> total[ap[1]][ap[2]]]
paidTo == [ap \in Pools |-> ledger[ap[1]][ap[2]].paid]
fundedTo == [ap \in Pools |-> ledger[ap[1]][ap[2]].funded]

PoolPositions(a, p) == {k \in Positions : k[1] = a /\ PoolOf(k[2]) = p}
TagPositions(a, t) == {k \in Positions : k[1] = a /\ k[2] = t}

\* Type invariant: every account field stays within its width.
TypeOK ==
  /\ initialized \in BOOLEAN
  /\ apps \subseteq Apps /\ tags \subseteq Tags /\ suggested \subseteq Apps \X Tags
  /\ total \in [Apps -> [RewardPool -> 0..U64Max]]
  /\ acc \in [Apps -> [RewardPool -> 0..U128Max]]
  /\ stake_amount \in [Apps \X Tags -> 0..U64Max]
  /\ pos \in [Positions -> [open : BOOLEAN, amount : 0..U64Max,
                            reward_debt : Nat, staked_at : Nat]]
  /\ vault \in 0..Supply
  /\ treasury \in Nat
  /\ now \in 0..MaxTime
  /\ ledger \in [Apps -> [RewardPool -> [funded : Nat, paid : Nat,
                                         fundings : Nat, resizes : Nat]]]

\* The counters that move in lockstep (stake_tag.rs:85-90): an app's
\* total_vote_stake is the stake of its vote positions, each AppTagStake holds the
\* stake of its positions, and total_tag_stake, the denominator of the tags pool,
\* is the stake of the positions on all of the app's tags.
StakeTotals ==
  /\ \A a \in Apps, p \in RewardPool :
       total[a][p] = SumFunctionOnSet(amountOf, PoolPositions(a, p))
  /\ \A a \in Apps, t \in Tags :
       stake_amount[<<a, t>>] = SumFunctionOnSet(amountOf, TagPositions(a, t))

\* No position is checkpointed ahead of what it accrued, so the saturating_sub of
\* settle_pending never hides a reward already taken.
DebtWithinAccrued ==
  \A k \in Positions :
    pos[k].reward_debt <= accrued(pos[k].amount, acc[k[1]][PoolOf(k[2])])

\* The premise close_vote_position and close_tag_stake_position rest on
\* (close_vote_position.rs:46-51): an emptied position is owed nothing.
EmptyPositionOwedNothing ==
  \A k \in Positions : pos[k].amount = 0 => pos[k].reward_debt = 0 /\ Pending(k) = 0

\* What a position may be owed: its accounts keep their widths, nothing it was paid can
\* be paid again, and emptied it has nothing left to forfeit.
Inv == TypeOK /\ DebtWithinAccrued /\ EmptyPositionOwedNothing

\* The one vault holds exactly the principal of every position of every app, plus
\* what was funded to the pools, minus what they paid: no payout is taken twice,
\* no fee is charged to the rewards, and no app's money leaks into another's books.
VaultBacksTheBooks ==
  vault + SumFunctionOnSet(paidTo, Pools)
    = SumFunctionOnSet(amountOf, Positions) + SumFunctionOnSet(fundedTo, Pools)

\* How far rounding can take a pool from what was funded to it: below one unit too
\* much per deposit or withdrawal, below one unit too little per deposit or
\* withdrawal, and per funding one unit for each REWARD_PRECISION of stake that
\* total, a u64, can hold.
RoundingBounded ==
  \A a \in Apps, p \in RewardPool :
    LET l    == ledger[a][p]
        owed == l.paid + SumFunctionOnSet(pendingOf, PoolPositions(a, p))
    IN /\ owed <= l.funded + l.resizes
       /\ l.funded <= owed + l.resizes + l.fundings * (U64Max \div REWARD_PRECISION + 1)

\* A reward accrues only when the position's own pool is funded: no vote, stake,
\* withdrawal, claim, close or passage of time adds to what any position is owed,
\* whoever performs it.
RewardsAccrueOnlyByFunding ==
  [][\A k \in Positions :
       acc[k[1]][PoolOf(k[2])]' = acc[k[1]][PoolOf(k[2])] => Pending(k)' <= Pending(k)]_vars

\* A position's pending reward never just disappears: if it shrinks, its pool paid
\* out exactly the difference in the same transaction.
PendingLeavesOnlyByPayment ==
  [][\A k \in Positions :
       Pending(k)' < Pending(k) =>
         ledger[k[1]][PoolOf(k[2])].paid' - ledger[k[1]][PoolOf(k[2])].paid
           = Pending(k) - Pending(k)']_vars

\* Rewards are neither made nor lost but by the pools.
RewardsConserved == RewardsAccrueOnlyByFunding /\ PendingLeavesOnlyByPayment

\* The program implements SharedRewards ("distribute rewards proportionally to stake",
\* state/app.rs:12-16): whatever was deposited, withdrawn, claimed and closed before, a
\* funding reaches every position of its pool by its share of the stake, less than one
\* token off; what a position is owed is then paid to it, all at once.
Shared == INSTANCE SharedRewards WITH
            PoolAt <- [k \in Positions |-> <<k[1], PoolOf(k[2])>>],
            Grain <- REWARD_PRECISION, Most <- U64Max,
            stake <- amountOf, whole <- totalOf, owed <- pendingOf, held <- vault
RewardsAreShared == Shared!Spec

\* Only time lowers the cost of leaving: with the clock still, what a position has
\* to pay to exit plus the fees already collected never goes down, so neither a
\* top-up, nor withdrawing in pieces, nor closing and reopening dodges the fee.
OnlyTimeLowersExitFee ==
  [][\A k \in Positions :
       now' = now => treasury + FeeDue(k) <= treasury' + FeeDue(k)']_vars

\* A top-up made while the position is inside the decay window (the gap
\* unstake_fee.rs:66-71 closes): it adds its own full starting fee to what leaving
\* costs, up to the rounding of one second of decay and of one basis point.
TopUpInWindowPaysItsFee ==
  [][\A k \in Positions :
       LET added == pos[k]'.amount - pos[k].amount
           age   == now - pos[k].staked_at
           slack == UNSTAKE_FEE_START_BPS \div UNSTAKE_FEE_DECAY_SECONDS + 2
       IN (added > 0 /\ age \in 0..UNSTAKE_FEE_DECAY_SECONDS) =>
            FeeDue(k) + unstake_fee(added, UNSTAKE_FEE_START_BPS)
              <= FeeDue(k)' + unstake_fee(pos[k]'.amount, slack) + 1]_vars

\* The fee of leaving cannot be dodged, whatever comes in between.
ExitFeeHolds == OnlyTimeLowersExitFee /\ TopUpInWindowPaysItsFee

-----------------------------------------------------------------------------
(***************************************************************************)
(* What comments of the program say, and the program does not do.          *)
(***************************************************************************)
\* state/vote_position.rs:24-25: the fee is "1% immediately after a deposit".
DepositRestartsExitFee ==
  [][\A k \in Positions : pos[k]'.amount > pos[k].amount => FeeDue(k)' > 0]_vars

\* unstake_fee.rs:8: "amount can always be withdrawn, just at a shrinking discount".
AmountCanAlwaysBeWithdrawn ==
  \A k \in Positions :
    LET p == pos[k]
        accPerShare == acc[k[1]][PoolOf(k[2])]
    IN p.amount > 0 =>
         /\ SettleOk(p.amount, p.reward_debt, accPerShare)
         /\ Pending(k) + p.amount <= vault
=============================================================================
