\* Two voters, two tags that share a pool, and one voter over a long clock; a small U128Max lets the checked multiplications fail.
SPECIFICATION Spec
CONSTANTS
  Users = {u1, u2}
  Apps = {a1}
  Tags = {t1, t2}
  VoteSlot = voteSlot
  U64Max = 6
  U128Max = 400
  REWARD_PRECISION = 12
  UNSTAKE_FEE_START_BPS = 9000
  UNSTAKE_FEE_DECAY_SECONDS = 3
  Supply = 6
  MaxTime = 4
  MaxFundings = 2
  MaxResizes = 4
SYMMETRY Symmetry
CONSTRAINT Family
INVARIANTS Inv StakeTotals VaultBacksTheBooks RoundingBounded
PROPERTIES RewardsConserved RewardsAreShared ExitFeeHolds
