\* After others take the rounded-up rewards, the vault is short of the last staker's principal.
SPECIFICATION Spec
CONSTANTS
  Users = {u1, u2}
  Apps = {a1}
  Tags = {}
  VoteSlot = voteSlot
  U64Max = 9
  U128Max = 2000
  REWARD_PRECISION = 12
  UNSTAKE_FEE_START_BPS = 100
  UNSTAKE_FEE_DECAY_SECONDS = 2
  Supply = 9
  MaxTime = 1
  MaxFundings = 2
  MaxResizes = 4
SYMMETRY UserSymmetry
INVARIANTS AmountCanAlwaysBeWithdrawn
