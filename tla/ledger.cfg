\* Two tabs of one user: duplicated signatures, stale rows, refused withdrawals.
SPECIFICATION Spec
CONSTANTS
  u1 = u1
  w1 = w1
  w2 = w2
  Users = {u1}
  Tabs <- TwoTabs
  TabUser <- SameSession
  VoteTarget = voteTarget
  Tags = {t1}
  None = none
  MaxAmount = 2
  MaxDeposits = 2
  MaxFaults = 1
  MaxResends = 1
CONSTRAINT OneMishap
SYMMETRY TabSymmetry
INVARIANTS Inv LedgerTracksChain RecordedOnce
PROPERTIES CompletedHandlerLeavesTotalsExact
