\* A vote and a tag stake on all four pages, with overlapping polls and requests lost at every hop.
SPECIFICATION FairSpec
CONSTANTS
  vote = vote
  t1 = t1
  VoteTarget = vote
  Tags <- MCTags
  None = None
  Unknown = Unknown
  Held <- MCHeldBoth
  HeldAmount = 2
  Emptied <- MCEmptied
  MaxStake = 3
  MaxEvents = 2
  MaxPolls = 2
CHECK_DEADLOCK FALSE
INVARIANTS Inv VoteRequestsDoNotOverlap
PROPERTIES PageCatchesUp
