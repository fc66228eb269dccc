\* A position and an app over pages of one signature: snapshot, updates in any order, failing calls, a crash anywhere.
SPECIFICATION FairSpec
CONSTANTS
  Positions = {p}
  Apps = {a}
  PageLimit = 1
  MaxTxs = 3
  MaxFaults = 1
  MaxCrashes = 1
CONSTRAINT ManyOfOnePosition
INVARIANTS Inv NothingDroppedUpToCursor
PROPERTIES RowsNeverGoBack EventuallyLogged
