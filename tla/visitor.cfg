\* Two accounts of one wallet: switched, disconnected, signed in and out, with late and lost answers.
SPECIFICATION FairSpec
CONSTANTS
  w1 = w1
  w2 = w2
  Wallets <- MCWallets
  Returning <- MCReturning
  None = None
  Lost = Lost
  Undefined = Undefined
  MaxEvents = 4
  MaxRuns <- MCRuns
CHECK_DEADLOCK FALSE
INVARIANTS Inv
PROPERTIES SessionSpec DisplayHolds BellCatchesUp
