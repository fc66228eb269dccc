\* Beacons and ad slots of two sessions, then a settlement run with withdrawals, refusals and a crash.
SPECIFICATION FairSpec
CONSTANTS
  a1 = a1
  a2 = a2
  t1 = t1
  Apps <- MCApps
  Tabs <- MCTabs
  NoApp = NoApp
  Captcha = TRUE
  Earnings = 100
  Stakes <- MCStakes
  Past <- MCPast
  MaxVisits = 1
  MaxSessions = 2
  MaxRuns = 1
  MaxFaults = 1
CHECK_DEADLOCK FALSE
INVARIANTS Inv SharesAddUp
PROPERTIES RunEnds
