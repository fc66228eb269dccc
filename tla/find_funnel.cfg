\* Two facets: late replies and navigations, Back and Forward, a damaged link, a failing request, a mute challenge.
SPECIFICATION FunnelFairSpec
CONSTANTS
  f1 = f1
  f2 = f2
  yes = yes
  skip = skip
  a1 = a1
  a2 = a2
  Damaged = Damaged
  Null = Null
  Facets <- MCFacets
  Values <- MCValues
  Apps <- MCApps
  Shortlist <- MCShortlist
  Landings <- MCLandings
  MaxQuestions = 2
  MaxForwarded = 2
  TurnstileEnabled = TRUE
  MaxClicks = 4
  MaxFailures = 1
CHECK_DEADLOCK FALSE
INVARIANTS FunnelInv
PROPERTIES HistoryKept NeverStuck
