\* Three runs of the deploy script, any of them cut short, then the seeding of stakes behind a slow crawler.
SPECIFICATION FairSpec
CONSTANTS
  Null = Null
  Configs <- MCConfigs
  Chunks = 2
  TagsOf <- MCTagsOf
  TagsPerTx = 1
  Concurrency = 1
  MaxAttempts = 2
  MaxPolls = 2
  MaxRuns = 3
  MaxSeedings = 1
  MaxFaults = 1
CHECK_DEADLOCK FALSE
INVARIANTS Inv
PROPERTIES OneMint ScriptsEnd
