\* Three clicks over the three maps, with late, failing and overtaken answers and debounced fields.
SPECIFICATION MapsFairSpec
CONSTANTS
  a1 = a1
  a2 = a2
  s1 = s1
  t1 = t1
  t2 = t2
  u1 = u1
  stakeMin = stakeMin
  Null = Null
  Untagged = Untagged
  Apps <- MCApps
  SampleApps <- MCSampleApps
  Tags <- MCTags
  SampleTags <- MCSampleTags
  TagOrder <- MCTagOrder
  TagsOf <- MCTagsOf
  Stake <- MCStake
  Linked <- MCLinked
  Fields <- MCFields
  Values <- MCValues
  Admits <- MCAdmits
  Metrics <- MCMetrics
  Landings <- MCLandings
  MaxFilterTags = 2
  MaxSiblings = 1
  MaxClicks = 3
  MaxFaults = 1
CHECK_DEADLOCK FALSE
INVARIANTS MapsInv
PROPERTIES Loads RequestHonoured
