\* Three events over the browse page and the create form, answers in any order, a submission polled twice.
SPECIFICATION BrowseFairSpec
CONSTANTS
  Filters <- MCFilters
  Words <- MCWords
  Tags <- MCTags
  Sorts <- MCSorts
  Sites <- MCSites
  Start <- MCStart
  AppPage = AppPage
  None = None
  Pages = 3
  MAX_TAGS = 2
  Attempts = 2
  MaxFetches = 2
  MaxEvents = 3
CHECK_DEADLOCK FALSE
INVARIANTS BrowseInv
PROPERTIES SettlesOnUrl SubmissionEnds
