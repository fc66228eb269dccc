\* Two tabs and a discovery script over one list: queued writes, failing operations, saves put off.
SPECIFICATION CatalogueFairSpec
CONSTANTS
  tab1 = tab1
  tab2 = tab2
  g1 = g1
  old = old
  new = new
  newWww = newWww
  other = other
  Unset = Unset
  Tabs <- MCTabs
  Tags <- MCTags
  normalizeUrl <- MCNormalize
  Listed <- MCListed
  Suggestions <- MCSuggestions
  Categories <- MCCategories
  CategoryOf <- MCCategoryOf
  Iterations = 2
  MaxEdits = 2
  MaxAsks = 1
  MaxStarts = 1
  MaxFailures = 1
CHECK_DEADLOCK FALSE
INVARIANTS CatalogueInv
PROPERTIES NoSaveCancelled ApprovalAnswered
