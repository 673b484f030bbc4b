CONSTANTS
  Territories = {t1, t2}
  Cities = {"a", "b"}
  Known = {"a"}
  MaxCycles = 2
  MaxEdits = 1
  MaxRetries = 1
  Requests = {"r1"}
  Beats = {"b1"}
  Leads = {"l1"}
  MaxRounds = 1
  MaxStops = 1
  MaxCrashes = 1
  MaxRedis = 0
  Crawls = {"k1", "k2"}
  Route <- MCRoute
  Places <- MCPlaces
  TargetLeads = 2
  MaxCrawlStops = 1
  Checks = {"t1"}
  Manuals = {"m1"}
  RunThreshold = 2
  HighThreshold = 1
  OutcomeThreshold = 1
  MaxEvidence = 2
  MaxReports = 0
  Signals = {"s1"}
  Industries = {i1, i2}
  Categories = {ca, cb}
  MinTotal = 4
  MinGroup = 2
  Window = 2
  MinCorrections = 1
  TopCategories = 1
  MaxCopies = 2
  MaxOutcomes = 8
  MaxCorrections = 3
  Calls = {"c1", "c2"}
  MaxAttempts = 2
  Budgets = {0, 1}
  MaxRuns = 1
CHECK_DEADLOCK FALSE
SPECIFICATION MCSpec
SYMMETRY Symmetry
INVARIANTS TypesOK  SnapshotsAllOrNone StopsAfterCurrentLead  AdviceEarned FallbackMarked
