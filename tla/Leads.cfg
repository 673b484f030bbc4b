CONSTANTS
  Leads = {l1, l2}
  Patches = {p1, p2}
  StepTasks = {t1}
  Targets = {"contacted", "won", "lost"}
  MaxWeights = 1
  Pages <- MCPages
  Businesses <- MCBusinesses
  Enrichers = {e1, e2}
  MaxShots = 1
  MaxAnalyses = 3
  Tasks = {"t1", "t2", "t3"}
  Workers = 2
  MaxRequests = 1
  followup_days = 1
  MaxDays = 3
CHECK_DEADLOCK FALSE
SYMMETRY Interchangeable
SPECIFICATION MCSpec
INVARIANTS TypesOK OutcomeSnapshots SignalsOfOneAnalysis DuplicatesOverlap
PROPERTY NotTooEarly
