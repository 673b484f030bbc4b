CONSTANTS
  Turns = {t1, t2}
  ChatChannels = {"web", "telegram"}
  Callable = {"classify_inbound_message", "start_territory_crawl"}
  MaxConvs = 1
  MaxLoops = 1
  MaxCalls = 1
  Callers = {"c1", "c2"}
  Subjects = {"s"}
  Kinds = {"reply", "score", "security"}
  Thresholds = {"warning"}
  RateMax = 1
  DryRun = FALSE
  MaxFaults = 1
  MaxSweeps = 0
  MaxPatches = 0
  Requests = {"r1", "r2", "r3"}
  Active = {"smtp", "whatsapp"}
  ApiKeys = {}
  Plain = {1}
  EnvSecrets = {"kapso"}
CHECK_DEADLOCK FALSE
SPECIFICATION MCSpec
SYMMETRY Symmetry
INVARIANTS TypesOK ToolsAccountable NotifiedOnce WorkLostToRaceOnly ShownIsTrue
PROPERTY OthersKept
