SPECIFICATION MCSpec
CONSTANTS
  ArOrchestrator = orch
  ArWorkers = {w1}
  ArNoAgent = noAgent
  ArRuns = {r1,r2}
  ArMaxIterations = 2
  ArMaxChain = 2
  ArMaxSwitches = 1
  PaUsers = {u1,u2}
  PaWorkers = {k1,k2}
  PaMaxCalls = 3
  SkEditors = {u1,u2}
  SkRuns = {r1}
  SkMaxVersions = 2
  SkMaxChanges = 3
  AtAgents = {a1,a2,a3}
  AtNobody = nobody
  AtEditors = {u1,u2}
  AtMaxDepth = 4
  AtMaxEdits = 3
  KnSources = {s1}
  KnAgents = {a1,a2}
  KnOrgWide = w
  KnMessages = {m1}
  KnNoOrg = no
  KnOrg = o
  KnScopedTable = TRUE
  KnAttempts = 2
  KnMaxChunks = 2
  KnMaxJobs = 2
  KnMaxClose = 1
  KnMaxFaults = 1
  MmFacts = {f1,f2}
  MmWorkers = {k1,k2}
  MmMaxJobs = 2
  MmMaxFaults = 1
  PrWindow = 2
  PrMaxLog = 3
  PrMaxCalls = 1
  PrKeys = {"openai"}
  SrCards = {d1,d2}
  SrEvents = {e1,e2}
  SrNone = none
  SrCheckouts = {h1,h2}
  SrMaxAttempts = 2
  SrMaxFaults = 1
INVARIANTS
  AgentTypeOK
  ArSafe
  
  
  ToolsSafe
  SrSafe
PROPERTY AgentSteps
CHECK_DEADLOCK FALSE
