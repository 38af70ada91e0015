SPECIFICATION MCSpec
CONSTANTS
  CvConvs = {c1,c2}
  CvUsers = {u1}
  CvCallers = {p1,p2}
  CvNobody = nobody
  CvMaxCalls = 3
  IbUsers = {u1}
  IbMaxTime = 2
  CtPeople = {q1,q2}
  CtContacts = {t1,t2,t3}
  CtWorkers = {k1,k2}
  CtNobody = nobody
  CtMaxJobs = 2
  CaChannels = {c1,c2}
  CaSockets = {s1,s2}
  CaCallers = {u1,u2}
  CaCallerSees = {c1}
  CaMaxChanges = 2
  KbCards = {d1,d2}
  KbStages = {s1,s2}
  KbCallers = {p1,p2}
  KbMaxCalls = 3
  KbMaxOrder = 2
  AvWorkers = {k1,k2}
  AvQueueSlot = k1
  AvMaxPhotos = 2
  AvMaxAsks = 3
  AvMaxEdits = 1
  MdWorkers = {k1,k2}
  MdConvs = {c1,c2}
  MdNumbers = {c1}
  MdMaxAsks = 2
  MdMaxRequests = 1
  CsJobs = {j1,j2}
  CsCallers = {p1,p2}
  CsNone = none
  CsConvs = {c1,c2,c3}
  CsPage = 1
  CsCap = 2
  CsAttempts = 2
  CsMaxMoves = 1
  TsCalls = {k1,k2}
  TsMax = 3
  TsPage = 2
  TsMaxPages = 2
  TsCap = 2
  TsMaxFaults = 1
  GpMaxMail = 2
  GpBackfill = 1
  GpMaxFaults = 1
  GpMaxEdits = 1
  AdPeople = {q1,q2}
  AdMaxMessages = 2
  WrChannels = {c1,c2}
  WrMaxPayloads = 1
  WrMaxEdits = 1
  CbWorkers = {k1,k2}
  CbNoNode = noNode
  CbAttempts = 2
  CbMaxSaves = 1
  CbMaxMessages = 2
  MbPeople = {q1}
  MbFounder = u1
  MbOrgs = {c1}
  MbInvites = {j1,j2}
  MbCallers = {p1,p2}
  MbMaxCalls = 4
  MbMaxFaults = 1
INVARIANTS
  DeskTypeOK
  
  
  
  
  MdSafe
  
  
  CbSafe
 
CHECK_DEADLOCK FALSE
