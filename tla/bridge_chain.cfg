SPECIFICATION FairSpec
CONSTANTS
  e1 = e1  e2 = e2  m1 = m1  m2 = m2  m3 = m3  a1 = a1  a2 = a2  t1 = t1
  x1 = x1  x2 = x2  n1 = n1  p1 = p1  l1 = l1
  NoMessage = NoMessage  NoLock = NoLock  NoNative = NoNative
  NoState = NoState  NoTarget = NoTarget
  Engines = {e1}
  Messages = {m1, m2, m3}
  Callers <- EveryPair
  Agents = {a1, a2}
  Targets = {t1}
  Terminals = {x1}
  Natives = {}
  Payloads = {p1}
  Locks = {}
  LockInfo <- NoLocks
  Envelopes <- Chains
  RequireTargetLock = FALSE
  AllowHeuristic = FALSE
  CutEcho = TRUE
  MaxHops = 2
  MaxDepth = 2
  MaxSeq = 0
  MaxCalls = 3
  MayCrash = FALSE
INVARIANTS
  LoopBound OneConfirmedPromptPerRoute

  
