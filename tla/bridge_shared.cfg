SPECIFICATION Spec
CONSTANTS
  e1 = e1  e2 = e2  m1 = m1  m2 = m2  m3 = m3  a1 = a1  a2 = a2  t1 = t1
  x1 = x1  x2 = x2  n1 = n1  p1 = p1  l1 = l1
  NoMessage = NoMessage  NoLock = NoLock  NoNative = NoNative
  NoState = NoState  NoTarget = NoTarget
  Engines = {e1, e2}
  Messages = {m1}
  Callers <- EveryPair
  Agents = {a1, a2}
  Targets = {t1}
  Terminals = {x1}
  Natives = {n1}
  Payloads = {p1}
  Locks = {l1}
  LockInfo <- ExactLock
  Envelopes <- Addressing
  RequireTargetLock = TRUE
  AllowHeuristic = FALSE
  CutEcho = TRUE
  MaxHops = 2
  MaxDepth = 2
  MaxSeq = 1
  MaxCalls = 2
  MayCrash = FALSE
INVARIANTS
  HistoryLegal AuthorityBeforePrompt
SYMMETRY EngineSymmetry
