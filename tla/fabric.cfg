SPECIFICATION Spec
CONSTANTS
  a1 = a1  a2 = a2  s1 = s1  w1 = w1  w2 = w2  t1 = t1  x1 = x1  p1 = p1  p2 = p2
  NoKind = NoKind  NoAgent = NoAgent  NoSession = NoSession
  NoWorkspace = NoWorkspace  NoTask = NoTask  NoRow = NoRow
  NoBinding = NoBinding  NoCall = NoCall  NoPost = NoPost
  Agents = {a1, a2}
  Kinds = {"ai", "human"}
  Sessions = {s1}
  Workspaces = {w1, w2}
  Tasks = {t1}
  Resources = {x1}
  Processes = {p1, p2}
  Calls <- Commands
  Documents <- Offers
  Locked <- Digests
  Shipped <- Digests
  Registered <- Owner
  Opened <- OwnersSpace
  MaxCalls = 4
  MaxEdits = 1
  MaxBinds = 1
INVARIANTS
  OnePortal  RevisionCounts
PROPERTIES
  ImplementsContract
CHECK_DEADLOCK FALSE
