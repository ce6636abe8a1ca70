SPECIFICATION Spec
CONSTANTS
  p1 = p1  p2 = p2  a = a  b = b  c = c  d = d  w = w  r = r
  s1 = s1  f1 = f1  k1 = k1  k2 = k2  v1 = v1  v2 = v2  v3 = v3
  NoValue = NoValue  NoField = NoField  NoId = NoId  Multiple = Multiple
  NoConflict = NoConflict  NoResolution = NoResolution
  Verified <- Powers
  Subjects <- Both
  Processes = {p1}
  Events <- Contested
  Guarded = {"resolution"}
  MaxConflicts = 2
INVARIANTS
  FailClosed
CHECK_DEADLOCK FALSE
