SPECIFICATION FairSpec
CONSTANTS
  p1 = p1  a = a  b = b  n = n  r = r  s1 = s1  f1 = f1  k1 = k1  v1 = v1  v2 = v2
  NoValue = NoValue  NoField = NoField  NoId = NoId  Multiple = Multiple
  NoConflict = NoConflict  NoResolution = NoResolution
  Verified <- Powers
  Subjects <- Both
  Processes = {p1}
  Events <- All
  Home <- Where
  Guarded = {"resolution"}
  MaxConflicts = 9
  MaxCrashes = 1
INVARIANTS
  VerdictsTravel

  
CHECK_DEADLOCK FALSE
