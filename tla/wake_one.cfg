SPECIFICATION FairSpec
CONSTANTS
  d1 = d1  d2 = d2  s1 = s1  s2 = s2  w1 = w1  c1 = c1  c2 = c2  y1 = y1  y2 = y2
  NoCore = NoCore  Nobody = Nobody  NoWake = NoWake  NoRequest = NoRequest
  Watchdogs = {d1, d2}
  Submitters = {s1, s2}
  Wakes = {w1}
  Cores = {c1, c2}
  Deliveries = {y1}
  Refuses <- OneRefuses
  MaxRestarts = 2
INVARIANTS
  OneInvocation AckByClaimer 
PROPERTIES
  ImplementsContract 
