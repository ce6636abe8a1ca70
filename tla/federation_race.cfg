SPECIFICATION Spec
CONSTANTS
  p1 = p1  p2 = p2  i1 = i1  i2 = i2  s1 = s1  s2 = s2
  r1 = r1  r2 = r2  b1 = b1  b2 = b2  y1 = y1  o1 = o1  o2 = o2
  NoEvent = NoEvent  NoBytes = NoBytes  NoSource = NoSource
  NoObservation = NoObservation
  Processes = {p1, p2}
  Ids = {i1, i2}
  Slots = {s1, s2}
  Refs = {r1, r2}
  Bytes = {b1, b2}
  Events <- Colliding
  Deliveries = {y1}
  Observers = {o1, o2}
  Lists <- NoneOrAll
  MaxCommands = 3
  MaxCrashes = 1
INVARIANTS
  IndexedIsWhole SlotAccounted ObservationsHold QuarantineIsFinal
  ImportsInTurn
PROPERTIES
  ImplementsContract
CHECK_DEADLOCK FALSE
