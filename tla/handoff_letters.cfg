SPECIFICATION Spec
CONSTANTS
  k1 = k1  k2 = k2  i1 = i1  i2 = i2  h1 = h1  h2 = h2
  b1 = b1  b2 = b2  md = md  task = task  exact = exact  y1 = y1
  NoHandoff = NoHandoff  NoCore = NoCore  NoBytes = NoBytes  NoOne = NoOne
  NoReceipt = NoReceipt  NoSubmission = NoSubmission
  Clients = {k1, k2}
  Instances = {i1, i2}
  As <- TwoInstances
  Handoffs = {h1, h2}
  Named = {h1}
  Contents <- Letters
  Bytes = {b1, b2}
  Kinds = {md}
  Targets = {task, exact}
  Open = {task}
  Verified <- OneVerified
  Deliveries = {y1}
  MayCrash = TRUE
  Editable = {h1}
INVARIANTS
  EnvelopeHasPayload SentIsMaterialized OneReceiver ResponseLinked 
PROPERTIES
  ImplementsContract
