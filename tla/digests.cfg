CONSTANTS
  None = None
  j1 = j1  j2 = j2  src = src  d1 = d1  d2 = d2
  open = open  shut = shut  fact = fact  c1 = c1  c2 = c2  w1 = w1  w2 = w2
  Subjects = {j1}
  Scopes = {}
  Dests = {d1}
  Channel <- Telegram
  Materials = {open, fact}
  ActiveMaterials = {open}
  FactMaterials = {fact}
  TroubleMaterials = {}
  LegacyReceipts = {}
  Runs = {1, 2}
  Couriers = {}
  Senders = {w1, w2}
  CardCap = 2
  StatusCap = 1
  MaxAttempts = 2
  MaxSequence = 2
  MaxGeneration = 1
  MaxEnvelopes = 2
  MaxParts = 2
SYMMETRY ProcessSymmetry
SPECIFICATION Spec
INVARIANTS
  AcceptedWasDelivered
  DeliveredOnce
CHECK_DEADLOCK FALSE
