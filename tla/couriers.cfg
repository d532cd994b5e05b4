CONSTANTS
  None = None
  j1 = j1  j2 = j2  src = src  d1 = d1  d2 = d2
  open = open  shut = shut  fact = fact  c1 = c1  c2 = c2  w1 = w1  w2 = w2
  Subjects = {j1}
  Scopes = {}
  Dests = {d1, d2}
  Channel <- EmailAndTelegram
  Materials = {open, shut, fact}
  ActiveMaterials = {open}
  FactMaterials = {fact}
  TroubleMaterials = {}
  LegacyReceipts <- OldEmail
  Runs = {1, 2}
  Couriers = {c1, c2}
  Senders = {}
  CardCap = 2
  StatusCap = 1
  MaxAttempts = 2
  MaxSequence = 2
  MaxGeneration = 1
  MaxEnvelopes = 0
  MaxParts = 1
SYMMETRY ProcessSymmetry
SPECIFICATION Spec
INVARIANTS
  LegacyNotResent
  StatusFollowsDelivery
CHECK_DEADLOCK FALSE
