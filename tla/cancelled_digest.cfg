CONSTANTS
  None = None
  j1 = j1  j2 = j2  src = src  d1 = d1  d2 = d2
  open = open  shut = shut  fact = fact  c1 = c1  c2 = c2  w1 = w1  w2 = w2
  Subjects = {j1, j2}
  Scopes = {}
  Dests = {d1}
  Channel <- Email
  Materials = {open, shut}
  ActiveMaterials = {open}
  FactMaterials = {}
  TroubleMaterials = {}
  LegacyReceipts = {}
  Runs = {1, 2}
  Couriers = {}
  Senders = {w1}
  CardCap = 2
  StatusCap = 1
  MaxAttempts = 1
  MaxSequence = 2
  MaxGeneration = 1
  MaxEnvelopes = 2
  MaxParts = 1
SYMMETRY ProcessSymmetry
SPECIFICATION Spec
INVARIANTS
  CancelReleases
CHECK_DEADLOCK FALSE
