CONSTANTS
  None = None
  o = o  n1 = n1  n2 = n2  page = page  other = other
  email = email  telegram = telegram
  Ids = {o, n1, n2}
  NewIds = {o, n1, n2}
  Urls = {page, other}
  Url <- Moved
  Channels = {email}
  OldReceipts <- SentByMail
  Materials = {m1, m2}
  MaxSequence = 2
SYMMETRY SameMaterials
SPECIFICATION Spec
INVARIANTS
  LinkingNeverBlocks
  FirstOccurrenceAdopted
  SuppressedOnce
  RollbackSees
