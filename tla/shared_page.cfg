CONSTANTS
  None = None
  o = o  n1 = n1  n2 = n2  page = page  other = other
  email = email  telegram = telegram
  Ids = {o, n1, n2}
  NewIds = {n1, n2}
  Urls = {page, other}
  Url <- Shared
  Channels = {email}
  OldReceipts <- OldSentByMail
  Materials = {m1, m2}
  MaxSequence = 2
SPECIFICATION Spec
INVARIANTS
  LaterChangesAreSent
