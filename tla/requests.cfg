CONSTANTS
  None = None
  t1 = t1  t2 = t2  rA = rA  rB = rB  known = known  pilot = pilot  jobs = jobs
  h1 = h1  a0 = a0  a1 = a1
  Runs = {rA, rB}
  Planned = {}
  Sources = {known, pilot}
  Keys = {}
  Mode <- Modes
  Category <- OneCategory
  Ceiling <- PlanCeiling
  RouteCeiling <- RouteCeilings
  CategoryCeiling <- CategoryCeilings
  RouteRequests <- RouteSends
  CategoryRequests <- CategorySends
  Tasks = {t1, t2}
  Hosts = {h1}
  SourceHost <- AtOneHost
  Accounts = {a0, a1}
  Public = a0
  Owners <- OneRunOrTwo
  Errands <- AccountOrNot
  Cap <- TwoCalls
  Concurrency = 2
  Deadline = 2
  Delays = {1, 2}
  MaxTime = 1
  MaxCrashes = 1
SPECIFICATION Spec
PROPERTIES
  PausesKept
  Settles
CHECK_DEADLOCK FALSE
