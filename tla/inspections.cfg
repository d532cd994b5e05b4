CONSTANTS
  None = None
  t1 = t1  t2 = t2  rA = rA  rB = rB  known = known  pilot = pilot  jobs = jobs
  h1 = h1  a0 = a0  a1 = a1
  Runs = {rA}
  Planned = {rA}
  Sources = {known, pilot}
  Keys = {1}
  Mode <- Modes
  Category <- OneCategory
  Ceiling <- PlanCeiling
  RouteCeiling <- RouteCeilings
  CategoryCeiling <- CategoryCeilings
  RouteRequests <- RouteSends
  CategoryRequests <- CategorySends
  Tasks = {t1, t2}
  Hosts = {h1}
  SourceHost <- AtOneHost
  Accounts = {a0, a1}
  Public = a0
  Owners <- OneRun
  Errands <- NoAccount
  Cap <- TwoCalls
  Concurrency = 2
  Deadline = 1
  Delays = {1}
  MaxTime = 0
  MaxCrashes = 1
SPECIFICATION Spec
INVARIANTS
  WithinCeilings
  OnlyUnsentRefunded
SYMMETRY SameTasks
CHECK_DEADLOCK FALSE
