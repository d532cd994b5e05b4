CONSTANTS
  None = None
  Torn = Torn
  Parts = {"verification", "trust", "cut", "local", "outcomes", "policy",
           "digest", "notify", "scam", "collect", "watch", "pipeline",
           "catalogue", "fetch", "handoff", "thread", "review",
           "assess"}
  Postings = {1, 2}
  Sweeps = {p1, p2}
  Provider <- OneProvider
  Rank <- InOrder
  Standing <- ShownAndSoft
  MaxCycles = 2
  WatchDays = 1
  Shortlist = 1
  Reserve = 1
  LastDay = 1
  Platforms <- OnePlatform
  Clerks = {p1, p2}
  Dims = {"pay", "stable"}
  Weight <- PayAndStability
  Seed <- SeedRegistry
  Prior <- PriorTrust
  FullScale = 20
  Outcomes = {"banned", "noise"}
  OutcomeDelta <- FeedbackDeltas
  ReviewCap = 3
  IncidentLoss = 5
  DecayRate = 1
  MinIdle = 1
  SweepEvery = 1
  Lookback = 1
  MinSources = 2
  Articles <- Story
  LastWeek = 1
  MaxCommands = 2
  MaxCrashes = 1
  Roots = {"home", "spare"}
  Profiles = {"p", "q"}
  Commands = {p1, p2}
  FirstProfile = "p"
  MaxVersion = 1
  MaxLocalCommands = 3
  MaxLocalCrashes = 1
  Claims <- ApplicationClaims
  BoundScopes = {"s"}
  MaxJournal = 4
  LastClock = 4
  MaxChanges = 2
  Openings = {1, 2, 3, 4, 5}
  Automation = {3, 5}
  Company <- FiveCompanies
  Site <- FiveSites
  Marketplace = "m"
  CompanyCap = 2
  AutomationCompanyCap = 1
  SiteCap = 1
  BandCap = 2
  AutomationCap = 1
  Backfill = TRUE
  Tracked = {1}
  Facts <- SomeFacts
  Channels <- ThreeChannels
  Reachable = {"mail", "chat"}
  Engines = {"v5", "v42"}
  Runners = {p1, p2}
  MaxRuns = 2
  MaxFactChanges = 1
  MaxMoves = 1
  MaxInterruptions = 2
  Suspects = {1, 2, 3}
  Askers = {p1, p2}
  JobsPerRun = 2
  BatchSize = 1
  Retries = 1
  CallsPerDay = 3
  MaxAsks = 3
  LastAskDay = 1
  MaxSetbacks = 1
  Entries = 2
  TermPages = 2
  Limits = {None, 3}
  Roster <- SomeSites
  Findings <- SomeFindings
  NameLimits = {None, 1}
  Watchers = {watcher}
  AlertCooldown = 1
  LastHour = 1
  MaxWatches = 3
  MaxLapses = 1
  Copy <- SomeCopies
  Mails <- OneMail
  Employer <- OneEmployer
  EmployerCap = 1
  TopN = 5
  Outlets <- MailAfterAbsent
  Configured = {"mail"}
  Passes = {p1, p2}
  Cuts = {None, 0}
  MaxPasses = 2
  MaxMishaps = 1
  Offered <- SomeRecords
  Originals <- SomeOriginals
  AccountReports <- OneReport
  Leaves = {1, 2}
  Native = {1}
  Address <- ListAndPage
  Elsewhere = {"other"}
  HostOf <- TwoHosts
  Likeness <- SameAndAnother
  Workers = {p1, p2}
  RequestCap = 2
  PerHost = 1
  MaxRedirects = 1
  MaxRetries = 1
  CacheTtl = 1
  Fallback = 1
  LastTick = 1
  MaxListings = 1
  Jobs = {1, 2}
  Targets = {"t"}
  Finds <- TaskBeside
  Nature <- SomeNatures
  Precedence <- InOrder
  Buyer <- TwoBuyers
  Contracts = {2}
  Pasts <- SomePasts
  ActionSlots = 1
  VerifySlots = 1
  CardSlots = 2
  StatusSlots = 1
  BuyerCap = 1
  ContractCap = 1
  MaxReviews = 2
  MaxReissues = 2
  Openers = {"ask"}
  Writers = {"author", "other"}
  Sayings = {"closed", "reopened", "budget"}
  FirstPage = 1
  MorePosts = 1
  PostBudget = 3
  PageBudget = 3
  LastMoment = 1
  MaxPosts = 3
  MaxEdits = 1
  Captures <- SomeCaptures
  Ties <- SomeTies
  Renamings <- SomeRenamings
  MaxPreviews = 2
  Speaks = {"hi"}
  Documented <- DataYears
  Credentials = {"degree"}
  Absences = {"licence"}
  Professions = {"translation"}
  YearsCeiling = 5
  Source <- SomeSources
  Floor = 5
  Viable = 650000
  Rates <- Dollars
  Demanded <- SomeDemands
  Declarable <- SomeDeclarations
  PlatformTrusts <- SomeTrusts
  FirstSeen = {1}
  MaxNews = 2
  LastDate = 1
SPECIFICATION Spec
SYMMETRY Exchanged
INVARIANTS
  MemoryIsTrue
  AuditExplainsScore
  RepeatsNeedInterruptions
  MarkerMeansComplete
  BackupIsOneMoment
  JournalIsStable
  AdviceAgrees
  WithheldForBetter
  RepeatsExplained
  EveryoneGetsATurn
  SourcesReportTruly
  ToldOnceOrExplained
  VacanciesAreSound
  OpenWhenSeen
  HostsLeftAlone
  DeliveredIsHeard
  NothingCurrentGivenUp
  ReadingIsFair
  SelectionActs
  AvoidanceSticks
PROPERTIES
  FundsFabricateNothing
  WorseNeverPromoted
CHECK_DEADLOCK FALSE
