\* One component moves in each behaviour; the bounds are the components' own.
SPECIFICATION ServerSpec
CONSTANTS
  Clients = {"c1", "c2"}  Requests = {"r1", "r2"}  MaxLinkFaults = 1
  NoRequest = NoRequest  NoAnswer = NoAnswer
  MaxHealthFaults = 3
  MaxSessionFaults = 4
  MaxSources = 3  MaxMediaFaults = 2  MaxOps = 5
  Hub = "hub"  Remotes = {"remote"}  Writers = {"w", "x"}  MaxWrites = 2  MaxBusFaults = 1
  MaxCommands = 2  MaxMatterFaults = 1
  Watchdog = 3  Debounce = 1  MaxReadings = 4  MaxOverrides = 2  MaxActionFailures = 1
  Locks = {"front", "back"}  Confirm = 2  MaxTurns = 4  MaxRestarts = 1  MaxDbFaults = 1
  Params = {1, 2, 3}  Values = {0, 1}  MaxEdits = 4
  MaxSlots = 3  Types = {"x", "y", "z"}
  DayHours = 3  Week = 3  NoSun = NoSun  DaySets = {{}, {0}, {1, 2}}
  SunHour <- Sunlight  Offsets <- Hours  Schedules <- TwoEntries
  MaxFrames = 3  MaxWaits = 2
  Strips = {1, 3}  SingleZone = {2}  MaxZones = 2  MaxPipeline = 1  MaxRewirings = 1
  Introspectors = {"p"}
  SequenceModulus = 8  MaxUdpFrames = 10  MaxUdpRestarts = 1
  Macs = {m1, m2}  Components = {"uplight"}  Labels = {"a", "b", "c"}  Handlers = {"h1", "h2"}
  NoLabel = NoLabel  NoOwner = NoOwner  MaxRegistryEdits = 4
  Ips = {"i", "j"}  Names = {"g", "h"}  Users = {"u", "v"}
  MaxProbes = 2  MaxControllers = 2  MaxUses = 2
  Addresses = {1, 2}  Bulbs = {"a", "b"}  NoBulb = "none"
  ExpiryMisses = 2  PowerQueryEvery = 2  MaxMoves = 3  MaxTimers = 3  MaxMapMail = 1
  Lamps = {"a", "b"}  Members = {"a"}  MaxPresence = 2  MaxRediscovers = 1
CHECK_DEADLOCK FALSE
INVARIANTS
  ServerTypeOK NoPendingLeak OneNetworkThread DependenciesFirst SilentAfterStop
  RegistryConsistent DevicesConsistent FindsWhatRuns NoOrphanFfmpeg InCallOrder
  NoBindingCycle
PROPERTIES
  CommandsKeepPromise DeafnessHealed UserKeepsGroup AwayIsConfirmed NewestWins
  MediaSettles AdaptersSettle OperatorsSettle LastColoursShown BulbsFound
