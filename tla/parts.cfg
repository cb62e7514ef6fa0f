SPECIFICATION PartsSpec
CONSTANTS
  Parts = {"router", "stitcher", "repair", "server", "share", "accounts", "chat", "panel",
           "rooms", "console", "sound", "settings", "encoder",
           "media"}
  Users = {ana, bia, caio}
  RoomIds = {r1, r2}
  TypedNames = {}
  Untyped = Untyped
  Nobody = Nobody
  NoRoom = NoRoom
  Nowhere = Nowhere
  Absent = Absent
  MaxParticipantsPerRoom = 3
  Callers = {a, b, c}
  MaxTasks = 3
  MaxCallerStays = 2
  Floors = {r1}
  Senders = {a, b}
  SeqModulus = 16
  StampModulus = 64
  kMaxOrdinaryJump = 2
  kMaxOrdinaryRewind = 6
  kHandoverTicks = 2
  FrameTicks = 2
  Starts = {14}
  StampStarts = {2, 40}
  MaxSent = 4
  MaxInFlight = 2
  max_gap = 2
  max_requests = 2
  retry_after = 1
  give_up_after = 2
  Firsts = {14}
  MaxIndex = 5
  MaxSources = 2
  Connections = {a, b}
  MaxEvents = 3
  MaxCaptures = 3
  Drivers = {a, b}
  Block = 2
  High = 3
  TargetFrames = 2
  Prime = 3
  CaptureHigh = 3
  CaptureTarget = 2
  CapturePrime = 2
  Packets = {1}
  MaxLoopbacks = 2
  Accounts = {a, b}
  Terminals = {t}
  Passwords = {p}
  Flags = {"banned"}
  MaxDecisions = 3
  Talkers = {a, b}
  kDefaultLimit = 1
  MaxSaid = 1
  MaxMoves = 2
  Listed = {a, b, c}
  MaxChanges = 1
  MaxRequests = 1
  MaxAnswers = 1
  Creators = {Nobody}
  InitialStores <- NoRecords
  RequestedSizes = {2, 3}
  Refusing = {}
  Unacknowledging = {}
  Killable = FALSE
  DbadminActs = FALSE
  Documents = {a, b}
  Screens = {"users", "rooms", "sessions", "audit"}
  Filters = {{a}, {a, b}}
  MaxPresses = 1
  MaxAsked = 1
  Copies = {a, b}
  MachineFiles <- BesideIt
  OwnFiles <- ByHand
  Circumstances <- Otherwise
  Picked <- Devices
  Levels <- GateOff
  Ranges <- LowRange
  Qualities <- FullHd
  Addresses = {"wss://there"}
  MaxTurns = 3
  Machines <- AnyMachine
  Openings <- AnyOpening
  Rates = {1, 2}
  MaxFrames = 3
  MaxSessions = 1
  MaxLost = 1
  Depth = 2
  Voices = {v}
  MaxChosen = 2
  MaxBuilds = 2
INVARIANTS
  PartsTypeOK
  EveryoneIsHeard
  StreamIsWhole
  LocksAreLetGo
  RoomIsTold
  SoundIsTrue
  DecisionsStand
  OneConversation
  AskedIsRead
  ViewsAgree
  ForcedMuteHolds
  SettingsLast
  EncodesAsTold
  CallRunsAsChosen
PROPERTIES
  AsksOnlyForMissing
  NobodySqueezedIn
  ImplementsFloor
  SavesKeepItStarting
\* Everybody may stop, with what they had to do done.
CHECK_DEADLOCK FALSE
