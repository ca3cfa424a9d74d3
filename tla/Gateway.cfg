SPECIFICATION Spec
CONSTANTS
  x = x
  y = y
  Tiers <- MCTiers
  Limit <- MCLimit
  Window = 2
  IdleLimit = 2
  Callers <- Two
  MaxTime = 7
  Servers <- MCServers
  Ahead <- MCAhead
  Width = 3
  Quota = 2
  LastTick = 8
  Addresses <- MCAddresses
  UserNames <- MCUserNames
  Profiles <- MCProfiles
  Updates <- MCUpdates
  Sessions <- Two
  Existing <- MCExisting
  MaxCalls = 3
  MaxUsers = 3
  MaxKeys = 2
  Lives <- MCLives
  Paths <- MCPaths
  SkipRoutes <- MCSkipRoutes
  RouteTTLs <- MCRouteTTLs
  DefaultTTL = 2
  WriteLimit = 1
  HandlerLimit = 1
  Requests <- Two
  LastMoment = 4
  Models <- MCModels
  ErrorTypes = {"timeout"}
  MaxDataPoints = 2
  MaxLog = 2
  Prompts = {"p"}
  Price <- MCPrice
  ProviderOf <- MCProviderOf
  Handlers = {"handler"}
  Workers = {"worker"}
  MaxRequests = 3
  Senders <- Two
  ChatModels <- MCModels
  Tokens = 1
  Buffer = 1
  MaxSends = 3
  Visitors <- Two
  Passwords = {"old", "new"}
  TokenLife = 1
  RefreshLife = 2
  LastHour = 2
SYMMETRY Interchangeable
CONSTRAINT FollowedChat
INVARIANTS
  BurstBounded
  WindowHolds
  OneAccountEach
  FreshEnough
  AnswersFit
  BooksAgree
  AskedOnce
PROPERTIES
  RevokedStays
  ClosedForGood
CHECK_DEADLOCK FALSE
