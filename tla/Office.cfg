SPECIFICATION OfficeSpec
CONSTANTS
  LogIds = {1}
  EnvDays <- MCEnvDays
  FormEdits <- MCFormEdits
  Leaps = {15, 76}
  MaxAge = 91
  MaxCalls = 2
  MaxEdits = 1
  NaN = NaN
  Change = 25
  Horizon = 75
  Boards = {"requests", "fonio", "logs", "reservations"}
  RowKinds <- MCRowKinds
  TabsOf <- MCTabs
  SubsOf <- MCSubs
  Flags <- MCFlags
  ServerTake = 2
  PageSize = 1
  MaxRows = 3
  TurnsOf <- MCTurns
  MaxListFaults = 1
  ListCalls = 2
  Users = {"a", "b", "c"}
  Boss = "a"
  StartUsers <- MCStart
  NavOf <- MCNav
  Limit = 2
  MaxRequests = 2
  MaxLogins = 2
  MaxFetches = 2
  Budgets <- MCBudgets
  Perms = {"DASHBOARD_VIEW", "SYNC_RUN", "USERS_MANAGE"}
  SuperPerms = {"USERS_MANAGE"}
  OfficePerms = {"DASHBOARD_VIEW"}
  MatrixCalls = 2
  MaxMoves = 4
  Flats = {1, 2}
  FlatKinds <- MCFlat
  StartPortals <- MCPortals
  MaxPolls = 2
  DeskCalls = 2
  MaxSteps = 3
  MaxErrors = 1
  h1 = h1
  Stays <- MCStays
  Evidence <- MCEvidence
  Upserts <- MCUpserts
  Handlers = {h1}
  Planned = {1}
  Earlier <- MCEarlier
  Choices <- MCChoices
  MaxPayments = 1
  MaxQueue = 1
  MaxBookings = 2
  Today <- MCToday
  NoDate = NoDate
  NoPlan = NoPlan
  r1 = r1
  Reservations = {r1}
  Channels = {"hometogo", "interhome", "travanto", "phone"}
  Arrival <- MCArrival
  Nights = 2
  Total = 10000
  Receipts = {7000}
  Installed <- MCInstalled
  Paying = {r1}
  Edited = {9}
  Edits <- MCEdits
  Take = 1
  JobDays = {1, 2, 8, 9, 15, 16, 26, 27, 28, 29, 30, 31, 46, 47, 48, 49}
  MaxFaults = 1
  None = None
CHECK_DEADLOCK FALSE
INVARIANTS MatchingInv ReminderInv RetentionInv PromiseKept  AccessInv EditorInv DeskInv
PROPERTIES PlanFollows 
