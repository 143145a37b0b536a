SPECIFICATION LiveSpec
CONSTANTS
  Boards = {"fonio"}
  RowKinds <- MCRowKinds
  TabsOf <- MCTabs
  SubsOf <- MCSubs
  Flags <- MCFlags
  ServerTake = 2
  PageSize = 1
  MaxRows = 3
  TurnsOf <- FewTurns
  MaxListFaults = 1
  ListCalls = 2
  Users = {"a", "b", "c"}
  Boss = "a"
  StartUsers <- MCStart
  NavOf <- MCNav
  Limit = 2
  MaxRequests = 2
  MaxLogins = 2
  MaxFetches = 2
  Budgets <- OneClick
  Flats = {1, 2}
  FlatKinds <- MCFlat
  StartPortals <- MCPortals
  MaxPolls = 2
  DeskCalls = 2
  MaxSteps = 2
  MaxErrors = 1
  r1 = r1
  Reservations = {r1}
  Channels = {"hometogo", "travanto"}
  Arrival <- MCArrival
  Nights = 2
  Total = 10000
  Receipts = {7000}
  Installed <- MCInstalled
  Paying = {r1}
  Edited = {9}
  Edits <- MCEdits
  Take = 1
  JobDays = {1, 9, 16, 17, 30, 47, 48}
  MaxFaults = 1
  None = None
CHECK_DEADLOCK FALSE
PROPERTIES OverdueIsReminded ActivityHeals SpinnerEnds
