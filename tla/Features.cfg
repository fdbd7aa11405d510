SPECIFICATION FeaturesSpec
CONSTANTS
  Users = {x1, x2}
  Requests = {y1, y2}
  MaxAsks = 6
  None = None
  NoJob = None
  People = {x1, x2}
  Convs = {y1, y2}
  MaxMessages = 2
  PageSize = 1
  TalkActs = 4
  Budget = 3
  MaxEdits = 2
  RoomActs = 6
  Mutations = {x1, x2}
  Timers = {y1, y2}
  CardActs = 5
  Reporters = {x1, x2}
  Admins = {y1, y2}
  MaxDecisions = 2
  MaxCuts = 1
  Tasks = {1, 2, 3}
  Rounds = 3
  MaxChain = 4
  DaysOfWeek = 3
  MonthsOfYear = 3
  SlotsOfDay = 4
  MaxRules = 2
  MaxDuration = 2
  Fills = {x1, x2}
  Terms = {"town", "museum", "market", "square"}
  Town = "town"
  Day <- Museums
  Worlds <- Towns
  MaxFailures = 2
  Items = {1, 2, 3, 4}
  Toggles = {x1, x2}
  PackActs = 3
  Comments = {1, 2, 3}
  Likes = {x1, x2}
  ThreadActs = 4
  TripActs = 3
  Slots = 5
  From = 1
  To = 4
  Longest = 2
  MaxActivities = 2
  Jobs = {x1, x2}
  NumDays = 2
  WizardActs = 4
  Photos = {x1, x2}
  Posts = {1, 2}
  WindowActs = 5
  ManualIds = {x1, x2}
  MaxDays = 3
  ManualActs = 5
  ExpenseIds = {1, 2, 3}
  Values = {1, 2}
  SpentActs = 3
  Short = {"p"}
  Long = {"par", "lis"}
  Suggestions <- MCSuggestions
  Lookups = {x1, x2}
  WhereActs = 5
  Trips = {1, 2}
  Over = {1}
  LooksActs = 4
SYMMETRY Symmetry
INVARIANTS
  TypesOK
  InvitationsHold
  OwnerIsMember
  ThreadsMeet
  PageTellsMessages
  RoomFollows
  CardTellsTruth
  RemovedMeansTaken
  LeavesNothingBehind
  VerdictIsTrue
  PinsFit
  PanelShowsList
  ScreenShowsThread
  PageShowsTrip
  PlanIsTrue
  GenerationEnds
  AuthorsPlaceStays
  DaysGoOn
PROPERTIES
  PrivateDoorHolds
CHECK_DEADLOCK FALSE
