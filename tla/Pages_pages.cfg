\* A page comes to rest where its bounds (rounds, requests, edits) do.
CHECK_DEADLOCK FALSE
SPECIFICATION PagesSpec
CONSTANTS
  Away = Away
  SnakeGrid = 3
  SnakeStart <- Snake3
  MaxScore = 1
  Buffers <- Texts2
  WordChars = {"a", "b"}
  MaxRounds = 3
  Countries <- Countries4
  Facts <- Facts4
  Ticked <- Ticked2
  ChoiceCounts = {2, 3}
  MaxAsked = 3
  NoFact = "-"
  NoQuestion = NoQuestion
  Codes <- Codes2
  MaxSymbols = 2
  MaxHits = 2
  MaxWrong = 2
  Seconds = 2
  Texts = {"a", "b"}
  NoText = ""
  Refused = {"b"}
  Looks = {"dark"}
  NoCode = NoCode
  MaxRuns = 2
  Routes = {"a"}
  VisitKinds = {"js"}
  AnyRoute = "any"
  Visits <- VisitsFound
  PageSize = 2
  MaxLoads = 4
  Nothing = Nothing
  CronMonths <- MonthLengths
  CronWeek = 3
  CronHours = 2
  CronMinutes = 3
  CronSeconds = 2
  CronYears = 2
  CronCount = 3
  CronTyped <- Typed
  BoxTyped <- Boxed
  Presets <- Preset1
  Nows = {17}
  MaxCopies = 2
  TsTyped <- Stamps
  MilliDigits = 3
  MilliPer = 10
  LastDate = 900
  Zones = {"utc", "london", "paris"}
  ZoneOffset <- Offsets
  LocalZone = "london"
  FirstZones <- ZonesFirst
  WallTimes = {2, 7}
  NoDate = 99
  Units <- RelativeUnits
  TabTyped <- TabExprs
  TabBoxTyped <- Boxed
  MaxClock = 3
  MaxEdits = 3
  Sides <- SmallSides
  Biases <- SomeBiases
  Depths <- TwoDepths
  Pixels <- SomePixels
  Steps <- SomeSteps
  Pointers = {p1, p2}
  NoPointer = NoPointer
  Slots = 2
  Clicks = 2
  Warned = 2
  Entry <- Doors
  MaxHistory = 3
  MaxCalls = 2
SYMMETRY PointersAlike
INVARIANTS GamesAreFair LatestIsShown TimesAreTold PixelsRight BoardGoesOn KeysAreGivenBack
