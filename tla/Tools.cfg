SPECIFICATION ToolsSpec
CONSTANTS
  Letters = {"a"}
  Digits = {"1"}
  Blanks = {" ", "n"}
  NewLine = "n"
  Signs = {"="}
  Literals <- MCLiterals
  LexTexts <- MCLexTexts
  MaxTokens = 2
  Facts = {"f", "g"}
  RuleActions <- MCRuleActions
  MaxRules = 2
  MaxStatements = 1
  MaxRuleLines = 7
  MaxFeatures = 2
  MaxScenarios = 2
  MaxSteps = 3
  MaxBddLines = 6
  ErrorNames <- MCErrorNames
  EnumOf <- MCEnumOf
  ErrorLists <- MCErrorLists
  Methods = {"GET", "POST"}
  Paths = {"/users", "/users/{id}"}
  MaxEndpoints = 2
  MaxErrors = 3
  MaxTypes = 1
  MaxFields = 1
  MaxApiLines = 6
  MaxWindows = 2
  MaxPanels = 2
  MaxWidgets = 3
  MaxUiLines = 7
  FieldNames <- MCFieldNames
  Id = "id"
  FieldType <- MCFieldType
  Versions = {1, 2, 3}
  Schema <- MCSchema
  Signed = {2, 5}
  Texts = {"a"}
  IntValues = 4
  MaxOps = 4
  StateNames = {"Red", "Green"}
  EventNames = {"go", "stop", "tick"}
  MaxSmStates = 2
  MaxSmEvents = 2
  MaxSmTransitions = 2
  MaxSmLines = 6
  ModeNames = {"Normal", "Insert"}
  ModeEvents = {"ESC", "ENTER", "CENTER"}
  EventCode <- MCEventCode
  ModeRests <- MCModeRests
  MaxModes = 2
  MaxModeTrans = 1
  MaxModeLines = 7
  MaxTrail = 4
  MaxTables = 2
  MaxColumns = 2
  MaxIndexes = 1
  MaxQueries = 2
  MaxSql = 7
  LineLengths = {1, 3}
  MaxSqlLines = 9
  Platforms = {"linux", "windows", "macos", "cosmo"}
  Hosts = {"linux", "windows", "macos"}
  SimdLists <- MCSimdLists
  MaxDispatches = 2
  MaxPlatforms = 3
  MaxSimdTargets = 3
  MaxImplLines = 6
  Calls = {"c1", "c2"}
  Releases = {"r1", "r2"}
  None = "none"
  Dirs = {"a", "b"}
  MaxVersion = 1
  MaxEdits = 1
  MaxGenCalls = 3
  FieldLines <- MCFieldLines
  MaxSchemaTypes = 2
  MaxSchemaFields = 2
  MaxSchemaLines = 6
  Scripts = {"watcher", "developer"}
  OutputList <- MCOutputList
  Buffers <- MCBuffers
  MaxStarts = 3
  MaxStates = 3
  MaxTransitions = 2
  MaxEvents = 2
  MaxDepth = 2
  HistoryNames = {"history", "historyX"}
  Names = {"A", "B"}
  Events = {"e"}
  Targets <- MCTargets
  Attributes = {"initial", "entry", "history"}
  MaxLines = 6
  OnLine <- MCOnLine
  MaxOneLine = 1
  N <- DoorN
  FsmEvents <- DoorEvents
  Cases <- DoorCases
  InitialState = 1
  HasEntry = {2, 3, 4}
  HasExit = {1, 2, 3}
  Reentrant = {"entry"}
  MaxFrames = 3
INVARIANTS
  ToolsTypeOK
  TextIsReadAsTokens
  StepsAreAsWritten
  RunnerFollowsTheRanges
  ApiIsAsWritten
  WindowsAreDrawnAsWritten
  VersionsReadEachOther
  SmTablesAreTheFile
  SqlLinesStayInTheirBlock
  BuildsAreAsListed
  ReadyToolchainsAreWhole
  WreckageIsExplained
  ObjectsComeBack
  FieldsAreAsWritten
  HsmTypeOK
  ParentsClimb
  ParentIsEnclosingBlock
  AttributesStayWithTheirState
  PathsFollowParents
  TransitionsKeepTheirSource
  TargetsResolve
  FsmTypeOK
  InsideCurrentState
  CaseIsCurrent
PROPERTIES
  DispatchIsOneStep
  RulesDoWhatTheySay
  ModesGoAsWritten
  GateTellsTheTruth
  OverlapsAreHarmless
CHECK_DEADLOCK FALSE
