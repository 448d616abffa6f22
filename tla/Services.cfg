SPECIFICATION Spec
CONSTANTS
  Clips = {1, 2}
  Texts = {"doc", "memo"}
  Parts <- MCParts
  Limits = {0, 1}
  Jobs = 1
  MaxExports = 1
  MaxRestarts = 1
  MaxRefused = 1
  Models = {"kokoro", "chatterbox"}
  Startup = "kokoro"
  Supported = {"chatterbox"}
  FirstEngines <- MCFirstEngines
  Renderers = {"w1"}
  MaxEngines = 3
  MaxBlocks = 2
  MaxRequests = 3
  MaxSessions = 2
  MaxRoutes = 2
  MaxFailures = 2
  ClipUnits = 8
  BlockFrames = 2
  Rates = {1, 3}
  CueBlocks = 2
  Saved = {0, 3}
  Outputs = {"speaker", "headphones"}
  DeviceChangeConfirmations = 2
  MaxPlays = 2
  Confirmations = 2
  MaxRelaunches = 1
  Daemons = {"d1", "d2", "d3"}
  Home <- MCHome
  ClipHome = "h1"
  Chunks = 1
  MaxStarts = 4
  Agents = {"a1", "a2"}
  Listener = "ui"
  Engines = {"kokoro", "chatterbox"}
  Reference = "kokoro"
  Catalog <- MCCatalog
  Language <- MCLanguage
  Selections = {{"en"}, {"other"}, {"en", "ja"}}
  Defaults = {"cb"}
  Assignees = {"a1", "a2"}
  TargetWords = 3
  MaxWords = 4
  BoundaryWords = 2
  DocumentWords = 3
  ParagraphWords = 2
  Longest = 7
  LaunchAgentCount = 2
INVARIANTS OwedAudioIsThere ExportsKeepTheirFiles ModelsAreAlive AnswersMatch ServerIsReachable SegmentsSayTheText FilePlaysOn PreviousServiceIsBack
PROPERTIES PoolComesBack SessionsEnd InterruptsAreEdges ArmedHoldsEnd WaiterIsAnswered VoicesStayApart
CHECK_DEADLOCK FALSE
