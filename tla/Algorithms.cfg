SPECIFICATION Spec
CONSTANTS
  Markers = {"m1", "m2"}
  Tracers = {"t1", "t2"}
  Names = {"a", "b"}
  Spans <- mSpans
  BufferRecords = 2
  MaxClock = 1
  MaxMarks = 2
  Free = "free"
  Datasets = {"d"}
  Polls = {"p1", "p2", "p3"}
  NoPoll = "none"
  Request = {"r1", "r2", "r3"}
  Stopper = "stop"
  NoStream = "none"
  Call = {c1, c2, c3}
  Key = {k1, k2}
  StepLens = {1, 2, 3}
  HeaderLen = 1
  MaxStepLine = 2
  MaxHistoryBytes = 6
  MaxRuns = 2
  MaxFaults = 2
SYMMETRY Symmetry
INVARIANTS
  TracesAreTrue
  ShellKeepsItsBooks
  RecoveredIsRecorded
PROPERTIES
  RequestsAreServedAsDescribed
  AnswersAreWhole
  SourcesAreWhatTheySay
  DerivedFilesAreTheirSources
  PublishedMeansItsSource
  RecordsAccountForThemselves
  FinishedTracesAreFinal
  HistoriesOnlyGrow
CHECK_DEADLOCK FALSE
