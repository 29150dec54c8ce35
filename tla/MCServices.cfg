CONSTANTS
  \* Scheduler
  Horizon = 6
  MinBlock = 2
  MaxIterations = 2
  TaskTables <- SmallTables
  EventPool <- SmallEvents
  WorkWindows <- SmallWindows
  Replies <- SmallReplies
  Overrides <- SmallOverrides
  LogPool <- SmallLogs
  Runs = {1}
  Accepts = {1, 2}
  Detects = {1}
  MaxSchedSteps = 3
  \* DependencyGraph
  Nodes = {1, 2, 3}
  Graphs <- SmallGraphs
  \* Genetic
  GeneTasks = {"a", "b", "c"}
  TaskOf <- SmallTasks
  FreeSlots <- SmallSlots
  TopoOrder <- SmallOrder
  PopulationSize = 2
  EliteCount = 1
  MaxGenerations = 3
  Shifts <- SmallShifts
  Scores = {7}
  MaxFeedbacks = 1
  \* Models
  Learned = {v1, v2}
  Editors = {e1, e2}
  ModelRuns = {m1}
  MaxFeedback = 2
  MaxModelSteps = 4
  PenaltyCap = 2
  BonusCap = 1
  ThresholdLow = 0
  ThresholdHigh = 2
  \* Tracking
  Trackers = {d1, d2}
  RowIds = {1, 2, 3}
  RecordRows = {1}
  Refused = {2}
  Batches = {1, 2}
  ExportLimit = 2
  ChunkSize = 1
  SampleLimit = 1
  \* Activity
  RawPool <- SmallPool
  Interruptible = {"mail"}
  MergeGap = 2
  FileGap = 1
  ShortGap = 1
  MinDuration = 1
  RangeStart = 0
  RangeEnd = 12
  WorkedTasks = {"t"}
  Builds = {1, 2}
  Reviews = {1}
  MaxActivitySteps = 5
  \* Reports
  Activities = {"a"}
  Generations = {"g1", "g2"}
  Polishings = {"p"}
  Sends = {"s1"}
  Channels = {"c1", "c2"}
  Deliveries = {1, 2}
  MaxReportSteps = 4
  \* ClientImport
  Imports = {1, 2}
  Confirms = {i1, i2}
  Imported = {o1, o2}
  SettingKeys = {k1, k2}
  DeviceKeys = {k2}
  MaxImportSteps = 4
  \* Devices
  Clients = {c1}
  DrawnIds = {n1, n2}
  DeviceRequests = {q1, q2}
  MaxDeviceSteps = 5
  \* Connection
  Runners = {r1, r2}
  Beats = {h1, h2}
  MaxRequests = 3
  \* FileVersions
  VersionedFiles = {f1, f2}
  SnapshotIds = {s1}
  CopyTargets = {t1}
  Copies = {p1, p2}
  Listings = {l1}
  FileConflicts = {x1}
  MaxUserFiles = 1
  \* Console
  ListedIds = {1, 2, 3}
  Times = {1, 2}
  PageLimit = 1
  MaxConsoleSteps = 4
  \* Analytics
  RecordPool <- SmallRecords
  InputPool <- SmallInput
  DayRange <- SmallDay
  HourLength = 5
  DayLength = 10
  SessionGap = 3
  FocusCategories = {"work"}
  SliceLimit = 3
  SessionLimit = 3
  PreviewLimit = 2
  KeyLimit = 2
  ProcessLimit = 3
  ExportRowLimit = 2
  PartsFollowed = 2
  MaxAnalyticsSteps = 4
INIT ServicesInit
NEXT ServicesNext
INVARIANTS
  DraftsFit
  SegmentTellsItem
  PrerequisitesFirst
  HistoryRises
  OneActive
  LogsArrive
  FactsAreConfirmed
  ImportedOnce
  
  NoRequestForgotten
  CopiesKeepFiles
  PagesMissNothing
  
PROPERTIES
  DecisionsSurvive
CHECK_DEADLOCK FALSE
