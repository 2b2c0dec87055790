SPECIFICATION Spec
CONSTANTS
  db = db
  fs = fs
  f = f
  s = s
  Gated = {db, fs}
  Database = db
  FileSystem = fs
  OpenFile = {}
  HostFunc = {f}
  Script = {s}
  Uses <- OneSource
  Asked <- AllButFiles
  MaxSteps = 3
  Cadence = 2
  MaxRuns = 2
INVARIANTS TypeOK TableCurrent UnknownIsForbidden AnalyzeSuffices CompletedRanToEnd CancelIsPrompt HostErrorOfThisRun
PROPERTIES BindingsKept
