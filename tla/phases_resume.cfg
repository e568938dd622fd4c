SPECIFICATION FairSpec
CONSTANTS
  NoLine = NoLine
  NoSymbol = NoSymbol
  NoTool = NoTool
  NoFile = NoFile
  NoCount = NoCount
  Lines <- Files
  Known <- Symbols
  Similar <- Same
  MaxIterations = 2
  Validate = TRUE
  Strict = TRUE
  Milestones = 2
  MaxRetries = 1
  MaxCalls = 2
  CuratorMin = 2
  MaxCoverage = 2
  MaxStrict = 1
  MaxFixes = 2
  MaxCrashes = 1
  Reports <- ReportsOfInterest
INVARIANTS TypeOK GapReportIsOwn VerifiesOwnReport HandedOver NoCriticalLeft GreenCoversEverything
PROPERTY PipelineEnds
