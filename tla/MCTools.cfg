SPECIFICATION Spec
CONSTANTS
  Parts = {"install", "wire", "update"}
  MaxRelease = 2
  ScriptShapes <- Shapes
  Nothing = Nothing
  Settings = {"theme", "keys"}
  Absent = Absent
  Torn = Torn
  MaxCore = 2
  MaxPre = 2
  MaxReleases = 3
  TextRank <- MCTextRank
  Flagged <- MCFlagged
  NoTag = NoTag
INVARIANTS TypeOK RecognizedFailureRestores SuccessIsACommand ReportIsTrue WiringKeepsSettings HighestCoreWins ExecutableSurvives
CHECK_DEADLOCK FALSE
