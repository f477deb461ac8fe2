CONSTANTS
  Names <- MCNames
  Defaults <- MCDefaults
  Settings <- MCSettings
  LongNames <- MCLongNames
  Fitting <- MCFitting
  MaxCalls = 3
  MaxFailures = 1
SPECIFICATION Spec
INVARIANT TypeOK
PROPERTY RestartShowsSaved
PROPERTY CutCallIsSafe
