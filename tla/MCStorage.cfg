SPECIFICATION Spec
CONSTANTS
  Player = {p, q}
  HeadCells = 2
  RecordCells = 3
  MaxFriends = 1
  Nobody = Nobody
  Nothing = Nothing
  NoFile = NoFile
  Short = Short
  MaxMoves = 1
  MaxGames = 3
  MaxCrashes = 1
  MaxFailures = 1
  MaxCuts = 1
  MaxEdits = 1
INVARIANTS
  TypeOK
  SavedGamesAreKept
  ShortFilesAreCounted
SYMMETRY Players
CONSTRAINT TwoEvents
PROPERTIES
  ResultsSurvive
CHECK_DEADLOCK FALSE
