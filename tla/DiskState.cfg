SPECIFICATION DiskSpec
CONSTANTS
  Files = {f1}
  Branches = {"main", "dev"}
  Main = "main"
  Trees <- MCTrees
  Runs = {r1, r2}
  MaxVersion = 3
  MaxMoves = 4
  NoFile = NoFile
  Mangled = Mangled
  Torn = Torn
  Disks <- MCDisks
  Edits <- MCEdits
  Answers <- MCAnswers
  Words <- MCWords
  Values <- MCValues
  MaxRuns = 2
  MaxEdits = 1
  Owners = {u1, u2}
  Calls = {k1, k2}
  Names = {b1, b2}
  None = None
  MaxTools = 4
  MaxChanges = 2
  Keys = {k}
  MaxMutations = 3
  Agents = {"build", "reviewer"}
  Editors = {"build"}
  Own = "build"
  MaxContinuations = 2
  MaxEvents = 1
INVARIANTS TypesOK SkippedIsIndexed RefreshCatchesUp RebuildHeals UserFilesKept FinishedIsWhole UnforcedKeepsWork RowsMatchTrees ModesKept MergedIsReviewed
SYMMETRY Symmetry
CHECK_DEADLOCK FALSE
