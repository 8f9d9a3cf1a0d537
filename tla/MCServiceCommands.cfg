CONSTANTS
  Commands = {c1, c2}
  Profiles = {idle, scan}
  Actions = {"install", "status", "uninstall", "request", "observe", "enable", "disable"}
  Starts = {"nothing", "installed", "linked"}
  MaxRuns = 2
  MaxEdits = 1
  MaxDirs = 2
  TempLimit = 1
SYMMETRY MCSymmetry
SPECIFICATION Spec
INVARIANTS FailuresHonest
PROPERTIES EffectsAsChecked ReportsTrue
CHECK_DEADLOCK FALSE
