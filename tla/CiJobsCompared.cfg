SPECIFICATION Spec
CONSTANTS
  Unreadable = Unreadable
  None = None
  DockerSocket = "docker.sock"
  Base = "base"
  E2E = "e2e"
  Stage = "stage"
  Stage1 = "stage1"
  Groups <- MCGroups
  Placeholders <- MCPlaceholders
  Baseline <- MCBaseline
  Values <- MCValues
  MaxEdits <- MCMaxEdits
  CoreContent <- MCCoreContent
  Refs <- MCRefs
  Main <- MCMain
  Asked <- MCAsked
  Branch <- MCBranch
  MaxMoves = 2
INVARIANT
  CoreCompared
CHECK_DEADLOCK FALSE
