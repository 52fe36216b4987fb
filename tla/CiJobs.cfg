SPECIFICATION FairSpec
CONSTANTS
  Unreadable = Unreadable
  None = None
  DockerSocket = "docker.sock"
  Base = "base"
  E2E = "e2e"
  Stage = "stage"
  Stage1 = "stage1"
  Groups <- MCGroups
  Placeholders <- MCPlaceholders
  Baseline <- MCBaseline
  Values <- MCValues
  MaxEdits <- MCMaxEdits
  CoreContent <- MCCoreContent
  Refs <- MCRefs
  Main <- MCMain
  Asked <- MCAsked
  Branch <- MCBranch
  MaxMoves = 2
INVARIANTS
  TypeOK
  NamesAgree
  StacksContained
  DocsLead
  TreeClean
  SaysSomething
  NoFalseAlarm
  PairRecorded
  RequestHonoured
PROPERTIES
  JobEnds
CHECK_DEADLOCK FALSE
