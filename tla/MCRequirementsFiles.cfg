SPECIFICATION ExtractSpec
CONSTANTS
  Fixed <- MCFixed
  Extra <- MCExtra
  Others <- MCOthers
  Usual <- MCUsual
  NamedContext <- MCNamed
  NoContext = "none"
  Source <- MCSource
  States <- MCStates
  Disks <- MCDisks
CHECK_DEADLOCK FALSE
INVARIANTS
  OutcomeFollowsIncludes
  LastIncludeDecides
  ReadFilesDeclareOnce
  WarmRunNoticesMostEdits
