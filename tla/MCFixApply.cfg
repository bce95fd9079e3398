SPECIFICATION Spec
CONSTANTS
  Projects <- MCProjects
  Specs = {"any", "pinned", "unread"}
  NewName = "n"
INVARIANTS
  ExactlyTheNamedEntriesGo
  AdditionsLand
  UsedKeepTheirInstall
  SuccessMeansEdited
  BystandersSurvive
  PreviewKeptUnlessPinned
  NothingDeclaredTwice
  RecordedRunIsClean
  SilencedLeftAlone
PROPERTIES
  Settles
