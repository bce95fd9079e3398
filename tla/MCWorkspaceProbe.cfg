SPECIFICATION Spec
CONSTANTS
  T = T
  R = R
  M = M
  S = S
  a = a
  b = b
  c = c
  l = l
  x = x
  Top = T
  Entries <- MCEntries
  Parent <- MCParent
  Kind <- MCKind
  Verdict <- MCVerdict
  Walks = {R, M, S}
  Excluded = {x}
  Unread = Unread
  Readings <- MCReadings
  MaxEdits = 1
  Root = R
  Parallelism = 2
  Projects <- MCProjects
  Manifests <- MCManifests
INVARIANTS
  OneReading
  WalkFollowsGit
  WalksAgree
  ReportIsSequential
  ProductionKeepsShipped
