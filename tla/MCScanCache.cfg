SPECIFICATION Spec
CONSTANTS
  Candidates = {"pyproject.toml"}
  Included = {"constraints.txt"}
  Scanned = {"tox.ini"}
  Runs = {"r"}
  MaxClock = 2
  MaxChanges = 2
  Granularity = 2
  Window = 2
CHECK_DEADLOCK FALSE
INVARIANTS
  ManifestIsCurrent
  ScanIsCurrent
