SPECIFICATION Spec
CONSTANTS
  Candidates = {"pyproject.toml"}
  Included = {"constraints.txt"}
  Scanned = {"tox.ini"}
  Runs = {"r"}
  MaxClock = 0
  MaxChanges = 1
  Granularity = 2
  Window = 2
CHECK_DEADLOCK FALSE
INVARIANT CalmRunSucceeds
