SPECIFICATION Spec
CONSTANTS
  Files = {"f", "g"}
  Runs = {r, s}
  Contexts = {c,d}
  MaxClock = 2
  MaxVersion = 3
  Granularity = 2
  Window = 2
SYMMETRY Symmetry
ACTION_CONSTRAINT Narrow
CHECK_DEADLOCK FALSE
INVARIANTS
  NoStaleModule
  OneModulePerSource
  WarmRunParsesNothing
