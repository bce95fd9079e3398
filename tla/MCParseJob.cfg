SPECIFICATION Spec
CONSTANTS
  N = 3
  Workers = {v, w}
PROPERTIES
  ImplementsSequential
