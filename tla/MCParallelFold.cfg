SPECIFICATION Spec
CONSTANTS
    N = 4
    Work <- MCWork
    Helpers = {h1, h2}
    Caller = caller
INVARIANTS
    NoThreadOutlivesCall
PROPERTIES
    ImplementsMap
