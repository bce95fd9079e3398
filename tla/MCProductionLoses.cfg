SPECIFICATION AnalysisSpec
CONSTANTS
    a = a
    b = b
    c = c
    d = d
    m = m
    n = n
    k = k
    w1 = w1
    w2 = w2
    NoFile = NoFile
    NoModule = NoModule
    Files <- MCFiles
    Modules <- MCModules
    Projects <- AllProjects
    Names <- MCNames
    Workers <- MCWorkers
    Codes <- MCCodes
    CodesOf <- MCCodesOf
INVARIANTS
    ProductionReportsNoLess
