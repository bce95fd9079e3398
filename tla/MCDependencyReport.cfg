SPECIFICATION Spec
CONSTANTS
    p = p
    q = q
    r = r
    s = s
    root = root
    m = m
    n = n
    g = g
    none = none
    Dists <- MCDists
    Members <- MCMembers
    Root = root
    Packages = {g}
    NoPackage = none
    Projects <- MCProjects
INVARIANTS
    UsedIsLeast
    OneVerdict
    WeighedAsASet
    StrictKeepsMost
    FixesAddLittle
