SPECIFICATION Spec
CONSTANTS
    n1 = n1
    n2 = n2
    c1 = c1
    c2 = c2
    Names <- MCNames
    Contents <- MCContents
    Partial = Partial
    NoFile = NoFile
    Garbage = Garbage
    MaxGen = 7
    MaxCrashes = 3
    MaxFaults = 1
SYMMETRY Symmetry
CHECK_DEADLOCK FALSE
INVARIANTS
    NoForeignCopy
