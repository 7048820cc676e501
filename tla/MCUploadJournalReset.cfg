SPECIFICATION Spec
CONSTANTS
    n1 = n1
    n2 = n2
    c1 = c1
    c2 = c2
    Names <- MCOneName
    Contents <- MCContents
    Partial = Partial
    NoFile = NoFile
    Garbage = Garbage
    MaxGen = 5
    MaxCrashes = 1
    MaxFaults = 0
CHECK_DEADLOCK FALSE
INVARIANTS
    TargetPreserved
