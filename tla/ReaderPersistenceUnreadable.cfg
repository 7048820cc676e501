SPECIFICATION Spec
CONSTANTS
    Modulus = 4
    MaxChanges = 4
    MaxFaults = 1
    FaultyKinds = {"load"}
INVARIANTS
    SavedSurvives
