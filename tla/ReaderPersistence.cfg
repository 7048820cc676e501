SPECIFICATION FairSpec
CONSTANTS
    Modulus = 4
    MaxChanges = 3
    MaxFaults = 2
    FaultyKinds = {"begin", "write", "commit", "verify", "abort"}
INVARIANTS
    SavedSurvives
    NothingForgotten
    AckPairs
    SleepAuthorised
PROPERTIES
    Attended
