CONSTANTS
    MaxToken = 3
    Size = 3
SPECIFICATION FairSpec
INVARIANTS CheckConsistency NoOverwrite
PROPERTIES FailsOnlyWhenFull CallsReturn
