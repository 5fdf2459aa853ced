CONSTANTS
    MaxToken = 2
    Size = 5
SPECIFICATION FairSpec
INVARIANTS BlocksInOrder NoOverwrite OldestIsFreed
PROPERTY CallsReturn
