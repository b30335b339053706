SPECIFICATION FairSpec
CONSTANTS
    MaxTags = 5
    MaxOutages = 4
    MaxLosses = 2
INVARIANTS AvailableConsumes ConnectIsNeverLate
PROPERTY ConsumesAgain
CHECK_DEADLOCK FALSE
