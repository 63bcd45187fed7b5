SPECIFICATION Spec
CONSTANTS
    None = None
    BatchSize = 2
    HighWater = 2
    MaxVersion = 2
    MaxLog = 3
    MaxFaults = 1
    PageSize = 1
    MaxInitial = 1
    MaxLines = 2
    MaxFailed = 1
    MaxClicks = 1
CHECK_DEADLOCK FALSE
PROPERTIES
    RetriedIsFollowed
