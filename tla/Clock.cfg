SPECIFICATION FairSpec
CONSTANTS
    Starts <- CloseToTheEnd
    FREQUENCY = 3
    MaxSeconds = 3
    MaxTicks = 12
INVARIANTS ReadRight TimeKept FaceRight StampNotBehind
PROPERTY ClockRead
CHECK_DEADLOCK FALSE
