SPECIFICATION Spec
CONSTANTS
    t1 = t1
    t2 = t2
    Task = {t1, t2}
    Frames = 13
    NO_OF_ENTRIES = 3
    Garbage = 1
    MaxPages = 11
CONSTRAINT Followed
SYMMETRY TaskSymmetry
INVARIANTS TypeOK FramesKept NoStrayPage
CHECK_DEADLOCK FALSE
