SPECIFICATION FairSpec
CONSTANTS
    r1 = r1
    r2 = r2
    MAX_KEYS = 3
    Readers = {r1, r2}
    Keys = {"LETTER", "LEFT_CTRL", "SHIFT"}
    MaxOffered = 3
CONSTRAINT Ordered
INVARIANTS TypeOK InOrder
PROPERTIES QueueSpec KeyDelivered
