SPECIFICATION Spec
CONSTANTS
    n1 = n1
    n2 = n2
    Name = {n1}
    Sector = {0, 1, 2, 3, 4, 5, 6, 7}
    INODES = 5
    INODES_PER_SECTOR = 2
    SLOTS = 4
    MAX_DIR_ENTRIES = 8
    MaxFaults = 0
PROPERTY EntriesKept
