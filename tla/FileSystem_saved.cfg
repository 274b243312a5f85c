SPECIFICATION MarkedSpec
CONSTANTS
    n1 = n1
    n2 = n2
    Name = {n1, n2}
    Sector = {0, 1, 2, 3, 4, 5, 6, 7}
    INODES = 4
    INODES_PER_SECTOR = 2
    SLOTS = 4
    MAX_DIR_ENTRIES = 8
    MaxFaults = 1
SYMMETRY NameSymmetry
INVARIANTS TypeOK ParentLinked SectorsSafe DiskCurrent FileSystemInvariant
PROPERTY TreeSpec
