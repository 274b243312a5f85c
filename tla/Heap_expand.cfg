SPECIFICATION Spec
CONSTANTS
    s1 = s1
    s2 = s2
    s3 = s3
    Boot = 4
    Slot = {s1, s2, s3}
    Vault <- Vaults
    Area <- Areas
    Desktop <- Points
    PAGE = 256
    TCB = 8
    STACK = 256
    WINDOW = 5
    WIDTH = 268435456
    MaxHeap = 50000
    MaxDepth = 3
    MaxLate = 2
CONSTRAINT FewLate
SYMMETRY SlotSymmetry
INVARIANT ExpansionFits
CHECK_DEADLOCK FALSE
