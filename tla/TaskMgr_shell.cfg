SPECIFICATION Spec
CONSTANTS
    kernel = kernel
    reaper = reaper
    meminsp = meminsp
    launcher = launcher
    t1 = t1
    t2 = t2
    Tcb = {kernel, reaper, meminsp, launcher, t1, t2}
    NULL = NULL
    Kernel = kernel
    Reaper = reaper
    MemInsp = meminsp
    Launcher = launcher
    Programs = {"shell", "ted"}
    ChildLimit = 1
    MaxPid = 5
CONSTRAINT Few
SYMMETRY AppSymmetry
INVARIANTS IInv FamilyInv RingIntact FamilyAgrees PidUnique
PROPERTIES RunsOnlyReady WakerKept
