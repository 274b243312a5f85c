SPECIFICATION FairSpec
CONSTANTS
    kernel = kernel
    reaper = reaper
    meminsp = meminsp
    launcher = launcher
    t1 = t1
    t2 = t2
    Tcb = {kernel, reaper, meminsp, launcher, t1}
    NULL = NULL
    Kernel = kernel
    Reaper = reaper
    MemInsp = meminsp
    Launcher = launcher
    Programs = {"shell"}
    ChildLimit = 1
    MaxPid = 5
PROPERTY ExitReaped
