SPECIFICATION Spec
CONSTANTS
    CELL = 8
    Screen <- SmallScreen
    Base <- Launcher
    Nested <- ShellAndTed
    Right = 48
CONSTRAINT StillGood
INVARIANTS NoTrace InWindow CursorRestored
