CONSTANTS
    FS <- MCFS
    EmptyDirs <- MCEmptyDirs
    MaxOps = 4
SPECIFICATION Spec
INVARIANT TreeColumnIsFullPath
CHECK_DEADLOCK FALSE
