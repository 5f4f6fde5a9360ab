CONSTANTS
    ListJobs = ListJobs
    One = One
    Dot = Dot
    Restore = Restore
    Dir = Dir
    CdA = CdA
    CdB = CdB
    MarkF = MarkF
    Est = Est
    FindT = FindT
    DoneC = DoneC
    QuitC = QuitC
    F1 = F1
    F2 = F2
    Background <- MCBackground
    Choice = One
    Cancel = Dot
    RestoreCmd = Restore
    DotDir = Dir
    Dirs = {CdA, CdB}
    Mark = MarkF
    Estimate = Est
    Find = FindT
    Done = DoneC
    Quit = QuitC
    MaxEnq = 6
    PatientUser = FALSE
    Files = {F1, F2}
    FileDir <- MCFileDir
SPECIFICATION Spec
PROPERTY TreeCommandsOnlyInTreeMode
CHECK_DEADLOCK FALSE
