CONSTANTS
    ListJobs = ListJobs
    Time = Time
    GuiOn = GuiOn
    Messages = Messages
    Restore = Restore
    Run = Run
    Ans = Ans
    One = One
    Dot = Dot
    Background <- MCBackground
    ConsoleCmds = {Run}
    ConsoleAnswer = Ans
    Choice = One
    Cancel = Dot
    PromptingCmds = {Restore, Run}
    MaxEnq = 5
    RaisingCmds = {ListJobs}
    MaxFailures = 1
    ExtraCmds = {}
    ExtraCbs = {}
SPECIFICATION FaultySpec
PROPERTY QueueDrains
CHECK_DEADLOCK FALSE
