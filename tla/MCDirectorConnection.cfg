CONSTANTS
    ListJobs = ListJobs
    Time = Time
    GuiOn = GuiOn
    Messages = Messages
    Restore = Restore
    Run = Run
    Ans = Ans
    One = One
    Dot = Dot
    Background <- MCBackground
    ConsoleCmds = {Run}
    ConsoleAnswer = Ans
    Choice = One
    Cancel = Dot
    PromptingCmds = {Restore, Run}
    RaisingCmds = {}
    MaxEnq = 5
    MaxFailures = 0
    ExtraCmds = {}
    ExtraCbs = {}
SPECIFICATION Spec
INVARIANT TypeOK
INVARIANT MutualExclusion
INVARIANT ReplyIntegrity
PROPERTY DaemonReadsOnlyAnswersAtPrompt
PROPERTY QueueDrains
PROPERTY TransmittedAreHandled
PROPERTY HalfDuplexSpec
CHECK_DEADLOCK FALSE
