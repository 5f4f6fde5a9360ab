CONSTANTS
    Status = Status
    Run = Run
    Newline = Newline
    Period = Period
    Texts = {Status, Run}
    PromptingTexts = {Run}
    NL = Newline
    Dot = Period
    MaxEnq = 3
    SpuriousNotify = FALSE
SPECIFICATION Spec
INVARIANT EveryEnterExecuted
CHECK_DEADLOCK FALSE
