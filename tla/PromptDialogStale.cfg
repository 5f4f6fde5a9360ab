CONSTANTS
    MaxOpt = 3
    MaxPrompts = 2
    SpuriousNotify = FALSE
SPECIFICATION Spec
INVARIANT AnswerIsSelectedOption
CHECK_DEADLOCK FALSE
