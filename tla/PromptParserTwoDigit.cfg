CONSTANT MaxOpt = 13
SPECIFICATION Spec
INVARIANT OptionsReadAsNumbered
