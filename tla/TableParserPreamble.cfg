CONSTANTS
    MaxPre = 2
    MaxRows = 2
    NCols = 2
SPECIFICATION Spec
INVARIANT TableParsedAsSpecified
