SPECIFICATION Spec
CONSTANTS
    MaxDepth = 2
    MaxText = 5
    Values <- MCValues
    Texts <- MCTexts
INVARIANTS
    ReadsBack
    ReencodesAccepted
CHECK_DEADLOCK FALSE
