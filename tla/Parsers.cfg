SPECIFICATION Spec
CONSTANTS
    Repeats = FALSE
    Negative = FALSE
    LabelOps = {"="}
    Trailing = FALSE
    Damages = TRUE
INVARIANTS
    ParsesAsMeant
    SaysWhatWasRead
CHECK_DEADLOCK FALSE
