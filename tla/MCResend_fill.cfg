SPECIFICATION RSpec
CONSTANTS
    OverflowChecks = FALSE
    MaxLog = 3
INVARIANTS
    FillEndsAfterGap
CHECK_DEADLOCK FALSE
