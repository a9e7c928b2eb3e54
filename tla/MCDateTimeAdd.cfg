SPECIFICATION Spec
CONSTANTS
    MilliDigits = 1
    MicroDigits = 2
    MaxDays = 1000
    MaxYears = 450
    Starts <- LeapDays
    ExactParts = {}
    SpanParts <- FourYears
    LongParts = {}
    DayCounts = {}
    MonthCounts = {}
    Layouts = {}
    MaxSteps = 1
INVARIANT AddedIsValid
CHECK_DEADLOCK FALSE
