SPECIFICATION Spec
CONSTANTS
    MilliDigits = 1
    MicroDigits = 2
    MaxDays = 1000
    MaxYears = 450
    Starts <- SomeStarts
    ExactParts <- SomeExacts
    SpanParts <- SomeSpans
    LongParts <- SomeLong
    DayCounts <- SomeDays
    MonthCounts <- SomeMonths
    Layouts <- SomeLayouts
    MaxSteps = 3
INVARIANTS KeepsTime ElapsedAddsUp DiffLeadsBack CmpIsChronological DurationsKept
CHECK_DEADLOCK FALSE
