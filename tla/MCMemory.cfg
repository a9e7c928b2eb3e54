SPECIFICATION AllSpec
CONSTANTS
    H = 2
    Size = 4
    Limbs32 <- LimbsOf
    Samples <- LimbSamples
    Amounts <- AmountsAround
    Divisors <- DivisorsSmall
    Ints <- IntsAround
    NoCall = NoCall
    Vals = {0, 1}
    B = 2
    LinearSwitch = 6
    MaxEls = 4
    MaxSpans = 2
    Starts <- StartsSmall
    Lengths <- LengthsSmall
    Given <- GivenSmall
    None = None
    Thrown = Thrown
INVARIANTS ArithmeticRight OthersKept OrderRight BytesRight SpansShareMemory
PROPERTIES ImplementsGrowable ThrownChangesNothing
CHECK_DEADLOCK FALSE
