SPECIFICATION FairSpec
CONSTANTS
    MtN = 5
    MtM = 3
    ArcN = 16
    Classes <- Generators
    rawNext <- nextOf
    Kinds <- AllKinds
    Filling <- Defined
    Sizes <- SizesSmall
    MaxCalls = 3
    NoFile = NoFile
INVARIANTS NumbersAreLeadingBits FilledFromStream RestoreContinues
PROPERTY FillReturns
CHECK_DEADLOCK FALSE
