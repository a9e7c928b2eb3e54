SPECIFICATION FairSpec
CONSTANTS
    MtN = 5
    MtM = 3
    ArcN = 16
    Classes <- Generators
    rawNext <- nextOf
    Kinds = {"MiddleSquare"}
    Filling <- AllKinds
    Sizes <- SizesSmall
    MaxCalls = 3
    NoFile = NoFile
PROPERTY FillReturns
CHECK_DEADLOCK FALSE
