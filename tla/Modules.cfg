SPECIFICATION Spec
CHECK_DEADLOCK FALSE
CONSTANTS
    x = x
    y = y
    c = c
    f = f
    g = g
    h = h
    Idle = Idle
    MaxSent = 7
    MaxPiece = 5
    BlockLen = 3
    WordLen = 2
    Base = 8
    HeaderLen = 4
    ModuleCode = 50
    Cipher <- TurnedCipher
    InvCipher <- TurnedInvCipher
    TypeBytes <- BytesOf
    ParamOp <- OpParam
    ConstOp <- OpConst
    CopyOp <- OpCopy
    OpKey <- KeyOp
    NameKey <- KeyName
    Fusions <- SmallFusions
    Descriptions <- SmallDescriptions
INVARIANTS
    FusesAsRouted
    LoadedAsSaved
PROPERTIES
    IsPipe
