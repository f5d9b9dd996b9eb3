SPECIFICATION Spec
CONSTANTS
    Files <- MCFiles
    ChunksOf <- MCChunksOf
    Kinds <- MCKinds
    Requests <- MCRequests
    DocOrder <- MCDocOrder
    TextScore <- MCTextScore
    PathScore <- MCPathScore
    VectorScore <- MCVectorScore
    HasVector <- MCHasVector
    BooleanMatch <- MCBooleanMatch
    RelaxedMatch <- MCRelaxedMatch
    HoldsLiteral <- MCHoldsLiteral
    Defines <- MCDefines
    DefinitionKind <- MCDefinitionKind
    MaxExact = 1
    BroadFactor = 2
    FallbackFactor = 3
    RefillFactor = 4
    AnnCap = 20
    Vanished <- MCVanished
INVARIANTS OnlyVisible DirectExact SemanticFull
CHECK_DEADLOCK FALSE
