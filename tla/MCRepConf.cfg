CONSTANTS
    Tags <- MCTags
    Lower <- MCLower
    Texts <- MCTexts
    WS = "ws"
    RepNames <- MCRepNames
    ServerRoot <- MCRoot
    MaxDepth = 3
    MaxChars = 1
    MaxReps = 2
SPECIFICATION Spec
INVARIANT TypeOK
PROPERTY CatalogLoadRefined
CHECK_DEADLOCK FALSE
