CONSTANTS
    WS = "ws"
    Absent = Absent
    Inputs <- MCInputs
    MixedText <- MixedTexts
SPECIFICATION Spec
INVARIANT DdInfoMatchesSpec
