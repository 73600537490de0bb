CONSTANTS
    WS = "ws"
    Absent = Absent
    Inputs <- MCInputs
    MixedText <- LeafOnlyText
SPECIFICATION Spec
INVARIANT JadInfoMatchesSpec
INVARIANT DdInfoMatchesSpec
INVARIANT UnreadableFallsBack
