SPECIFICATION Spec
CONSTANTS
    LiteralBits = 2
    MaxHops = 4
    MaxFormDepth = 2
    Files <- MCFiles
    Fonts <- MCFonts
    Resources <- MCResources
    OpNames <- MCOpNames
    PixelUnits = 20
    Scales <- MCScales
INVARIANTS StacksAgree LoadedAsWritten PaintedAsWritten PageFillsCanvas
PROPERTIES DecodedAsWritten LoadGetsOn LoadEnds
CHECK_DEADLOCK FALSE
