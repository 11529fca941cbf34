CONSTANTS
    XResolution = 83
    YResolution = 35
    XCharSize = 8
    YCharSize = 16
    MaxLength = 3
SPECIFICATION Spec
INVARIANTS TypeOK InFrameBuffer EachPaintedOnce TabReachesStop
PROPERTY PrintReturns
