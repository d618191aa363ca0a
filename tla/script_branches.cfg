SPECIFICATION Spec
CONSTANTS
    Branch = {b1, b2, b3}
    Barrier = {bar}
    Pipe = {pipe}
    Object = {obj}
    NoObject = NoObject
    Main = Main
    MaxId = 2
    MaxLimit = 3
    MaxLost = 2
    MaxData = 1
SYMMETRY BranchSymmetry
INVARIANTS
    BarrierExact
    NoReaderForgotten
    AnsweredOnce
    WaitersTracked
CHECK_DEADLOCK FALSE
