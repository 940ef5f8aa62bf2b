SPECIFICATION Spec
CONSTANTS
    Finger = {f1, f2, f3}
    Coordinate = {0, 1}
    TouchSlop = 0
INVARIANTS TypeOK TouchesAreFingers FirstPairIsCurrent
SYMMETRY Fingers
