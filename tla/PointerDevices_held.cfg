SPECIFICATION Spec
CONSTANTS
    MouseButtons = {"LEFT"}
    DexButtons = {"LEFT", "RIGHT"}
    MaxPosted = 2
INVARIANTS TypeOK PressedIsHeld HeldIsPressed
