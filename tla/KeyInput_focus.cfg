SPECIFICATION Spec
CONSTANTS
    Key = {a, esc, ctrl, win}
    Text = {a}
    Ctrl = ctrl
    Win = win
    Remapped = {esc}
INVARIANTS TypeOK NoStuckKeys TypedKeysAreHeld HeldKeysAreTracked
