SPECIFICATION GestureSpec
CONSTANTS
    Finger = {f1, f2, f3}
    Position = {p1, p2}
    Inside = {p1}
    None = None
    AllowCancel = TRUE
    CutDrags = FALSE
    MaxDelayed = 2
INVARIANTS GestureTypeOK OneNotification NotificationMeansStill PointIsKnown
    HeldMatchesRemote LiftedMeansReleased
PROPERTY PressesAlternate
SYMMETRY Fingers
