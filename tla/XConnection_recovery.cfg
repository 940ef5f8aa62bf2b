SPECIFICATION Spec
CONSTANTS
    Server = {s1, s2}
    None = None
    Closed = Closed
    PromptDeath = FALSE
    MaxStarts = 2
    MaxLinks = 0
    MaxRetries = 1
    MaxSurface = 2
INVARIANTS TypeOK NoLostWakeup ConnectedIsWatched WindowIsCurrent ServiceMatchesConnection
SYMMETRY Servers
CHECK_DEADLOCK FALSE
