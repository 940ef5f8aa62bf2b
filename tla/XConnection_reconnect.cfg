SPECIFICATION FairSpec
CONSTANTS
    Server = {s1, s2}
    None = None
    Closed = Closed
    PromptDeath = FALSE
    MaxStarts = 1
    MaxLinks = 0
    MaxRetries = 0
    MaxSurface = 1
PROPERTY Reconnects
CHECK_DEADLOCK FALSE
