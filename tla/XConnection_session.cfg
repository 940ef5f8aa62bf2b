SPECIFICATION FairSpec
CONSTANTS
    Server = {s1, s2}
    None = None
    Closed = Closed
    PromptDeath = TRUE
    MaxStarts = 1
    MaxLinks = 0
    MaxRetries = 1
    MaxSurface = 1
PROPERTY ImplementsSession
CHECK_DEADLOCK FALSE
