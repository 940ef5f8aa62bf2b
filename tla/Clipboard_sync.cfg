SPECIFICATION Spec
CONSTANTS
    MaxTime = 4
    EchoWindow = 2
INVARIANTS TypeOK NoEcho CopiesAreAnnounced
