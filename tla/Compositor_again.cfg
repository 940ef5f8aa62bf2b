SPECIFICATION Spec
CONSTANTS
    Fd = {3, 4}
    MaxRuns = 1
INVARIANT FilesStayOpen
