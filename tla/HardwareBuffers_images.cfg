SPECIFICATION BuffersSpec
CONSTANTS
    Buffer = {b1, b2, b3, b4, b5, b6}
    MaxSent = 4
    MaxImages = 4
INVARIANTS BuffersTypeOK OneOwner ImagesInOrder
PROPERTY FirstReleaseIsSafe
SYMMETRY Addresses
CHECK_DEADLOCK FALSE
