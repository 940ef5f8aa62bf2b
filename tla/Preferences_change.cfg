SPECIFICATION Spec
CONSTANTS
    Key = {auto, k1, k2}
    AutoStart = auto
    MaxQueue = 3
INVARIANTS TypeOK SettingsAreCurrent AutoNeedsGrant
PROPERTY ChangesArrive
