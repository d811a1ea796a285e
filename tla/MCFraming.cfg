SPECIFICATION FairSpec
CONSTANTS
    Base = 4
    LenDigits = 2
    FRAME_VERSION = 1
    DataTags = {2}
    ControlTags = {0}
    MAX_DATA_PAYLOAD = 4
    MAX_CONTROL_PAYLOAD = 1
    PayloadLengths = {0, 1, 4, 5}
    MaxFrames = 3
    MaxForeign = 6
INVARIANTS
    TypeOK
    InStep
PROPERTIES
    NeverRefused
    Arrives
CHECK_DEADLOCK FALSE
