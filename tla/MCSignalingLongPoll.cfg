CONSTANTS
    v1 = v1
    v2 = v2
    Viewer = {v1, v2}
    MaxQueue = 3
    MaxFaults = 1
SPECIFICATION Spec
PROPERTY LongPollWakes
CHECK_DEADLOCK FALSE
