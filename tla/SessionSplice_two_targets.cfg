SPECIFICATION Spec
CONSTANTS
    t1 = t1
    t2 = t2
    o1 = o1
    conn = conn
    Targets = {t1, t2}
    Others = {o1}
    Connection = conn
    InitialWindow = 3
    MaxFrame = 2
    MessageLengths = {1, 3}
    Packed = {1}
    Paddings = {}
    Growth = {1}
    WindowSizes = {2}
    MaxMessages = 2
    MaxPadding = 0
    MaxSettings = 0

PROPERTIES ReleasesWithinCredit
CHECK_DEADLOCK FALSE
