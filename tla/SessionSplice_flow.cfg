SPECIFICATION FairSpec
CONSTANTS
    t1 = t1
    conn = conn
    Targets = {t1}
    Others = {}
    Connection = conn
    InitialWindow = 2
    MaxFrame = 2
    MessageLengths = {2}
    Packed = {}
    Paddings = {}
    Growth = {1}
    WindowSizes = {3}
    MaxMessages = 2
    MaxPadding = 0
    MaxSettings = 0
PROPERTIES SessionEnds PumpKeepsReading HeldBytesFlow
CHECK_DEADLOCK FALSE
