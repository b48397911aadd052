SPECIFICATION Spec
CONSTANTS
    t1 = t1
    o1 = o1
    conn = conn
    Targets = {t1}
    Others = {o1}
    Connection = conn
    InitialWindow = 3
    MaxFrame = 2
    MessageLengths = {1, 2}
    Packed = {1}
    Paddings = {1}
    Growth = {1}
    WindowSizes = {2}
    MaxMessages = 2
    MaxPadding = 1
    MaxSettings = 1
INVARIANTS TypeOK ConnectionNeverOverrun ClientNeverShort SleepsOnlyWhenShort
PROPERTIES ReleasesWithinCredit ImplementsSender
CHECK_DEADLOCK FALSE
