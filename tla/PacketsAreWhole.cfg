SPECIFICATION Spec
CONSTANTS
    BufferSize = 8
    IndexSize = 16
    HeadSize = 2
    LengthAt = 1
    MaxBody = 2
    MaxSend = 3
    MaxRead = 4
    Lengths = {0, 1, 2}
    MaxRelinks = 0
INVARIANT PacketsAreWhole
