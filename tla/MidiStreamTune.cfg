SPECIFICATION StreamSpec
CONSTANTS
    Byte = {64, 144, 192, 246, 248}
    SysExBufferSize = 4
    MaxBytes = 5
INVARIANT
    DecodesTheStream
