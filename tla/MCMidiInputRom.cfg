SPECIFICATION MidiSpec
CONSTANTS
    Byte = {}
    SysExBufferSize = 8
    Scripts <- RomScripts
    MaxInputs = 3
    Packets <- NoPackets
    SharedSize = 9
    RxBufferSize = 3
    RingSize = 3
INVARIANTS
    NotesSettle
