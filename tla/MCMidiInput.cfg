SPECIFICATION FairMidiSpec
CONSTANTS
    Byte = {}
    SysExBufferSize = 8
    Scripts <- PlayScripts
    MaxInputs = 3
    Packets <- PurgePackets
    SharedSize = 4
    RxBufferSize = 3
    RingSize = 7
INVARIANTS
    HeardInOrder
    NotesSettle
PROPERTIES
    SharedBufferDrains
    PurgeStartsNoNote
