SPECIFICATION PartsSpec
CONSTANTS
    item1 = item1
    item2 = item2
    Blank = Blank
    N = 4
    Item = {item1, item2}
    Batch <- MCBatch
    SharedByte = {1, 2}
    rec_nb = 3
    Garbage = Garbage
    SysExBufferSize = 4
    Byte = {64, 144, 192, 240, 241, 247, 248}
    MaxBytes = 6
    Sections <- MCSections
    Leftovers <- MCLeftovers
    Stale = 0
    HeapSize = 13
    Requests = {8, 24, 40}
    Tags = {"FluidSynth", "Uncategorized"}
    Buttons = {0, 1}
    ButtonStateHistoryLength = 3
    StepsPerClick = 4
    MaxDelta = 3
    MaxTurn = 6
INVARIANTS
    OnlyWrittenSlotsQueued
    BlocksAreDisjoint
    FreeSpaceIsMerged
    AllocFindsAFit
    CountsLiveBlocks
    LengthMatchesState
    DecodesTheStream
    PacketIsHeard
    EventsAreDebounced
    ClicksFollowTheKnob
PROPERTIES
    RingImplementsFifo
    SharedImplementsFifo
