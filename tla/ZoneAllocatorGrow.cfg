SPECIFICATION ZoneSpec
CONSTANTS
    HeapSize = 13
    Requests = {8, 24, 40}
    Tags = {"FluidSynth", "Uncategorized"}
INVARIANT RemainderHoldsItsHeader
