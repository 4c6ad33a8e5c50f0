SPECIFICATION LooperFairSpec
CONSTANTS
    loopBuffSize = 6
    softmute_nb_sample = 2
    Chunks = {0, 1, 3}
    WordSize = 64
    QueueSize = 2
    MaxPresses = 5
    MaxTake = 8
INVARIANTS
    RecordsInsideBuffer
    DisplayMatchesLooper
    LoopIsOneStretch
    SoftmuteNeverAmplifies
    ChunksStartInside
PROPERTY
    CommandsTakeEffect
