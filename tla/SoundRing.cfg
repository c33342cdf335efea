SPECIFICATION FairSpec
CONSTANTS
    BuffLen = 2
    Buffers = 3
    StartBuffs = 2
    Wrap = 12
    MaxChunk = 2
    MaxOverflows = 1
    RetryLimit = 2
INVARIANTS TypeOK PlayedIsWritten
PROPERTIES HandedOverKept PlayingStarts
