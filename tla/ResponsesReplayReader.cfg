SPECIFICATION ReplaySpec
CONSTANTS
    MaxEvent = 5
    MaxStream = 7
    MaxRead = 2
    MaxGroup = 3
INVARIANTS
    ChunkingIsInvisible
    ReplayKeepsFrames
CHECK_DEADLOCK FALSE
