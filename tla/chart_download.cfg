\* A limit that is no multiple of the size of a message.
CONSTANTS
    Archives <- EveryLength
    Limit = 5
    ChunkSize = 2
    Pieces = {1, 2, 3}
SPECIFICATION StreamFairSpec
INVARIANTS StreamTypeOK DeliveredInOrder BufferBounded
PROPERTY DownloadsEnd
