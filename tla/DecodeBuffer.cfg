SPECIFICATION Spec
CONSTANTS
    SizeMod = 1024
    BufferSize = 300
    Slots = 10
    MaxChunk = 255
    ChunkLengths <- MCChunkLengths
    ChangeLengths <- MCChangeLengths
    MaxTokens = 2
    MaxInputs = 2
    MaxOutputs = 10
INVARIANTS
    TypeOK
    NothingDecodableLeft
    ChunkAlwaysFits
    OutputsInOneCall
    HashedIsDecoded
