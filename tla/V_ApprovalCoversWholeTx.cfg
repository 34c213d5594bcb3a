SPECIFICATION FairSpec
CONSTANTS
    Modulus = 6
    BufferSlots = 4
    MaxChange = 3
    MaxTokens = 1
    MaxInputs = 1
    MaxChunk = 3
INVARIANT ApprovalCoversWholeTx
