SPECIFICATION Spec
CONSTANTS
    Tokens <- MCTokens
    Slots = 1
    MaxSecrets = 2
    MaxAnnounced = 2
INVARIANTS
    TokensFitArray
