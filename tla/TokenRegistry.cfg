SPECIFICATION Spec
CONSTANTS
    Tokens <- MCTokens
    Slots = 2
    MaxSecrets = 2
    MaxAnnounced = 2
INVARIANTS
    TypeOK
    SignaturesAreApproved
    AcceptedIsApproved
    EntriesWereApproved
    ShownSymbolApproved
PROPERTY
    RegistryGrowsOrIsWiped
