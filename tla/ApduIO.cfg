SPECIFICATION FairSpec
INVARIANTS
    TypeOK
    ButtonsMatchQuestion
    WaitsForTheUser
    IoStateMatchesThread
PROPERTY
    CommandsEnd
    ImplementsExchange
