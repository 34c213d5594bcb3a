SPECIFICATION Spec
CONSTANTS
    SizeMod = 24
    Modulus = 4
    ByteBase = 4
    HashLen = 1
    OpcodesBefore <- MCOpcodesBefore
    OpcodesAfter <- MCOpcodesAfter
    Printable = {2, 3}
    UidLen = 1
    MaxSymbolLen = 2
    MaxNameLen = 2
    NibbleBase = 2
    MaxFreeDigits = 6
    MaxBytes = 5
    MaxComponents = 6
    MaxChange = 4
INVARIANTS
    ReadsTakeOrRefuse
    ParsedIsSerialized
    MoreBytesAgree
    AmountIsDecimal
    AmountFitsLine
    AddressTextExact
    PathShownWhole
    WalkIsSkips
    OutputsNumbered
    TokenShownIsSigned
    ChangeIsOwnAddress
CHECK_DEADLOCK FALSE
