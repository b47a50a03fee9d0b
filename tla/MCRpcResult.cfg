SPECIFICATION Spec
CONSTANTS
    MaxHeight = 3
    Uint32Max = 15
    Uint256Size = 2
    HexDigits <- MCHexDigits
    Addrs <- MCAddrs
    MaxPeers = 1
INVARIANTS
    TypeOK
    ClientReadsTheHash
    HashFormsAgree
    ConfirmedHeaderIsLinked
PROPERTIES
    NextBlockHashIsSuccessor
