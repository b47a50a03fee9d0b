SPECIFICATION Spec
CONSTANTS
    Keys = {"k1", "k2"}
    BadKeys = {"bad"}
    Headers <- MCHeaders
    Txs = {"tx1", "tx2"}
    Foreign = {"other"}
    MaxTxs = 2
    Uint32Max = 15
    Uint64Max = 255
    NanosPerSecond = 10
INVARIANTS
    TypeOK
    SignatureBindsHeader
    TimestampIsExact
