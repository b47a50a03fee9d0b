SPECIFICATION Spec
CONSTANTS
    Headers = {"h1", "h2"}
    HashLists <- MCHashLists
    FlagBytes <- MCFlagBytes
    MaxTxCount = 2
INVARIANTS
    TypeOK
    DecodedBlockIsThePeers
