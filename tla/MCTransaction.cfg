SPECIFICATION Spec
CONSTANTS
    Objs = {o1}
    Types <- BinaryTypes
    Versions = {0}
    Bodies = {}
    Assets = {"neo", "gas"}
    Amounts <- MCAmounts
    Outs <- MCOuts
    Inputs = {"in"}
    Addrs = {"addr"}
    Witnesses <- MCWitnesses
    MaxOutputs = 1
    MaxInputs = 0
    MaxAttributes = 1
    ReceivedBytes <- MCReceivedBytes
    ReceivedDocs = {}
INVARIANTS
    TypeOK
    HashPairConsistent
    GroupsPartitionOutputs
PROPERTIES
    DecodeDependsOnBytesOnly
    OwnBytesAreAccepted
    HashOutdatedOnlyWhereMemoIsKept
