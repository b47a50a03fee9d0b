SPECIFICATION Spec
CONSTANTS
    Objs = {o1}
    Types <- JSONTypes
    Versions = {0}
    Bodies = {"b"}
    Assets = {"neo", "gas"}
    Amounts <- MCAmounts
    Outs <- MCOuts
    Inputs = {"in"}
    Addrs = {"addr"}
    Witnesses <- MCWitnesses
    MaxOutputs = 0
    MaxInputs = 1
    MaxAttributes = 0
    ReceivedBytes = {}
    ReceivedDocs <- MCReceivedDocs
PROPERTIES
    JSONRoundTrip
    UnmarshalIntoNewChecksID
    OwnDocumentsAreAccepted
    HashOutdatedOnlyWhereMemoIsKept
