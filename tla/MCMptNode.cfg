SPECIFICATION Spec
CONSTANTS
    lastChild = 2
    Values = {"v1"}
    MaxKeyLength = 2
    Nodes <- MCNodes
    Damaged <- MCDamaged
INVARIANTS
    TypeOK
    CacheCoherent
PROPERTIES
    ImplementsCachelessNode
    DecodedNodeHashesToItsBytes
