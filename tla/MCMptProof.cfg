SPECIFICATION Spec
CONSTANTS
    lastChild = 2
    Values = {"v1", "v2", "v3", "v9"}
    MaxKeyLength = 2
    Tries <- MCTries
    Keys <- MCKeys
    Content <- MCContent
    Forged <- MCForged
INVARIANTS
    TypeOK
    ProofsKeepTheTrie
    ProofVerifies
    ProofSound
