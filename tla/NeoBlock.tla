------------------------------ MODULE NeoBlock ------------------------------
(***************************************************************************)
(* neoBlock of pkg/consensus/block.go: the chain's block behind the        *)
(* interface the agreement algorithm works with.  The algorithm fills the  *)
(* header, signs it, collects the signatures of the other validators,      *)
(* verifies them, and puts the transactions in when it has them all.       *)
(*                                                                         *)
(* A signature is the record of the key and the data signed; Verify        *)
(* accepts it for the public key of that key and those data.  Integers are *)
(* scaled: uint32 is 0 .. Uint32Max, uint64 is 0 .. Uint64Max.             *)
(***************************************************************************)
EXTENDS Integers, Sequences, FiniteSets

CONSTANTS
    Keys,               \* the private keys of the validators
    BadKeys,            \* private keys Sign fails with
    Headers,            \* the headers the algorithm fills in, block.Base:
                        \* [version, prevHash, merkleRoot, timestamp (in
                        \* seconds), index, consensusData, nextConsensus]
    Txs,                \* the transactions, *transaction.Transaction
    Foreign,            \* values of block.Transaction of any other type
    MaxTxs,             \* the longest list given to SetTransactions
    Uint32Max,
    Uint64Max,
    NanosPerSecond      \* 1000000000 in the code

ASSUME /\ \A h \in Headers : h.timestamp \in 0 .. Uint32Max
       /\ Keys \cap BadKeys = {}

VARIABLES
    block,              \* the embedded coreb.Block
    signature,          \* neoBlock.signature
    result,             \* the last call and what it returned
    signed              \* history: the key and the header of the last Sign that succeeded

vars == <<block, signature, result, signed>>

\* The zero values: the zero hash, a nil transaction pointer, no signature.
ZeroHash    == "zero"
NilTx       == "nil"
Nil         == <<>>
NoSignature == [key |-> "none", data |-> <<>>]

\* new(neoBlock): the embedded block with its Base and no transactions.
ZeroBase  == [version |-> 0, prevHash |-> ZeroHash, merkleRoot |-> ZeroHash, timestamp |-> 0,
              index |-> 0, consensusData |-> 0, nextConsensus |-> ZeroHash]
ZeroBlock == [base |-> ZeroBase, transactions |-> <<>>]

\* Variant of Timestamp that multiplies before it widens.
TimestampOf32(b) == ((b.base.timestamp * NanosPerSecond) % (Uint32Max + 1)) % (Uint64Max + 1)

\* The getters of block.Block.  Timestamp widens the seconds to uint64 and
\* then multiplies; the others hand out the field.
Version(b)       == b.base.version
PrevHash(b)      == b.base.prevHash
MerkleRoot(b)    == b.base.merkleRoot
Timestamp(b)     == (b.base.timestamp * NanosPerSecond) % (Uint64Max + 1)
Index(b)         == b.base.index
ConsensusData(b) == b.base.consensusData
NextConsensus(b) == b.base.nextConsensus
Signature        == signature

\* The header as the algorithm sees it through the getters.
Header(b) ==
    [Version |-> Version(b), PrevHash |-> PrevHash(b), MerkleRoot |-> MerkleRoot(b),
     Timestamp |-> Timestamp(b), Index |-> Index(b),
     ConsensusData |-> ConsensusData(b), NextConsensus |-> NextConsensus(b)]

NotSigned == [key |-> "none", header |-> Header(ZeroBlock)]

\* Base.GetHashableData: the header without the witness; the transactions
\* are not part of it.
GetHashableData(b) == <<"base", b.base>>

\* crypto.PrivateKey.Sign and crypto.PublicKey.Verify.  The public key of a
\* key is named by the key.
KeySign(key, data)       == [key |-> key, data |-> data]
KeyVerify(pub, data, sg) == sg = KeySign(pub, data)

Done(op, out, val) == result' = [op |-> op, out |-> out, val |-> val]

Init ==
    /\ block = ZeroBlock
    /\ signature = NoSignature
    /\ result = [op |-> "new", out |-> "ok", val |-> Nil]
    /\ signed = NotSigned

\* The algorithm writes the header fields of the embedded block.
SetHeader ==
    /\ \E h \in Headers : block' = [block EXCEPT !.base = h]
    /\ Done("SetHeader", "ok", Nil)
    /\ UNCHANGED <<signature, signed>>

\* Variant of Signed that assigns what key.Sign returned before it looks at
\* the error.
SignedBeforeCheck(key, old, data) ==
    IF key \in BadKeys THEN NoSignature ELSE KeySign(key, data)

\* The signature after Sign: when the key fails it stays what it was.
Signed(key, old, data) ==
    IF key \in BadKeys THEN old ELSE KeySign(key, data)

\* Sign: the signature of the hashable data is stored.
Sign ==
    \E key \in Keys \cup BadKeys :
        /\ signature' = Signed(key, signature, GetHashableData(block))
        /\ signed' = IF key \in BadKeys THEN signed ELSE [key |-> key, header |-> Header(block)]
        /\ Done("Sign", IF key \in BadKeys THEN "error" ELSE "ok", Nil)
        /\ UNCHANGED block

\* Verify of a signature: the one stored, or the one of another validator
\* over the header as it is now or as it was when this node signed.
Verify(b, pub, sg) == KeyVerify(pub, GetHashableData(b), sg)

Received ==
    {signature} \cup {KeySign(k, GetHashableData(block)) : k \in Keys}

CallVerify ==
    /\ \E pub \in Keys, sg \in Received :
        Done("Verify", IF Verify(block, pub, sg) THEN "ok" ELSE "error", [pub |-> pub, sg |-> sg])
    /\ UNCHANGED <<block, signature, signed>>

\* Transactions: a new list of the same transactions.
Transactions(b) == [i \in DOMAIN b.transactions |-> b.transactions[i]]

CallTransactions ==
    /\ Done("Transactions", "ok", Transactions(block))
    /\ UNCHANGED <<block, signature, signed>>

\* The first element that is not a *transaction.Transaction, where the type
\* assertion panics.
FirstForeign(txes) ==
    IF \E i \in DOMAIN txes : txes[i] \in Foreign
    THEN CHOOSE i \in DOMAIN txes : txes[i] \in Foreign /\ \A j \in 1 .. i - 1 : txes[j] \notin Foreign
    ELSE Len(txes) + 1

\* Variant of SetTransactions that stores whatever it is given.
SetTransactionsUnchecked(b, txes) == [b EXCEPT !.transactions = txes]

\* SetTransactions: a new list of the length given is assigned first and
\* filled element by element; the elements from the panic on stay nil.
SetTransactions(b, txes) ==
    [b EXCEPT !.transactions =
        [i \in DOMAIN txes |-> IF i < FirstForeign(txes) THEN txes[i] ELSE NilTx]]

TxLists == UNION {[1 .. n -> Txs \cup Foreign] : n \in 0 .. MaxTxs}

CallSetTransactions ==
    /\ \E txes \in TxLists :
        /\ block' = SetTransactions(block, txes)
        /\ Done("SetTransactions",
                IF FirstForeign(txes) <= Len(txes) THEN "panic" ELSE "ok", txes)
    /\ UNCHANGED <<signature, signed>>

CallTimestamp ==
    /\ Done("Timestamp", "ok", Timestamp(block))
    /\ UNCHANGED <<block, signature, signed>>

Next ==
    \/ SetHeader
    \/ Sign
    \/ CallVerify
    \/ CallTransactions
    \/ CallSetTransactions
    \/ CallTimestamp

Spec == Init /\ [][Next]_vars

-----------------------------------------------------------------------------
(* Properties *)

\* The type invariant.
TypeOK ==
    /\ block.base \in Headers \cup {ZeroBase}
    /\ block.transactions \in Seq(Txs \cup {NilTx})
    /\ signature.key \in Keys \cup {"none"}
    /\ result.out \in {"ok", "error", "panic"}

\* The signature a node holds stands for the header it signed and for
\* nothing else: it verifies under the signer's public key exactly while
\* the header the algorithm reads through the getters is the one it read
\* when it signed, whatever was called in between
\* (a Sign that failed, SetTransactions, a header written again and written
\* back), and it never verifies under another validator's key.  The
\* algorithm puts the transactions in after the signatures were collected,
\* so SetTransactions must not touch what Sign and Verify cover.
SignatureBindsHeader ==
    signed # NotSigned =>
        /\ Signature # NoSignature
        /\ \A pub \in Keys :
            Verify(block, pub, Signature)
                <=> (pub = signed.key /\ Header(block) = signed.header)

\* Timestamp() is the block's seconds in nanoseconds for every uint32: the
\* product does not wrap, so the algorithm's clock arithmetic maps back to
\* the second it came from.
TimestampIsExact ==
    /\ Timestamp(block) \div NanosPerSecond = block.base.timestamp
    /\ Timestamp(block) % NanosPerSecond = 0

=============================================================================
