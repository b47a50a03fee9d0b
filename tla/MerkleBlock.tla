----------------------------- MODULE MerkleBlock -----------------------------
(***************************************************************************)
(* MerkleBlock of pkg/network/payload/merkleblock.go: the header of a      *)
(* block, the number of its transactions, and the hashes and flags of a    *)
(* partial merkle tree, as sent to a filtering peer.  One object is built  *)
(* by the node, encoded for the wire, and decoded from what a peer sent.   *)
(*                                                                         *)
(* Bytes are the sequence of the fields written; a buffer that ends early  *)
(* is a prefix of it.                                                      *)
(***************************************************************************)
EXTENDS Integers, Sequences, FiniteSets

CONSTANTS
    Headers,        \* the block headers, block.Base
    HashLists,      \* the lists of hashes
    FlagBytes,      \* the values of Flags
    MaxTxCount

VARIABLES
    m,              \* the MerkleBlock object
    result          \* the last call and the bytes it wrote or read

vars == <<m, result>>

\* A nil *block.Base and &block.Base{}.
NilBase  == "nil"
ZeroBase == "zero"

\* The zero MerkleBlock.
MerkleBlock == [base |-> NilBase, txCount |-> 0, hashes |-> <<>>, flags |-> <<>>]

Done(op, out, bytes) == result' = [op |-> op, out |-> out, bytes |-> bytes]

\* The fields EncodeBinary writes: Base is replaced by a new zero Base
\* first, and that one is written.
Encoded(mb) == <<ZeroBase, mb.txCount, mb.hashes, mb.flags>>

EncodeBinary ==
    /\ m' = [m EXCEPT !.base = ZeroBase]
    /\ Done("EncodeBinary", "ok", Encoded(m))

\* Variant of DecodeBinary whose ReadArray appends to the hashes held.
DecodeBinaryAppends(mb, bytes) ==
    LET has(i) == i <= Len(bytes) IN
    [base    |-> IF has(1) THEN bytes[1] ELSE ZeroBase,
     txCount |-> IF has(2) THEN bytes[2] ELSE 0,
     hashes  |-> IF has(3) THEN mb.hashes \o bytes[3] ELSE mb.hashes,
     flags   |-> IF has(4) THEN bytes[4] ELSE <<>>]

\* Variant of DecodeBinary whose ReadArray returns at once for an array of
\* no elements.
DecodeBinaryKeepsOnEmpty(mb, bytes) ==
    LET has(i) == i <= Len(bytes) IN
    [base    |-> IF has(1) THEN bytes[1] ELSE ZeroBase,
     txCount |-> IF has(2) THEN bytes[2] ELSE 0,
     hashes  |-> IF has(3) /\ bytes[3] # <<>> THEN bytes[3] ELSE mb.hashes,
     flags   |-> IF has(4) THEN bytes[4] ELSE <<>>]

\* DecodeBinary: a new Base is decoded; a field the buffer does not hold
\* reads as zero and sets the error, and ReadArray does nothing once the
\* error is set, so Hashes keeps what it held.
DecodeBinary(mb, bytes) ==
    LET has(i) == i <= Len(bytes) IN
    [base    |-> IF has(1) THEN bytes[1] ELSE ZeroBase,
     txCount |-> IF has(2) THEN bytes[2] ELSE 0,
     hashes  |-> IF has(3) THEN bytes[3] ELSE mb.hashes,
     flags   |-> IF has(4) THEN bytes[4] ELSE <<>>]

\* What peers send: the encoding of a merkle block with its header, whole
\* or cut after any field.
Literals ==
    [base : Headers, txCount : 0 .. MaxTxCount, hashes : HashLists, flags : FlagBytes]

Sent == UNION {{SubSeq(<<l.base, l.txCount, l.hashes, l.flags>>, 1, n) : n \in 0 .. 4} : l \in Literals}

CallDecodeBinary ==
    \E bytes \in Sent \cup {result.bytes} :
        /\ m' = DecodeBinary(m, bytes)
        /\ Done("DecodeBinary", IF Len(bytes) < 4 THEN "error" ELSE "ok", bytes)

\* The node builds a merkle block for a block it holds.
New ==
    /\ m' \in Literals
    /\ Done("new", "ok", <<>>)

Init ==
    /\ m = MerkleBlock
    /\ result = [op |-> "new", out |-> "ok", bytes |-> <<>>]

Next == New \/ EncodeBinary \/ CallDecodeBinary

Spec == Init /\ [][Next]_vars

-----------------------------------------------------------------------------
(* Properties *)

\* The type invariant.  Base is nil in the zero object only: DecodeBinary
\* and EncodeBinary allocate one before anything else.
TypeOK ==
    /\ m.base \in Headers \cup {NilBase, ZeroBase}
    /\ m.base = NilBase => m = MerkleBlock
    /\ m.txCount \in 0 .. MaxTxCount
    /\ m.hashes \in HashLists \cup {<<>>}
    /\ m.flags \in FlagBytes \cup {<<>>}
    /\ result.out \in {"ok", "error"}

\* A merkle block is decoded into an object that may have held another one,
\* and from a buffer that may end anywhere.  When DecodeBinary reports no
\* error the object is the merkle block of the bytes, all four fields of it:
\* the hashes an earlier decode left behind, which ReadArray does not touch
\* once the reader has failed, are never part of a block taken as read.
DecodedBlockIsThePeers ==
    (result.op = "DecodeBinary" /\ result.out = "ok")
        => <<m.base, m.txCount, m.hashes, m.flags>> = result.bytes

\* The contract of io.Serializable that every payload of the network layer
\* is used under: EncodeBinary writes the object, so the bytes decode to a
\* merkle block equal to the one encoded, and encoding does not change the
\* object.  merkleblock.go replaces Base before it writes it.
EncodeWritesTheBlock ==
    [][result'.op = "EncodeBinary"
         => /\ m' = m
            /\ DecodeBinary(MerkleBlock, result'.bytes) = m]_vars

=============================================================================
