------------------------------- MODULE MptNode -------------------------------
(***************************************************************************)
(* One node object of pkg/core/mpt under the calls base.go and             *)
(* extension.go export: construction, Hash(), Bytes(), DecodeBinary into   *)
(* the object, DecodeNodeWithType and the JSON codec of ExtensionNode.     *)
(* The object is reused: a decode can hit a node whose cache is filled.    *)
(***************************************************************************)
EXTENDS MptNodes

CONSTANTS
    Nodes,          \* the nodes callers build and peers serialise
    Damaged         \* byte strings no node encodes to

VARIABLES
    node,           \* the node object
    result          \* the last call, its outcome, and what it read or returned

vars == <<node, result>>

Done(op, out, arg) == result' = [op |-> op, out |-> out, arg |-> arg]

\* The call returned r.val, or panicked and returned nothing.
Returned(op, r) ==
    \/ ~r.panic /\ Done(op, "ok", r.val)
    \/ r.panic /\ Done(op, "panic", <<>>)

\* The bytes and the JSON documents that reach the decoders.  A document is
\* the structure it describes; "invalid" does not parse.
Encodings == {Encoding(n) : n \in Nodes} \cup Damaged
Documents == {Strip(n) : n \in Nodes} \cup {NoNode}

Init ==
    /\ node \in {NewExtensionNode(<<>>, EmptyHashNode)} \cup Nodes
    /\ result = [op |-> "new", out |-> "ok", arg |-> <<>>]

\* NewExtensionNode, NewLeafNode, NewBranchNode with children: a new object.
New ==
    /\ node' \in Nodes
    /\ Done("new", "ok", <<>>)

\* Hash() and Bytes() of BaseNodeIface.
\* Variant of Hash that returns the hash field without asking hashValid.
HashUnchecked ==
    /\ UNCHANGED node
    /\ Done("Hash", "ok", node.base.hash)

Hash ==
    /\ node' = getHash(node).node
    /\ Returned("Hash", getHash(node))

Bytes ==
    /\ node' = getBytes(node).node
    /\ Returned("Bytes", getBytes(node))

\* ExtensionNode.DecodeBinary into the object, of what follows the type byte
\* of an extension.
DecodeBinary ==
    /\ node.type = "ExtensionT"
    /\ \E bytes \in Encodings :
        LET r == DecodeExtension(node, Tail(bytes)) IN
        /\ bytes[1] = "ExtensionT"
        /\ node' = r.node
        /\ Done("DecodeBinary", IF r.err THEN "error" ELSE "ok", bytes)

\* DecodeNodeWithType: the object is the node returned, when one is.
DecodeWithType ==
    \E bytes \in Encodings :
        LET r == DecodeNodeWithType(bytes) IN
        /\ node' = IF r.node = NoNode THEN node ELSE r.node
        /\ Done("DecodeNodeWithType", IF r.err THEN "error" ELSE "ok", bytes)

\* ExtensionNode.UnmarshalJSON: NodeObject parses the document into a new
\* node u; an extension is copied over the object whole (*e = *u), base
\* included; anything else is "expected extension node".
UnmarshalJSONAnyNode(e, u) == [node |-> u, err |-> FALSE]

UnmarshalJSON(e, u) ==
    IF u.type = "ExtensionT" THEN [node |-> u, err |-> FALSE]
    ELSE [node |-> e, err |-> TRUE]

CallUnmarshalJSON ==
    /\ node.type = "ExtensionT"
    /\ \E d \in Documents :
        LET r == UnmarshalJSON(node, d) IN
        /\ node' = r.node
        /\ Done("UnmarshalJSON", IF r.err THEN "error" ELSE "ok", d)

\* ExtensionNode.MarshalJSON: the key and the document of next; the object
\* is not touched.
CallMarshalJSON ==
    /\ node.type = "ExtensionT"
    /\ Done("MarshalJSON", "ok", Strip(node))
    /\ UNCHANGED node

Next ==
    \/ New
    \/ Hash
    \/ Bytes
    \/ DecodeBinary
    \/ DecodeWithType
    \/ CallUnmarshalJSON
    \/ CallMarshalJSON

Spec == Init /\ [][Next]_vars

\* The node without its cache: the tree the object is, and the same calls.
Abs == INSTANCE MptNodeAbs WITH tree <- Strip(node), answer <- result

-----------------------------------------------------------------------------
(* Properties *)

\* The type invariant.
TypeOK ==
    /\ IsNode(node)
    /\ result.out \in {"ok", "error", "panic"}

\* The cache never lies: under every order of construction, Hash(), Bytes()
\* and decodes into a used object, the bytes a node holds as valid are its
\* serialisation and the hash it holds as valid is the hash of them.  A
\* decode that replaces key and next must drop both, whatever it read.
CacheCoherent ==
    /\ Coherent(node)
    /\ \A c \in Children(node) : AllCoherent(c)

\* The cache cannot be seen: under every order of calls the object answers
\* as the cacheless node of MptNodeAbs does.  Hash() and Bytes() return the
\* hash and the serialisation of what the object now is, however getHash,
\* getBytes and invalidateCache filled and dropped the memo before, they
\* change nothing a caller can read, and they panic exactly on a tree that
\* lacks a hash EncodeBinary has to write (extension.go:64).
ImplementsCachelessNode == Abs!Spec

\* What node_test.go asks of every node type: a node decoded from bytes
\* has the hash of those bytes, so the decoder loses nothing the hash covers
\* and the encoder is canonical.  Hash() must return it even when the
\* object held another node's cache before the decode.
DecodedNodeHashesToItsBytes ==
    [][(/\ result'.op \in {"DecodeBinary", "DecodeNodeWithType"}
        /\ result'.out = "ok"
        /\ ~getHash(node').panic)
          => getHash(node').val = DoubleSha256(result'.arg)]_vars

=============================================================================
