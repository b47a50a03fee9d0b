------------------------------ MODULE MptNodes ------------------------------
(***************************************************************************)
(* The nodes of the Merkle-Patricia trie of pkg/core/mpt as values, and    *)
(* the operations of base.go and extension.go on them as operators.  No    *)
(* state: MptNode and MptProof build their state machines on this module.  *)
(*                                                                         *)
(* A node is a record: its type, its fields and its BaseNode, the cache of *)
(* its serialisation and of its hash.  Go mutates nodes through pointers;  *)
(* here an operation returns the node after the call together with the     *)
(* value the call returns, and the caller puts the node back in its place. *)
(* A trie is a tree, no node has two parents, so nothing else aliases it.  *)
(*                                                                         *)
(* Bytes are the tuple of the fields written; a hash is <<"dsha", bytes>>. *)
(* Of the node types only ExtensionNode has its source in the repository;  *)
(* LeafNode, BranchNode and HashNode follow node_test.go and the calls     *)
(* base.go and proof.go make on them.                                      *)
(***************************************************************************)
EXTENDS Integers, Sequences, FiniteSets

CONSTANTS
    lastChild,      \* the index of the value slot of a branch (16 in the code):
                    \* nibbles are 0 .. lastChild-1, children 0 .. lastChild
    Values,         \* the values leaves hold
    MaxKeyLength    \* the longest extension key DecodeBinary accepts

ASSUME lastChild \in Nat \ {0} /\ MaxKeyLength \in Nat

Nibbles == 0 .. lastChild - 1

-----------------------------------------------------------------------------
(* Values *)

ZeroHash            == <<>>
DoubleSha256(bytes) == <<"dsha", bytes>>

\* The zero BaseNode, and the result of a call: the node afterwards, the
\* value returned, and whether the call panicked.
BaseNode == [hash |-> ZeroHash, bytes |-> <<>>, hashValid |-> FALSE, bytesValid |-> FALSE]

Ret(n, val)  == [node |-> n, val |-> val, panic |-> FALSE]
Panic(n)     == [node |-> n, val |-> <<>>, panic |-> TRUE]

\* new(HashNode) and NewHashNode(h).
EmptyHashNode  == [type |-> "HashT", base |-> BaseNode]
NewHashNode(h) == [type |-> "HashT", base |-> [BaseNode EXCEPT !.hash = h, !.hashValid = TRUE]]
IsEmpty(n)     == ~n.base.hashValid

NewLeafNode(value) == [type |-> "LeafT", value |-> value, base |-> BaseNode]

NewBranchNode ==
    [type |-> "BranchT", children |-> [i \in 0 .. lastChild |-> EmptyHashNode],
     base |-> BaseNode]

NewExtensionNode(key, next) ==
    [type |-> "ExtensionT", key |-> key, next |-> next, base |-> BaseNode]

\* The children of a node: a branch's slots, an extension's next, or none.
Children(n) ==
    CASE n.type = "BranchT"    -> {n.children[i] : i \in 0 .. lastChild}
      [] n.type = "ExtensionT" -> {n.next}
      [] OTHER                 -> {}

-----------------------------------------------------------------------------
(* BaseNode: the cache *)

setCache(n, bs, h) ==
    [n EXCEPT !.base = [hash |-> h, bytes |-> bs, hashValid |-> TRUE, bytesValid |-> TRUE]]

\* Variant of invalidateCache that forgets the hash and keeps the bytes.
invalidateHashOnly(n) ==
    [n EXCEPT !.base.hashValid = FALSE]

invalidateCache(n) ==
    [n EXCEPT !.base.bytesValid = FALSE, !.base.hashValid = FALSE]

RECURSIVE getHash(_), getBytes(_), updateHash(_), updateBytes(_), encodeNodeWithType(_)

\* The hash a parent writes for a child: HashNode.EncodeBinary writes the
\* hash of a hash node, or nothing when it is empty.
HashField(c) == IF IsEmpty(c) THEN ZeroHash ELSE c.base.hash

\* ExtensionNode.EncodeBinary: the key and NewHashNode(e.next.Hash()); the
\* call of Hash() fills the cache of next.
EncodeExtension(e) ==
    LET h == getHash(e.next) IN
    IF h.panic THEN Panic(e) ELSE Ret([e EXCEPT !.next = h.node], <<e.key, h.val>>)

\* BranchNode.EncodeBinary: a hash-node child is written as it is, any other
\* child as NewHashNode(child.Hash()).
EncodeBranch(b) ==
    LET h == [i \in 0 .. lastChild |->
                IF b.children[i].type = "HashT"
                THEN Ret(b.children[i], HashField(b.children[i]))
                ELSE getHash(b.children[i])]
    IN  IF \E i \in 0 .. lastChild : h[i].panic THEN Panic(b)
        ELSE Ret([b EXCEPT !.children = [i \in 0 .. lastChild |-> h[i].node]],
                 << [i \in 0 .. lastChild |-> h[i].val] >>)

\* The type byte and the node's own encoding.
encodeNodeWithType(n) ==
    LET e == CASE n.type = "ExtensionT" -> EncodeExtension(n)
               [] n.type = "BranchT"    -> EncodeBranch(n)
               [] n.type = "LeafT"      -> Ret(n, <<n.value>>)
               [] n.type = "HashT"      -> Ret(n, <<HashField(n)>>)
    IN  [e EXCEPT !.val = <<n.type>> \o @]

updateBytes(n) ==
    LET e == encodeNodeWithType(n) IN
    IF e.panic THEN e
    ELSE Ret([e.node EXCEPT !.base.bytes = e.val, !.base.bytesValid = TRUE], e.val)

getBytes(n) ==
    IF n.base.bytesValid THEN Ret(n, n.base.bytes) ELSE updateBytes(n)

updateHash(n) ==
    LET b == getBytes(n) IN
    IF n.type = "HashT" \/ b.panic THEN Panic(n)
    ELSE Ret([b.node EXCEPT !.base.hash = DoubleSha256(b.val), !.base.hashValid = TRUE],
             DoubleSha256(b.val))

getHash(n) ==
    IF n.base.hashValid THEN Ret(n, n.base.hash) ELSE updateHash(n)

-----------------------------------------------------------------------------
(* Decoding *)

\* HashNode.DecodeBinary into a new node: an empty field gives an empty hash
\* node, a field of any size but 0 and 32 is an error and the node stays
\* empty.
BadSize == <<"badsize">>

\* Variant of DecodeHashNode that reads the hash and does not mark it valid.
DecodeHashNodeNotValid(h) ==
    [EmptyHashNode EXCEPT !.base.hash = IF h = BadSize THEN ZeroHash ELSE h]

DecodeHashNode(h) ==
    IF h \in {ZeroHash, BadSize} THEN EmptyHashNode ELSE NewHashNode(h)

\* ExtensionNode.DecodeBinary into the node e.  A key longer than
\* MaxKeyLength is an error and e is not touched.  Otherwise key and next are
\* replaced and the cache is dropped, also when the buffer ends early or the
\* hash does not decode (a read that fails yields nothing and sets the error).
DecodeExtension(e, fields) ==
    LET key == IF Len(fields) >= 1 THEN fields[1] ELSE <<>>
        hf  == IF Len(fields) >= 2 THEN fields[2] ELSE BadSize
    IN  IF Len(key) > MaxKeyLength THEN [node |-> e, err |-> TRUE]
        ELSE [node |-> invalidateCache([e EXCEPT !.key = key,
                                                 !.next = DecodeHashNode(hf)]),
              err  |-> hf = BadSize]

\* DecodeNodeWithType: a new node of the type the first byte names, decoded
\* from the rest; nil and an error for any other byte.
NodeTypes == {"BranchT", "ExtensionT", "HashT", "LeafT"}
NoNode    == [type |-> "nil"]

DecodeNodeWithType(bytes) ==
    LET typ    == bytes[1]
        fields == Tail(bytes)
    IN  CASE typ = "ExtensionT" -> DecodeExtension(NewExtensionNode(<<>>, EmptyHashNode), fields)
          [] typ = "BranchT" ->
                [node |-> [NewBranchNode EXCEPT
                             !.children = [i \in 0 .. lastChild |-> DecodeHashNode(fields[1][i])]],
                 err  |-> FALSE]
          [] typ = "HashT"   -> [node |-> DecodeHashNode(fields[1]), err |-> FALSE]
          [] typ = "LeafT"   -> [node |-> NewLeafNode(fields[1]), err |-> FALSE]
          [] OTHER           -> [node |-> NoNode, err |-> TRUE]

-----------------------------------------------------------------------------
(* What a node is, whatever its caches say *)

RECURSIVE Encoding(_), Strip(_)

\* The serialisation of a node computed from its fields alone.  A hash node
\* stands for the node it names, so its parent writes the hash it holds.
HashOf(n) == IF n.type = "HashT" THEN HashField(n) ELSE DoubleSha256(Encoding(n))

Encoding(n) ==
    <<n.type>> \o
    CASE n.type = "ExtensionT" -> <<n.key, HashOf(n.next)>>
      [] n.type = "BranchT"    -> << [i \in 0 .. lastChild |-> HashOf(n.children[i])] >>
      [] n.type = "LeafT"      -> <<n.value>>
      [] n.type = "HashT"      -> <<HashField(n)>>

\* The node with every cache cleared: the structure of the tree.
Strip(n) ==
    CASE n.type = "ExtensionT" -> [n EXCEPT !.base = BaseNode, !.next = Strip(n.next)]
      [] n.type = "BranchT"    ->
            [n EXCEPT !.base = BaseNode,
                      !.children = [i \in 0 .. lastChild |-> Strip(n.children[i])]]
      [] n.type = "HashT"      -> n
      [] OTHER                 -> [n EXCEPT !.base = BaseNode]

\* A well-formed tree of nodes.
RECURSIVE IsNode(_)
IsNode(n) ==
    /\ n.type \in NodeTypes
    /\ n.base.hashValid \in BOOLEAN /\ n.base.bytesValid \in BOOLEAN
    /\ n.type = "ExtensionT" => n.key \in Seq(Nibbles)
    /\ n.type = "LeafT" => n.value \in Values
    /\ n.type = "BranchT" => DOMAIN n.children = 0 .. lastChild
    /\ \A c \in Children(n) : IsNode(c)

\* The cache of one node says what the node is.
Coherent(n) ==
    /\ n.base.bytesValid => n.base.bytes = Encoding(n)
    /\ (n.base.hashValid /\ n.type # "HashT") => n.base.hash = DoubleSha256(Encoding(n))

RECURSIVE AllCoherent(_)
AllCoherent(n) == Coherent(n) /\ \A c \in Children(n) : AllCoherent(c)

=============================================================================
