------------------------------ MODULE MCMptNode ------------------------------
(* MptNode instantiated for TLC. *)
EXTENDS MptNode

\* The nodes of TestRootHash and TestNode_Serializable over two nibbles: a
\* leaf, an extension over a leaf, an extension over a hash node, a branch
\* with a leaf in one slot and a hash node in the value slot.
v1 == NewLeafNode("v1")
l1 == NewExtensionNode(<<1>>, v1)
h1 == NewExtensionNode(<<0, 1>>, NewHashNode(DoubleSha256(Encoding(v1))))
b1 == [NewBranchNode EXCEPT !.children[0] = v1,
                            !.children[lastChild] = NewHashNode(DoubleSha256(Encoding(l1)))]

MCNodes == {v1, l1, h1, b1}

\* An extension with a key of MaxKeyLength+1 nibbles, an extension with an
\* empty hash field, an extension cut before its hash, an extension whose
\* hash has a wrong size, a type byte no node has.
MCDamaged ==
    {<<"ExtensionT", <<0, 1, 0>>, DoubleSha256(Encoding(v1))>>,
     <<"ExtensionT", <<1>>, ZeroHash>>,
     <<"ExtensionT", <<1>>>>,
     <<"ExtensionT", <<1>>, BadSize>>,
     <<"0xFF">>}
=============================================================================
