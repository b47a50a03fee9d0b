------------------------------ MODULE MCMptProof ------------------------------
(* MptProof instantiated for TLC: a trie over two nibbles, bytes 0 .. 3. *)
EXTENDS MptProof

\* Three keys: <<0>> (path 0,0), <<0, 1>> (path 0,0,0,1) whose path extends
\* the first one, and <<2>> (path 1,0).
MCContent == (<<0>> :> "v1") @@ (<<0, 1>> :> "v2") @@ (<<2>> :> "v3")

\* The trie of these keys: a branch at the root, an extension on each side,
\* a branch that holds "v1" in its value slot above an extension to "v2".
Lower == [NewBranchNode EXCEPT
            !.children[0] = NewExtensionNode(<<1>>, NewLeafNode("v2")),
            !.children[lastChild] = NewLeafNode("v1")]

FullTrie == [NewBranchNode EXCEPT
               !.children[0] = NewExtensionNode(<<0>>, Lower),
               !.children[1] = NewExtensionNode(<<0>>, NewLeafNode("v3"))]

\* Every node of a tree, and their serialisations: the store after a flush.
RECURSIVE NodesOf(_)
NodesOf(n) == {n} \cup UNION {NodesOf(c) : c \in Children(n)}

Flushed == {Encoding(n) : n \in {m \in NodesOf(FullTrie) : m.type # "HashT"}}

\* The root with its children known by hash only.
Collapsed ==
    [FullTrie EXCEPT !.children =
        [i \in 0 .. lastChild |->
            IF FullTrie.children[i].type = "HashT" THEN FullTrie.children[i]
            ELSE NewHashNode(HashOf(FullTrie.children[i]))]]

\* The trie in memory, the trie reopened from its root hash, the trie with
\* a collapsed root, and the last two over a store that lacks one node.
MCTries ==
    {[root |-> FullTrie, store |-> {}]}
    \cup {[root |-> r, store |-> s] :
            r \in {NewHashNode(HashOf(FullTrie)), Collapsed},
            s \in {Flushed} \cup {Flushed \ {b} : b \in Flushed}}

\* Present keys, keys that leave the trie at an extension, at a leaf, at an
\* empty child, and the empty key.
MCKeys == {<<0>>, <<0, 1>>, <<2>>, <<1>>, <<3>>, <<2, 0>>, <<>>}

\* A leaf with another value, and an extension that leads to it in the place
\* of the one that leads to "v3".
MCForged ==
    {Encoding(NewLeafNode("v9")),
     Encoding(NewExtensionNode(<<0>>, NewLeafNode("v9")))}
=============================================================================
