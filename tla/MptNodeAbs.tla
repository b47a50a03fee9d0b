----------------------------- MODULE MptNodeAbs -----------------------------
(***************************************************************************)
(* What a node of pkg/core/mpt promises the code that calls it, with no    *)
(* cache in it: the object is a tree of keys, values and hashes, Hash()    *)
(* and Bytes() are functions of that tree and leave it alone, and a decode *)
(* that succeeds makes the object the tree the bytes describe.  MptNode,   *)
(* the object with the BaseNode of base.go, is shown to implement it.      *)
(***************************************************************************)
EXTENDS MptNodes

CONSTANTS
    Nodes,          \* the nodes callers build and peers serialise
    Damaged         \* byte strings no node of Nodes encodes to

VARIABLES
    tree,           \* the node and what is below it, caches cleared
    answer          \* the last call, its outcome and what it read or returned

absVars == <<tree, answer>>

Trees     == {Strip(n) : n \in Nodes}
Encodings == {Encoding(n) : n \in Nodes} \cup Damaged

\* A node has a hash when every hash its encoding needs exists: an empty
\* hash node has none, and an extension needs that of next.  A branch writes
\* its hash-node children as they are, empty ones included.
RECURSIVE Hashable(_)
Hashable(n) ==
    CASE n.type = "HashT"      -> ~IsEmpty(n)
      [] n.type = "ExtensionT" -> Hashable(n.next)
      [] n.type = "BranchT"    -> \A c \in Children(n) : c.type = "HashT" \/ Hashable(c)
      [] OTHER                 -> TRUE

Encodable(n) == n.type = "HashT" \/ Hashable(n)

Answer(op, out, arg) == answer' = [op |-> op, out |-> out, arg |-> arg]

\* A call that reads: the tree stays, the value is that of the tree, and the
\* call panics exactly when the tree has no such value.
Query(op, defined, val) ==
    /\ UNCHANGED tree
    /\ \/ defined /\ Answer(op, "ok", val)
       \/ ~defined /\ Answer(op, "panic", <<>>)

Init ==
    /\ tree \in Trees \cup {NewExtensionNode(<<>>, EmptyHashNode)}
    /\ answer = [op |-> "new", out |-> "ok", arg |-> <<>>]

New         == tree' \in Trees /\ Answer("new", "ok", <<>>)
Hash        == Query("Hash", Hashable(tree), HashOf(tree))
Bytes       == Query("Bytes", Encodable(tree), Encoding(tree))
MarshalJSON == Query("MarshalJSON", tree.type = "ExtensionT", tree)

\* A decode that succeeds leaves the tree the bytes encode, free of caches.
\* Only bytes no node encodes to are refused, and nothing is promised of the
\* object then: the caller has the error.
Decode ==
    \E op \in {"DecodeBinary", "DecodeNodeWithType"}, bytes \in Encodings :
        /\ Answer(op, answer'.out, bytes)
        /\ \/ answer'.out = "ok" /\ Encoding(tree') = bytes /\ tree' = Strip(tree')
           \/ answer'.out = "error" /\ bytes \in Damaged

\* A document of an extension replaces the tree, any other is refused.
UnmarshalJSON ==
    \E d \in Trees \cup {NoNode} :
        \/ d.type = "ExtensionT" /\ tree' = d /\ Answer("UnmarshalJSON", "ok", d)
        \/ d.type # "ExtensionT" /\ UNCHANGED tree /\ Answer("UnmarshalJSON", "error", d)

Next == New \/ Hash \/ Bytes \/ MarshalJSON \/ Decode \/ UnmarshalJSON

Spec == Init /\ [][Next]_absVars

=============================================================================
