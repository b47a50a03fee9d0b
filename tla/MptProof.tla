------------------------------ MODULE MptProof ------------------------------
(***************************************************************************)
(* Proofs of membership in the Merkle-Patricia trie: proof.go.  A trie is  *)
(* a root node and a store of serialised nodes found by their hash.        *)
(* GetProof walks from the root along the nibbles of a key, loads the      *)
(* nodes that are only known by hash, links them into the tree and         *)
(* collects the bytes of every node on the way; VerifyProof rebuilds a     *)
(* trie from a root hash and those bytes alone and looks the key up.       *)
(*                                                                         *)
(* toNibbles, splitPath, getFromStore and getWithPath are called by        *)
(* proof.go and defined in files that are not in the repository; they are  *)
(* modelled from what the calls require of them.                           *)
(***************************************************************************)
EXTENDS MptNodes, SequencesExt

CONSTANTS
    Tries,          \* the tries to start from: records [root, store]
    Keys,           \* the keys asked for: sequences of bytes
    Content,        \* what the trie holds: a function from its keys to values
    Forged          \* serialised nodes that are in no store of the trie

VARIABLES
    root,           \* Trie.root
    store,          \* Trie.Store: the set of serialised nodes
    rh,             \* the root hash published for the trie
    last            \* the last call: its key, what it returned

vars == <<root, store, rh, last>>

-----------------------------------------------------------------------------
(* The path of a key *)

\* Two nibbles for every byte, high one first.
toNibbles(key) ==
    FlattenSeq([i \in DOMAIN key |-> <<key[i] \div lastChild, key[i] % lastChild>>])

\* The child to descend to and the rest of the path; the value slot when
\* the path has ended.
splitPath(path) ==
    IF path # <<>> THEN [i |-> Head(path), path |-> Tail(path)]
    ELSE [i |-> lastChild, path |-> path]

\* The node stored under h, decoded, with its cache set to the bytes read
\* and to h.
getFromStore(st, h) ==
    LET found == {b \in st : DoubleSha256(b) = h}
        bytes == CHOOSE b \in found : TRUE
        d     == DecodeNodeWithType(bytes)
    IN  IF found = {} \/ d.err THEN [node |-> NoNode, err |-> TRUE]
        ELSE [node |-> setCache(d.node, bytes, h), err |-> FALSE]

-----------------------------------------------------------------------------
(* getProof *)

\* The result of getProof on a node: the node as the call leaves it in
\* place (cur), the node the call returns (ret, nil on error), the bytes
\* appended to the proof, and the error.
NotFound(curr) == [cur |-> curr, ret |-> NoNode, proof |-> <<>>, err |-> TRUE]

\* Variant of Linked that assigns the child before it looks at the error.
LinkedBeforeCheck(bytes, sub, withRet, withCur) ==
    [cur |-> withRet, ret |-> IF sub.err THEN NoNode ELSE withRet,
     proof |-> <<bytes>> \o sub.proof, err |-> sub.err]

\* The result of a branch or an extension from the result sub of the call on
\* its child: on success the child is replaced by the node returned
\* (withRet), on error the node keeps its child (withCur) and nil is
\* returned.
Linked(bytes, sub, withRet, withCur) ==
    [cur   |-> IF sub.err THEN withCur ELSE withRet,
     ret   |-> IF sub.err THEN NoNode ELSE withRet,
     proof |-> <<bytes>> \o sub.proof,
     err   |-> sub.err]

RECURSIVE getProof(_, _, _)

\* Variant of the branch case that descends to the child the path names and
\* puts the node returned into the value slot.
LinkBranchValueSlot(st, n, path) ==
    LET b   == getBytes(n)
        sp  == splitPath(path)
        sub == getProof(st, b.node.children[sp.i], sp.path)
    IN  Linked(b.val, sub,
               [b.node EXCEPT !.children[lastChild] = sub.ret],
               [b.node EXCEPT !.children[sp.i] = sub.cur])

ProofOfBranch(st, n, path) ==
    LET b   == getBytes(n)
        sp  == splitPath(path)
        sub == getProof(st, b.node.children[sp.i], sp.path)
    IN  Linked(b.val, sub,
               [b.node EXCEPT !.children[sp.i] = sub.ret],
               [b.node EXCEPT !.children[sp.i] = sub.cur])

ProofOfExtension(st, n, path) ==
    LET b   == getBytes(n)
        sub == getProof(st, b.node.next, SubSeq(path, Len(n.key) + 1, Len(path)))
    IN  IF ~IsPrefix(n.key, path) THEN NotFound(n)
        ELSE Linked(b.val, sub,
                    [b.node EXCEPT !.next = sub.ret],
                    [b.node EXCEPT !.next = sub.cur])

ProofOfLeaf(n, path) ==
    LET b == getBytes(n) IN
    IF path # <<>> THEN NotFound(n)
    ELSE [cur |-> b.node, ret |-> b.node, proof |-> <<b.val>>, err |-> FALSE]

\* A hash node stays what it is; the node loaded in its place is what the
\* call returns.
ProofOfHash(st, n, path) ==
    LET r   == getFromStore(st, n.base.hash)
        sub == getProof(st, r.node, path)
    IN  IF IsEmpty(n) \/ r.err THEN NotFound(n)
        ELSE [sub EXCEPT !.cur = n]

getProof(st, curr, path) ==
    CASE curr.type = "LeafT"      -> ProofOfLeaf(curr, path)
      [] curr.type = "BranchT"    -> ProofOfBranch(st, curr, path)
      [] curr.type = "ExtensionT" -> ProofOfExtension(st, curr, path)
      [] curr.type = "HashT"      -> ProofOfHash(st, curr, path)

-----------------------------------------------------------------------------
(* VerifyProof *)

RECURSIVE getWithPath(_, _, _)

NoValue == [value |-> <<>>, ok |-> FALSE]

\* A leaf answers for the path that ends at it.
ValueOfLeaf(n, path) ==
    IF path = <<>> THEN [value |-> n.value, ok |-> TRUE] ELSE NoValue

\* The value under path below curr.  VerifyProof drops the trie it walks,
\* so only the value and the error are kept.
getWithPath(st, curr, path) ==
    LET r == getFromStore(st, curr.base.hash) IN
        CASE curr.type = "LeafT" -> ValueOfLeaf(curr, path)
          [] curr.type = "BranchT" ->
                getWithPath(st, curr.children[splitPath(path).i], splitPath(path).path)
          [] curr.type = "ExtensionT" ->
                IF IsPrefix(curr.key, path)
                THEN getWithPath(st, curr.next, SubSeq(path, Len(curr.key) + 1, Len(path)))
                ELSE NoValue
          [] curr.type = "HashT" ->
                IF IsEmpty(curr) \/ r.err THEN NoValue ELSE getWithPath(st, r.node, path)

\* Variant of VerifyProof that walks the bytes of the key.
VerifyProofRawKey(h, key, proofs) ==
    getWithPath(ToSet(proofs), NewHashNode(h), key)

\* Variant of VerifyProof that takes the root from the proof.
VerifyProofOwnRoot(h, key, proofs) ==
    getWithPath(ToSet(proofs),
                NewHashNode(IF proofs = <<>> THEN h ELSE DoubleSha256(proofs[1])),
                toNibbles(key))

\* A new trie whose root is the hash node of rh over a store that holds
\* every element of the proof under its own hash.
VerifyProof(h, key, proofs) ==
    getWithPath(ToSet(proofs), NewHashNode(h), toNibbles(key))

-----------------------------------------------------------------------------
(* The trie under calls *)

NoCall == [op |-> "none", key |-> <<>>, proof |-> <<>>, value |-> <<>>, ok |-> FALSE]

Init ==
    /\ \E t \in Tries : root = t.root /\ store = t.store
    /\ rh = HashOf(root)
    /\ last = NoCall

\* Trie.GetProof: the root is replaced on success only; what the walk
\* changed in place stays either way, and so does the part of the proof
\* collected before an error.
GetProof(key) ==
    LET r == getProof(store, root, toNibbles(key)) IN
    /\ root' = IF r.err THEN r.cur ELSE r.ret
    /\ last' = [op |-> "GetProof", key |-> key, proof |-> r.proof,
                value |-> <<>>, ok |-> ~r.err]
    /\ UNCHANGED <<store, rh>>

\* The proofs a verifier is handed for the published root hash: the last
\* proof, the proof without one of its nodes, the proof with a node replaced
\* by a forged one.
Offered ==
    LET genuine == ToSet(last.proof) IN
    {genuine} \cup {genuine \ {b} : b \in genuine}
              \cup {(genuine \ {b}) \cup {f} : b \in genuine, f \in Forged}

CallVerifyProof(key) ==
    \E ps \in Offered :
        LET proofs == SetToSeq(ps)
            r      == VerifyProof(rh, key, proofs)
        IN  /\ last' = [op |-> "VerifyProof", key |-> key, proof |-> last.proof,
                        value |-> r.value, ok |-> r.ok]
            /\ UNCHANGED <<root, store, rh>>

Next == \E key \in Keys : GetProof(key) \/ CallVerifyProof(key)

Spec == Init /\ [][Next]_vars

-----------------------------------------------------------------------------
(* Properties *)

\* Every node a hash node of the tree names is in the store.
RECURSIVE Resolvable(_)
Resolvable(n) ==
    IF n.type = "HashT"
    THEN IsEmpty(n) \/ (~getFromStore(store, n.base.hash).err
                          /\ Resolvable(getFromStore(store, n.base.hash).node))
    ELSE \A c \in Children(n) : Resolvable(c)

\* The type invariant.
TypeOK ==
    /\ IsNode(root)
    /\ last.op \in {"none", "GetProof", "VerifyProof"}
    /\ last.ok \in BOOLEAN
    /\ last.key \in Keys \cup {<<>>}

\* Asking for proofs never changes what the trie commits to.  getProof
\* rewrites the tree while it walks (it fills caches, and on the way back
\* it replaces each hash node by the node loaded for it); after any number
\* of proofs, failed ones included, the root still hashes to the published
\* root hash and every cache in the tree is the encoding of its node.
ProofsKeepTheTrie == HashOf(root) = rh /\ AllCoherent(root)

\* GetProof answers for exactly the keys of the trie when every node can
\* be loaded, and a proof it returns verifies: VerifyProof of the
\* published root hash, the key and the proof returns the value stored
\* under the key.  The proof is collected root first while nodes are being
\* loaded and linked, so it must hold all the nodes of the path and their
\* bytes must hash to what their parents wrote.
ProofVerifies ==
    last.op = "GetProof" =>
        /\ last.ok => /\ last.key \in DOMAIN Content
                      /\ VerifyProof(rh, last.key, last.proof)
                            = [value |-> Content[last.key], ok |-> TRUE]
        /\ (Resolvable(root) /\ last.key \in DOMAIN Content) => last.ok

\* VerifyProof accepts nothing but the truth: whatever subset of genuine
\* and forged nodes it is handed and whatever key it is asked about, when
\* it succeeds the key is in the trie of that root hash and the value is
\* the one stored.  A proof of one key never passes for a key that
\* extends it, is a prefix of it or shares its start.
ProofSound ==
    (last.op = "VerifyProof" /\ last.ok) =>
        /\ last.key \in DOMAIN Content
        /\ last.value = Content[last.key]

=============================================================================
