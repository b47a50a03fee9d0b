---------------------------- MODULE MCMerkleBlock ----------------------------
(* MerkleBlock instantiated for TLC. *)
EXTENDS MerkleBlock

\* No hash, one, and two: the tree of a block of up to two transactions.
MCHashLists == {<<>>, <<"a">>, <<"a", "b">>}
MCFlagBytes == {<<>>, <<1>>}
=============================================================================
