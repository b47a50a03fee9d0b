------------------------------ MODULE MCNeoBlock ------------------------------
(* NeoBlock instantiated for TLC. *)
EXTENDS NeoBlock

\* uint32 scaled to 4 bits, uint64 to 8 bits, a second to 10 units: the real
\* widths leave the same room, (2^32 - 1) * 10^9 < 2^64 as 15 * 10 < 2^8.
MCHeaders ==
    [version : {0}, prevHash : {"p"}, merkleRoot : {"r1", "r2"}, timestamp : {0, 7, 15},
     index : {1, 2}, consensusData : {9}, nextConsensus : {"nc"}]
=============================================================================
