------------------------- MODULE MCConsensusPayload -------------------------
(***************************************************************************)
(* ConsensusPayload for TLC: three validators, of which validator 1 is     *)
(* faulty and validator 2 has lost the round: only recovery messages      *)
(* reach it.  The round states of validators 0 and 2 are followed.        *)
(***************************************************************************)
EXTENDS ConsensusPayload

MCValidators == 0 .. 2
MCFaulty     == {1}
MCTrackers   == {0, 2}
MCLagging    == {2}

=============================================================================
