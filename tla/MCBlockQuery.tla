---------------------------- MODULE MCBlockQuery ----------------------------
(* BlockQuery for TLC: hashes are free terms.                                *)
EXTENDS BlockQuery

MCKeccak(input) == input

\* Three validators, whose order is not that of their addresses; the second
\* one does not vote for every block.
MCPrecommits(h) == IF h = 1 THEN <<3, 1, 2>> ELSE <<3, NoVote, 2>>
=============================================================================
