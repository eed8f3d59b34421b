-------------------------- MODULE MCBridgePipeline --------------------------
(* BridgePipeline for TLC: hashes are free terms.                           *)
EXTENDS BridgePipeline

MCHash(left, right) == <<left, right>>
=============================================================================
